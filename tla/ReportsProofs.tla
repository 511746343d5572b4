--------------------------- MODULE ReportsProofs ---------------------------
(***************************************************************************)
(* A report that was handed out is kept, and every report gets its         *)
(* outcome, for any number of reports, overrides and overlapping runs.     *)
(* What makes it so is that the row, the job and the run of a report tell  *)
(* the same story, although no transaction spans them: the invariant says  *)
(* what each of the three implies of the others.                           *)
(***************************************************************************)
EXTENDS Reports, JobQueueProofs

\* The jobs are sound: see JobQueueProofs.
JobsSound == \A i \in Report : JobSound(job[i])

\* Nothing is queued for a report that is not there; what is late is troubled.
JobsExist ==
  /\ \A i \in Report : ~exists(i) => job[i].state = "none"
  /\ \A i \in stray : exists(i) /\ i \in troubled

\* A run works on a report, and holds its job unless the lock was lost.
RunsHold ==
  \A r \in Run : run[r].at # "idle" =>
    /\ run[r].id \in Report /\ exists(run[r].id)
    /\ run[r].id \notin troubled => job[run[r].id].holder = r

\* What holds a job is a run of it.
HoldersRun ==
  \A i \in Report : job[i].holder # "nobody" =>
    run[job[i].holder].at # "idle" /\ run[job[i].holder].id = i

\* Where the run of a report is tells the report's status.
StatusAt(at) ==
  CASE at = "started" -> {"QUEUED", "FAILED"}
    [] at \in {"generating", "failing"} -> {"PROCESSING"}
    [] at = "done" -> {"COMPLETE"}
    [] OTHER -> {"FAILED"}
RunTellsStatus ==
  \A r \in Run : run[r].at # "idle" /\ run[r].id \notin troubled =>
    report[run[r].id].status \in StatusAt(run[r].at)

\* A request still has to queue the report, or has failed on the reissue.
Queues(q, i) == request[q].at \in {"adding", "failing"} /\ request[q].id = i
Left(q, i) == request[q].at = "gone" /\ request[q].id = i /\ isReissue(i)

\* The job of a report that nobody works on tells its status.
JobTellsStatus ==
  \A i \in Report \ troubled :
    /\ job[i].state \in {"waiting", "delayed"} => report[i].status \in {"QUEUED", "FAILED"}
    /\ job[i].state = "failed" => report[i].status = "FAILED"
    /\ job[i].state = "none" =>
         \/ report[i].status \in {"none", "COMPLETE", "FAILED"}
         \/ report[i].status = "QUEUED" /\ \E q \in Request : Queues(q, i) \/ Left(q, i)

\* A report is queued by one request, and untouched until then.
RequestsWait ==
  \A q \in Request, i \in Report \cup {0} : Queues(q, i) =>
    /\ i \in Report /\ exists(i)
    /\ i \notin troubled => job[i].state = "none" /\ report[i].status = "QUEUED"
    /\ \A p \in Request : Queues(p, i) => p = q

\* Where a run is.
RunState == [at : {"idle", "started", "generating", "done", "failing", "thrown"},
             id : Report \cup {0}]
USE DEF RunState

IInv ==
  /\ TypeOK /\ JobsSound /\ JobsExist
  /\ RunsHold /\ HoldersRun /\ RunTellsStatus /\ JobTellsStatus /\ RequestsWait

-----------------------------------------------------------------------------
(* Requests                                                                *)

\* A row is inserted: it was not there, so nothing else is about it.
LEMMA QueueKeeps ==
  ASSUME IInv, NEW q \in Request, request[q].at \in {"idle", "reissuing"},
         NEW i \in Report, NEW original \in Report \cup {0}, NEW rest \in SUBSET Report,
         Queue(q, i, original, rest), UNCHANGED <<job, stray, run, troubled>>
  PROVE  IInv'
<1> USE DEF IInv
<1>1. ~exists(i) /\ job[i].state = "none" /\ i \notin stray
  BY DEF Queue, fresh, JobsExist
<1>2. /\ report' = [report EXCEPT ![i] = [status |-> "QUEUED", supersedes |-> original]]
      /\ request' = [request EXCEPT ![q] = [at |-> "adding", id |-> i, affected |-> rest]]
  BY DEF Queue
<1>3. TypeOK'
  BY <1>2 DEF TypeOK, Row
<1>4. report'[i].status = "QUEUED" /\ \A j \in Report \ {i} : report'[j] = report[j]
  BY <1>2 DEF TypeOK
<1>5. /\ request'[q].at = "adding" /\ request'[q].id = i
      /\ \A p \in Request \ {q} : request'[p] = request[p]
  BY <1>2 DEF TypeOK
<1>6. JobsSound' /\ HoldersRun'
  BY DEF JobsSound, HoldersRun
<1>7. JobsExist'
  <2>1. stray \subseteq Report \ {i}
    BY <1>1 DEF TypeOK
  <2> QED BY <2>1, <1>1, <1>4 DEF JobsExist, exists
<1>8. RunsHold' /\ RunTellsStatus'
  <2>1. \A r \in Run : run[r].at # "idle" => run[r].id # i /\ run[r].id \in Report
    BY <1>1 DEF RunsHold
  <2> QED BY <2>1, <1>4 DEF RunsHold, RunTellsStatus, exists
<1>9. RequestsWait'
  <2>1. \A p \in Request : ~Queues(p, i)
    BY <1>1 DEF RequestsWait
  <2> QED BY <2>1, <1>1, <1>4, <1>5 DEF RequestsWait, Queues, exists
<1>10. JobTellsStatus'
  <2>1. ASSUME NEW j \in Report \ {i}, NEW p \in Request, Queues(p, j) \/ Left(p, j)
        PROVE  (Queues(p, j) \/ Left(p, j))'
    BY <2>1, <1>4, <1>5 DEF Queues, Left, isReissue
  <2>2. Queues(q, i)'
    BY <1>5 DEF Queues
  <2> QED BY <2>1, <2>2, <1>1, <1>4 DEF JobTellsStatus
<1> QED BY <1>3, <1>6, <1>7, <1>8, <1>9, <1>10

\* A request that is about no report yet, or no longer, changes itself only.
LEMMA RequestKeeps ==
  ASSUME IInv, NEW q \in Request, request[q].at \in {"idle", "reissuing"},
         \A p \in Request \ {q} : request'[p] = request[p],
         TypeOK', request'[q].at \notin {"adding", "failing"},
         UNCHANGED <<report, job, stray, run, troubled>>
  PROVE  IInv'
<1> USE DEF IInv
<1>1. JobsSound' /\ HoldersRun' /\ JobsExist' /\ RunsHold' /\ RunTellsStatus'
  BY DEF JobsSound, HoldersRun, JobsExist, RunsHold, RunTellsStatus, exists
<1>2. RequestsWait'
  BY DEF RequestsWait, Queues, exists
<1>3. JobTellsStatus'
  <2>1. ASSUME NEW j \in Report, NEW p \in Request, Queues(p, j) \/ Left(p, j)
        PROVE  (Queues(p, j) \/ Left(p, j))'
    BY <2>1 DEF Queues, Left, isReissue
  <2> QED BY <2>1 DEF JobTellsStatus
<1> QED BY <1>1, <1>2, <1>3

\* Steps of the requests preserve the invariant.
LEMMA RequestInvariance ==
  ASSUME IInv, NEW q \in Request, RequestNext(q)
  PROVE  IInv'
<1>1. CASE RequestReport(q)
  <2>1. PICK i \in Report : Queue(q, i, 0, {})
    BY <1>1 DEF RequestReport
  <2> QED BY <1>1, <2>1, QueueKeeps DEF RequestReport
<1>2. CASE Override(q)
  <2>1. TypeOK' /\ request'[q].at = "reissuing"
    BY <1>2 DEF Override, IInv, TypeOK
  <2> QED BY <1>2, <2>1, RequestKeeps DEF Override, IInv, TypeOK
<1>3. CASE ReissueOne(q)
  <2>1. PICK i \in request[q].affected :
          IF isSuperseded(i)
          THEN request' = [request EXCEPT ![q].at = "gone"] /\ UNCHANGED report
          ELSE \E j \in Report : Queue(q, j, i, request[q].affected \ {i})
    BY <1>3 DEF ReissueOne
  <2>2. i \in Report /\ request[q].affected \ {i} \in SUBSET Report
    BY <2>1 DEF IInv, TypeOK
  <2>3. CASE isSuperseded(i)
    <3>1. TypeOK' /\ request'[q].at = "gone"
      BY <1>3, <2>1, <2>3 DEF ReissueOne, IInv, TypeOK
    <3> QED BY <1>3, <2>1, <2>3, <3>1, RequestKeeps DEF ReissueOne, IInv, TypeOK
  <2>4. CASE ~isSuperseded(i)
    <3>1. PICK j \in Report : Queue(q, j, i, request[q].affected \ {i})
      BY <2>1, <2>4
    <3> QED BY <1>3, <2>2, <3>1, QueueKeeps DEF ReissueOne
  <2> QED BY <2>3, <2>4
<1>4. CASE EndReissue(q)
  <2>1. TypeOK' /\ request'[q].at = "idle"
    BY <1>4 DEF EndReissue, IInv, TypeOK, NoRequest
  <2> QED BY <1>4, <2>1, RequestKeeps DEF EndReissue, IInv, TypeOK
<1>5. CASE Enqueue(q)
  <2> DEFINE i == request[q].id
  <2>1. /\ Queues(q, i) /\ i \in Report /\ exists(i)
        /\ i \notin troubled => job[i].state = "none" /\ report[i].status = "QUEUED"
        /\ \A p \in Request : Queues(p, i) => p = q
    BY <1>5 DEF Enqueue, IInv, RequestsWait, Queues, TypeOK
  <2>2. /\ job' = [job EXCEPT ![i] = Added(@)]
        /\ UNCHANGED <<report, stray, run, troubled>>
    BY <1>5 DEF Enqueue
  <2>3. /\ request'[q].at \in {"reissuing", "idle"}
        /\ \A p \in Request \ {q} : request'[p] = request[p]
    BY <1>5 DEF Enqueue, NoRequest, IInv, TypeOK
  <2>4. /\ Added(job[i]) \in Job /\ JobSound(Added(job[i]))
        /\ job[i].state # "none" => Added(job[i]) = job[i]
        /\ job[i].state = "none" =>
             Added(job[i]).state = "waiting" /\ Added(job[i]).holder = "nobody"
    BY <2>1, Adding, NewJobs DEF IInv, TypeOK, JobsSound
  <2>5. job'[i] = Added(job[i]) /\ \A j \in Report \ {i} : job'[j] = job[j]
    BY <2>1, <2>2 DEF IInv, TypeOK
  <2>6. TypeOK'
    <3>1. job' \in [Report -> Job]
      BY <2>1, <2>2, <2>4 DEF IInv, TypeOK
    <3>2. request' \in [Request -> [at : {"idle", "gone", "reissuing", "adding", "failing"},
                                   id : Report \cup {0}, affected : SUBSET Report]]
      BY <1>5 DEF Enqueue, NoRequest, IInv, TypeOK
    <3> QED BY <2>2, <3>1, <3>2 DEF IInv, TypeOK
  <2> HIDE DEF i
  <2>7. JobsSound' /\ JobsExist' /\ HoldersRun'
    BY <2>1, <2>2, <2>4, <2>5 DEF IInv, JobsSound, JobsExist, HoldersRun, exists
  <2>8. RunsHold' /\ RunTellsStatus'
    <3>1. ASSUME NEW r \in Run, run[r].at # "idle", run[r].id = i, i \notin troubled
          PROVE  FALSE
      BY <2>1, <3>1, JobQueueAssumption
         DEF JobQueueAssumption, IInv, RunsHold, JobsSound, JobSound
    <3> QED BY <3>1, <2>2, <2>5 DEF IInv, RunsHold, RunTellsStatus, exists
  <2>9. RequestsWait'
    <3>1. ASSUME NEW p \in Request, NEW j \in Report \cup {0}, Queues(p, j)'
          PROVE  p # q /\ j # i /\ Queues(p, j)
      BY <2>1, <2>3, <3>1 DEF Queues
    <3> QED BY <3>1, <2>2, <2>5 DEF IInv, RequestsWait, exists
  <2>10. JobTellsStatus'
    <3>1. ASSUME NEW p \in Request, NEW j \in Report \ {i}, Queues(p, j) \/ Left(p, j)
          PROVE  (Queues(p, j) \/ Left(p, j))'
      BY <1>5, <3>1, <2>2, <2>3 DEF Queues, Left, isReissue, Enqueue, i
    <3> QED BY <3>1, <2>1, <2>2, <2>4, <2>5 DEF IInv, JobTellsStatus
  <2> QED BY <2>6, <2>7, <2>8, <2>9, <2>10 DEF IInv
<1>6. CASE GiveUp(q)
  <2> DEFINE i == request[q].id
  <2>1. /\ Queues(q, i) /\ i \in Report /\ exists(i)
        /\ i \notin troubled => job[i].state = "none" /\ report[i].status = "QUEUED"
        /\ \A p \in Request : Queues(p, i) => p = q
    BY <1>6 DEF GiveUp, IInv, RequestsWait, Queues, TypeOK
  <2>2. /\ UNCHANGED <<report, job, run>>
        /\ troubled \subseteq troubled' /\ troubled' \subseteq Report
        /\ stray' \subseteq stray \cup {i}
        /\ i \in stray' \ stray => i \in troubled'
    BY <1>6, <2>1 DEF GiveUp, IInv, TypeOK
  <2>3. /\ request' = [request EXCEPT ![q].at = IF isReissue(i) THEN "gone" ELSE "failing"]
    BY <1>6 DEF GiveUp
  <2>4. /\ request'[q].at = IF isReissue(i) THEN "gone" ELSE "failing"
        /\ request'[q].id = i
        /\ \A p \in Request \ {q} : request'[p] = request[p]
    BY <2>3 DEF IInv, TypeOK
  <2>5. TypeOK'
    BY <2>1, <2>2, <2>3 DEF IInv, TypeOK
  <2> HIDE DEF i
  <2>6. JobsSound' /\ JobsExist' /\ HoldersRun' /\ RunsHold' /\ RunTellsStatus'
    BY <2>1, <2>2 DEF IInv, JobsSound, JobsExist, HoldersRun, RunsHold, RunTellsStatus, exists
  <2>7. RequestsWait'
    <3>1. ASSUME NEW p \in Request, NEW j \in Report \cup {0}, Queues(p, j)'
          PROVE  Queues(p, j)
      BY <2>1, <2>4, <3>1 DEF Queues
    <3> QED BY <3>1, <2>2 DEF IInv, RequestsWait, exists
  <2>8. JobTellsStatus'
    <3>1. ASSUME NEW p \in Request, NEW j \in Report, Queues(p, j) \/ Left(p, j)
          PROVE  (Queues(p, j) \/ Left(p, j))'
      BY <2>1, <2>2, <2>4, <3>1 DEF Queues, Left, isReissue
    <3> QED BY <3>1, <2>2 DEF IInv, JobTellsStatus
  <2> QED BY <2>5, <2>6, <2>7, <2>8 DEF IInv
<1>7. CASE MarkUnqueued(q)
  <2> DEFINE i == request[q].id
  <2>1. /\ Queues(q, i) /\ i \in Report /\ exists(i)
        /\ i \notin troubled => job[i].state = "none" /\ report[i].status = "QUEUED"
        /\ \A p \in Request : Queues(p, i) => p = q
    BY <1>7 DEF MarkUnqueued, IInv, RequestsWait, Queues, TypeOK
  <2>2. /\ UNCHANGED <<job, stray, run>> /\ request' = [request EXCEPT ![q] = NoRequest]
        /\ troubled \subseteq troubled' /\ troubled' \subseteq Report
        /\ \/ report' = [report EXCEPT ![i].status = "FAILED"]
           \/ i \in troubled' /\ report' = report
    BY <1>7, <2>1 DEF MarkUnqueued, IInv, TypeOK
  <2>3. /\ request'[q].at = "idle"
        /\ \A p \in Request \ {q} : request'[p] = request[p]
    BY <2>2 DEF NoRequest, IInv, TypeOK
  <2>4. /\ report'[i].status = "FAILED" \/ i \in troubled'
        /\ report'[i].status \in {"FAILED", report[i].status}
        /\ report'[i].supersedes = report[i].supersedes
        /\ \A j \in Report \ {i} : report'[j] = report[j]
    <3>1. CASE report' = [report EXCEPT ![i].status = "FAILED"]
      BY <2>1, <3>1 DEF IInv, TypeOK
    <3>2. CASE i \in troubled' /\ report' = report
      BY <3>2
    <3> QED BY <2>2, <3>1, <3>2
  <2>5. TypeOK'
    BY <2>1, <2>2 DEF IInv, TypeOK, Row, NoRequest
  <2> HIDE DEF i
  <2>6. JobsSound' /\ JobsExist' /\ HoldersRun'
    BY <2>1, <2>2, <2>4 DEF IInv, JobsSound, JobsExist, HoldersRun, exists
  <2>7. RunsHold' /\ RunTellsStatus'
    <3>1. ASSUME NEW r \in Run, run[r].at # "idle", run[r].id = i, i \notin troubled
          PROVE  FALSE
      BY <2>1, <3>1, JobQueueAssumption
         DEF JobQueueAssumption, IInv, RunsHold, JobsSound, JobSound
    <3> QED BY <3>1, <2>1, <2>2, <2>4 DEF IInv, RunsHold, RunTellsStatus, exists
  <2>8. RequestsWait'
    <3>1. ASSUME NEW p \in Request, NEW j \in Report \cup {0}, Queues(p, j)'
          PROVE  p # q /\ j # i /\ Queues(p, j)
      BY <2>1, <2>3, <3>1 DEF Queues
    <3> QED BY <3>1, <2>2, <2>4 DEF IInv, RequestsWait, exists
  <2>9. JobTellsStatus'
    <3>1. ASSUME NEW p \in Request, NEW j \in Report \ {i}, Queues(p, j) \/ Left(p, j)
          PROVE  (Queues(p, j) \/ Left(p, j))'
      BY <1>7, <2>3, <2>4, <3>1 DEF Queues, Left, isReissue, MarkUnqueued, i
    <3> QED BY <3>1, <2>1, <2>2, <2>4 DEF IInv, JobTellsStatus
  <2> QED BY <2>5, <2>6, <2>7, <2>8, <2>9 DEF IInv
<1> QED BY <1>1, <1>2, <1>3, <1>4, <1>5, <1>6, <1>7 DEF RequestNext

-----------------------------------------------------------------------------
(* Runs                                                                    *)

\* A run that starts takes a job nobody holds.
LEMMA StartInvariance ==
  ASSUME IInv, NEW r \in Run, StartRun(r)
  PROVE  IInv'
<1> USE DEF IInv
<1>1. PICK i \in Report :
        /\ job[i].state = "waiting"
        /\ job' = [job EXCEPT ![i] = Taken(@, r)]
        /\ run' = [run EXCEPT ![r] = [at |-> "started", id |-> i]]
  BY DEF StartRun
<1>2. run[r].at = "idle" /\ UNCHANGED <<report, stray, request, troubled>>
  BY DEF StartRun
<1>3. /\ Taken(job[i], r) \in Job /\ JobSound(Taken(job[i], r))
      /\ Taken(job[i], r).state = "active" /\ Taken(job[i], r).holder = r
  BY <1>1, Taking DEF TypeOK, JobsSound
<1>4. job'[i] = Taken(job[i], r) /\ \A j \in Report \ {i} : job'[j] = job[j]
  BY <1>1 DEF TypeOK
<1>5. /\ run'[r].at = "started" /\ run'[r].id = i
      /\ \A s \in Run \ {r} : run'[s] = run[s]
  BY <1>1 DEF TypeOK
<1>6. TypeOK'
  <2>1. job' \in [Report -> Job]
    BY <1>1, <1>3 DEF TypeOK
  <2>2. [at |-> "started", id |-> i] \in RunState
    OBVIOUS
  <2> QED BY <1>1, <1>2, <2>1, <2>2 DEF TypeOK
<1>7. exists(i) /\ job[i].holder = "nobody"
  BY <1>1 DEF JobsExist, JobsSound, JobSound
<1>8. JobsSound' /\ JobsExist'
  BY <1>2, <1>3, <1>4, <1>7 DEF JobsSound, JobsExist, exists
<1>9. HoldersRun'
  <2>1. ASSUME NEW j \in Report \ {i}, job'[j].holder # "nobody"
        PROVE  run'[job'[j].holder].at # "idle" /\ run'[job'[j].holder].id = j
    <3>1. /\ job'[j] = job[j] /\ job[j].holder \in Run
          /\ run[job[j].holder].at # "idle" /\ run[job[j].holder].id = j
      BY <2>1, <1>4 DEF HoldersRun, TypeOK, Job
    <3> QED BY <3>1, <1>2, <1>5
  <2> QED BY <2>1, <1>3, <1>4, <1>5 DEF HoldersRun
<1>10. RunsHold'
  <2>1. ASSUME NEW s \in Run \ {r}, run[s].at # "idle", run[s].id = i
        PROVE  i \in troubled
    BY <2>1, <1>7, JobQueueAssumption DEF JobQueueAssumption, RunsHold
  <2> QED BY <2>1, <1>2, <1>3, <1>4, <1>5, <1>7 DEF RunsHold, exists
<1>11. RunTellsStatus'
  <2>1. i \notin troubled => report[i].status \in StatusAt("started")
    BY <1>1 DEF JobTellsStatus, StatusAt
  <2> QED BY <2>1, <1>2, <1>5 DEF RunTellsStatus
<1>12. JobTellsStatus'
  <2>1. \A q \in Request, j \in Report :
          (Queues(q, j) \/ Left(q, j))' <=> Queues(q, j) \/ Left(q, j)
    BY <1>2 DEF Queues, Left, isReissue
  <2> QED BY <2>1, <1>2, <1>3, <1>4 DEF JobTellsStatus
<1>13. RequestsWait'
  <2>1. \A q \in Request : \A j : Queues(q, j)' <=> Queues(q, j)
    BY <1>2 DEF Queues
  <2> QED BY <2>1, <1>1, <1>2, <1>4 DEF RequestsWait, exists
<1> QED BY <1>6, <1>8, <1>9, <1>10, <1>11, <1>12, <1>13

\* A run that holds its job has it alone, and no request is about to queue it.
LEMMA Alone ==
  ASSUME IInv, NEW r \in Run, run[r].at # "idle"
  PROVE  LET i == run[r].id IN
         /\ i \in Report /\ exists(i)
         /\ i \notin troubled =>
              /\ job[i].holder = r /\ job[i].state = "active"
              /\ \A s \in Run : run[s].at # "idle" /\ run[s].id = i => s = r
              /\ \A q \in Request : ~Queues(q, i)
<1> DEFINE i == run[r].id
<1>1. i \in Report /\ exists(i)
  BY DEF IInv, RunsHold
<1>2. ASSUME i \notin troubled
      PROVE  /\ job[i].holder = r /\ job[i].state = "active"
             /\ \A s \in Run : run[s].at # "idle" /\ run[s].id = i => s = r
  BY <1>1, <1>2, JobQueueAssumption DEF JobQueueAssumption, IInv, RunsHold, JobsSound, JobSound
<1>3. ASSUME i \notin troubled, NEW q \in Request, Queues(q, i)
      PROVE  FALSE
  BY <1>1, <1>2, <1>3 DEF IInv, RequestsWait
<1> QED BY <1>1, <1>2, <1>3

\* A run goes on, writing the status that belongs to where it gets, or it is in
\* trouble.
LEMMA WriteInvariance ==
  ASSUME IInv, NEW r \in Run, run[r].at # "idle",
         NEW to \in {"generating", "done", "failing", "thrown"}, Goes(r, to),
         NEW status \in {"PROCESSING", "COMPLETE", "FAILED", report[run[r].id].status},
         report' = [report EXCEPT ![run[r].id].status = status],
         UNCHANGED <<job, stray, request>>,
         troubled \subseteq troubled', troubled' \subseteq Report,
         run[r].id \notin troubled' => status \in StatusAt(to)
  PROVE  IInv'
<1> DEFINE i == run[r].id
<1>1. /\ i \in Report /\ exists(i)
      /\ i \notin troubled =>
           /\ job[i].holder = r /\ job[i].state = "active"
           /\ \A s \in Run : run[s].at # "idle" /\ run[s].id = i => s = r
           /\ \A q \in Request : ~Queues(q, i)
  BY Alone
<1>2. /\ run'[r].at = to /\ run'[r].id = i
      /\ \A s \in Run \ {r} : run'[s] = run[s]
  BY DEF Goes, IInv, TypeOK
<1>3. status \in {"QUEUED", "PROCESSING", "COMPLETE", "FAILED"}
  BY <1>1 DEF IInv, TypeOK, Row, exists
<1>4. /\ report'[i].status = status /\ report'[i].supersedes = report[i].supersedes
      /\ \A j \in Report \ {i} : report'[j] = report[j]
  BY <1>1 DEF IInv, TypeOK
<1>5. TypeOK'
  <2>1. report' \in [Report -> Row]
    BY <1>1, <1>3 DEF IInv, TypeOK, Row
  <2>2. run' \in [Run -> RunState]
    BY DEF Goes, IInv, TypeOK
  <2> QED BY <2>1, <2>2 DEF IInv, TypeOK
<1> HIDE DEF i
<1>6. JobsSound' /\ JobsExist'
  BY <1>1, <1>3, <1>4 DEF IInv, JobsSound, JobsExist, exists
<1>7. HoldersRun'
  <2>1. ASSUME NEW j \in Report, job[j].holder # "nobody"
        PROVE  run'[job[j].holder].at # "idle" /\ run'[job[j].holder].id = j
    <3>1. /\ job[j].holder \in Run
          /\ run[job[j].holder].at # "idle" /\ run[job[j].holder].id = j
      BY <2>1 DEF IInv, HoldersRun, TypeOK, Job
    <3> QED BY <3>1, <1>2 DEF i
  <2> QED BY <2>1 DEF HoldersRun
<1>8. RunsHold'
  BY <1>1, <1>2, <1>3, <1>4 DEF IInv, RunsHold, exists, i
<1>9. RunTellsStatus'
  <2>1. i \notin troubled' => status \in StatusAt(to)
    BY DEF i
  <2>2. ASSUME NEW s \in Run \ {r}, run'[s].at # "idle", run'[s].id \notin troubled'
        PROVE  report'[run'[s].id].status \in StatusAt(run'[s].at)
    <3>1. run'[s] = run[s] /\ run[s].id \in Report /\ run[s].id \notin troubled
      BY <2>2, <1>2 DEF IInv, RunsHold
    <3>2. run[s].id # i
      BY <2>2, <3>1, <1>1
    <3> QED BY <2>2, <3>1, <3>2, <1>4 DEF IInv, RunTellsStatus
  <2> QED BY <2>1, <2>2, <1>2, <1>4 DEF RunTellsStatus
<1>10. \A q \in Request, j \in Report \cup {0} :
         /\ Queues(q, j)' <=> Queues(q, j)
         /\ j \in Report => (Left(q, j)' <=> Left(q, j))
  BY <1>1, <1>4 DEF Queues, Left, isReissue
<1>11. RequestsWait'
  <2>1. ASSUME NEW q \in Request, NEW j \in Report \cup {0}, Queues(q, j)'
        PROVE  /\ j \in Report /\ exists(j)'
               /\ j \notin troubled' => job'[j].state = "none" /\ report'[j].status = "QUEUED"
               /\ \A p \in Request : Queues(p, j)' => p = q
    <3>1. /\ Queues(q, j) /\ j \in Report /\ exists(j)
          /\ j \notin troubled => job[j].state = "none" /\ report[j].status = "QUEUED"
          /\ \A p \in Request : Queues(p, j) => p = q
      BY <2>1, <1>10 DEF IInv, RequestsWait
    <3>2. \A p \in Request : Queues(p, j)' => p = q
      BY <3>1, <1>10
    <3>3. CASE j = i
      BY <3>1, <3>2, <3>3, <1>1, <1>3, <1>4 DEF exists
    <3>4. CASE j # i
      BY <3>1, <3>2, <3>4, <1>4 DEF exists
    <3> QED BY <3>3, <3>4
  <2> QED BY <2>1 DEF RequestsWait
<1>12. JobTellsStatus'
  BY <1>1, <1>4, <1>10 DEF IInv, JobTellsStatus
<1> QED BY <1>5, <1>6, <1>7, <1>8, <1>9, <1>11, <1>12 DEF IInv

\* The job of a report changes hands: its run ends or loses it, or a delay is over.
LEMMA JobInvariance ==
  ASSUME IInv, NEW i \in Report, NEW k \in Job, JobSound(k), k.holder = "nobody",
         job' = [job EXCEPT ![i] = k], UNCHANGED <<report, request>>,
         stray' \subseteq stray, troubled \subseteq troubled', troubled' \subseteq Report,
         run' \in [Run -> RunState],
         \A s \in Run : run'[s] # run[s] => run'[s].at = "idle" /\ run[s].id = i,
         exists(i),
         i \notin troubled' =>
           /\ job[i].state # "none"
           /\ \A s \in Run : run'[s].at # "idle" => run[s].id # i
           /\ k.state \in {"waiting", "delayed"} => report[i].status \in {"QUEUED", "FAILED"}
           /\ k.state = "failed" => report[i].status = "FAILED"
           /\ k.state = "none" => report[i].status \in {"none", "COMPLETE", "FAILED"}
  PROVE  IInv'
<1>1. job'[i] = k /\ \A j \in Report \ {i} : job'[j] = job[j]
  BY DEF IInv, TypeOK
<1>2. TypeOK'
  BY DEF IInv, TypeOK
<1>3. JobsSound' /\ JobsExist'
  BY <1>1 DEF IInv, JobsSound, JobsExist, exists
<1>4. HoldersRun'
  <2>1. ASSUME NEW j \in Report, job'[j].holder # "nobody"
        PROVE  run'[job'[j].holder].at # "idle" /\ run'[job'[j].holder].id = j
    <3>1. j # i /\ job'[j] = job[j]
      BY <1>1, <2>1
    <3>2. /\ job[j].holder \in Run
          /\ run[job[j].holder].at # "idle" /\ run[job[j].holder].id = j
      BY <2>1, <3>1 DEF IInv, TypeOK, Job, HoldersRun
    <3> QED BY <3>1, <3>2
  <2> QED BY <2>1 DEF HoldersRun
<1>5. RunsHold' /\ RunTellsStatus'
  <2>1. ASSUME NEW s \in Run, run'[s].at # "idle"
        PROVE  run'[s] = run[s] /\ (run[s].id \notin troubled' => run[s].id # i)
    BY <2>1
  <2> QED BY <2>1, <1>1 DEF IInv, RunsHold, RunTellsStatus, exists
<1>6. \A q \in Request : \A j :
        /\ Queues(q, j)' <=> Queues(q, j)
        /\ Left(q, j)' <=> Left(q, j)
  BY DEF Queues, Left, isReissue
<1>7. RequestsWait'
  BY <1>1, <1>6 DEF IInv, RequestsWait, exists
<1>8. JobTellsStatus'
  BY <1>1, <1>6 DEF IInv, JobTellsStatus
<1> QED BY <1>2, <1>3, <1>4, <1>5, <1>7, <1>8 DEF IInv

\* A run that has lost its job ends unheard.
LEMMA LostInvariance ==
  ASSUME IInv, NEW r \in Run, run[r].at # "idle", job[run[r].id].holder # r,
         job' = [job EXCEPT ![run[r].id] = job[run[r].id]],
         run' = [run EXCEPT ![r] = NoRun], UNCHANGED <<report, stray, request>>,
         troubled' \in {troubled, troubled \cup {run[r].id}}
  PROVE  IInv'
<1> DEFINE i == run[r].id
<1>1. i \in Report /\ i \in troubled /\ troubled' = troubled /\ job' = job
  BY DEF IInv, RunsHold, TypeOK
<1>2. run'[r].at = "idle" /\ \A s \in Run \ {r} : run'[s] = run[s]
  BY DEF IInv, TypeOK, NoRun
<1>3. TypeOK'
  BY <1>1 DEF IInv, TypeOK, NoRun
<1>4. HoldersRun'
  <2>1. ASSUME NEW j \in Report, job[j].holder # "nobody"
        PROVE  run'[job[j].holder].at # "idle" /\ run'[job[j].holder].id = j
    <3>1. /\ job[j].holder \in Run
          /\ run[job[j].holder].at # "idle" /\ run[job[j].holder].id = j
      BY <2>1 DEF IInv, HoldersRun, TypeOK, Job
    <3> QED BY <3>1, <1>2
  <2> QED BY <2>1, <1>1 DEF HoldersRun
<1>5. JobsSound' /\ JobsExist' /\ RunsHold' /\ RunTellsStatus'
  BY <1>1, <1>2 DEF IInv, JobsSound, JobsExist, RunsHold, RunTellsStatus, exists
<1>6. \A q \in Request : \A j :
        /\ Queues(q, j)' <=> Queues(q, j)
        /\ Left(q, j)' <=> Left(q, j)
  BY DEF Queues, Left, isReissue
<1>7. RequestsWait' /\ JobTellsStatus'
  BY <1>1, <1>6 DEF IInv, RequestsWait, JobTellsStatus, exists
<1> QED BY <1>3, <1>4, <1>5, <1>7 DEF IInv

\* Steps of the runs preserve the invariant.
LEMMA RunInvariance ==
  ASSUME IInv, NEW r \in Run, RunNext(r)
  PROVE  IInv'
<1> DEFINE i == run[r].id
<1>0. ASSUME run[r].at # "idle"
      PROVE  /\ i \in Report /\ exists(i) /\ job[i] \in Job /\ JobSound(job[i])
             /\ i \notin troubled =>
                  /\ job[i].holder = r /\ job[i].state = "active"
                  /\ report[i].status \in StatusAt(run[r].at)
                  /\ \A s \in Run : run[s].at # "idle" /\ run[s].id = i => s = r
  BY <1>0, Alone DEF IInv, TypeOK, JobsSound, RunTellsStatus
<1>10. ASSUME run[r].at # "idle", run' = [run EXCEPT ![r] = NoRun]
       PROVE  /\ run' \in [Run -> RunState]
              /\ \A s \in Run : run'[s] # run[s] => run'[s].at = "idle" /\ run[s].id = i
              /\ i \notin troubled => \A s \in Run : run'[s].at # "idle" => run[s].id # i
  <2>1. run'[r].at = "idle" /\ \A s \in Run \ {r} : run'[s] = run[s]
    BY <1>10 DEF IInv, TypeOK, NoRun
  <2> QED BY <2>1, <1>0, <1>10 DEF IInv, TypeOK, NoRun
<1>1. CASE StartRun(r)
  BY <1>1, StartInvariance
<1>2. CASE Begin(r)
  <2>1. /\ run[r].at = "started" /\ Goes(r, "generating")
        /\ report' = [report EXCEPT ![i].status = "PROCESSING"]
        /\ UNCHANGED <<job, stray, request, troubled>>
    BY <1>2 DEF Begin, Writes
  <2>2. "PROCESSING" \in StatusAt("generating") /\ troubled' \subseteq Report
    BY <2>1 DEF StatusAt, IInv, TypeOK
  <2> QED BY <2>1, <2>2, WriteInvariance
<1>3. CASE Finish(r)
  <2>1. /\ run[r].at = "generating" /\ Goes(r, "done")
        /\ report' = [report EXCEPT ![i].status = "COMPLETE"]
        /\ UNCHANGED <<job, stray, request, troubled>>
    BY <1>3 DEF Finish, Writes
  <2>2. "COMPLETE" \in StatusAt("done") /\ troubled' \subseteq Report
    BY <2>1 DEF StatusAt, IInv, TypeOK
  <2> QED BY <2>1, <2>2, WriteInvariance
<1>4. CASE MarkFailed(r)
  <2>1. /\ run[r].at = "failing" /\ Goes(r, "thrown")
        /\ report' = [report EXCEPT ![i].status = "FAILED"]
        /\ UNCHANGED <<job, stray, request, troubled>>
    BY <1>4 DEF MarkFailed, Writes
  <2>2. "FAILED" \in StatusAt("thrown") /\ troubled' \subseteq Report
    BY <2>1 DEF StatusAt, IInv, TypeOK
  <2> QED BY <2>1, <2>2, WriteInvariance
<1>5. CASE Fail(r)
  <2>1. run[r].at # "idle" /\ UNCHANGED <<report, job, stray, request>>
    BY <1>5 DEF Fail
  <2>2. report' = [report EXCEPT ![i].status = report[i].status]
    BY <2>1, <1>0 DEF IInv, TypeOK, Row
  <2>3. CASE run[r].at = "generating" /\ Goes(r, "failing") /\ UNCHANGED troubled
    <3>1. i \notin troubled' => report[i].status \in StatusAt("failing")
      BY <2>1, <2>3, <1>0 DEF StatusAt
    <3> QED BY <2>1, <2>2, <2>3, <3>1, WriteInvariance DEF IInv, TypeOK
  <2>4. CASE Goes(r, "thrown") /\ troubled' = troubled \cup {i}
    <3>1. troubled \subseteq troubled' /\ troubled' \subseteq Report /\ i \in troubled'
      BY <2>1, <2>4, <1>0 DEF IInv, TypeOK
    <3> QED BY <2>1, <2>2, <2>4, <3>1, WriteInvariance
  <2> QED BY <1>5, <2>3, <2>4 DEF Fail
<1>6. CASE Rethrow(r)
  <2> DEFINE k == Thrown(job[i], r)
  <2>1. /\ run[r].at = "thrown" /\ job' = [job EXCEPT ![i] = k]
        /\ run' = [run EXCEPT ![r] = NoRun] /\ UNCHANGED <<report, stray, request, troubled>>
    BY <1>6 DEF Rethrow, Ends
  <2>2. CASE job[i].holder = r
    <3>1. k \in Job /\ JobSound(k) /\ k.state \in {"delayed", "failed"} /\ k.holder = "nobody"
      BY <2>1, <2>2, <1>0, Throwing
    <3>2. i \notin troubled => report[i].status = "FAILED" /\ job[i].state # "none"
      BY <2>1, <1>0 DEF StatusAt
    <3>3. troubled \subseteq Report
      BY DEF IInv, TypeOK
    <3> HIDE DEF k, i
    <3> QED BY <2>1, <3>1, <3>2, <3>3, <1>0, <1>10, JobInvariance
  <2>3. CASE job[i].holder # r
    <3>1. k = job[i] /\ i \in troubled
      BY <2>1, <2>3, <1>0 DEF Thrown, IfHolder
    <3> QED BY <2>1, <2>3, <3>1, LostInvariance
  <2> QED BY <2>2, <2>3
<1>7. CASE CompleteRun(r)
  <2> DEFINE k == Completed(job[i], r)
  <2>1. /\ run[r].at = "done" /\ job' = [job EXCEPT ![i] = k]
        /\ run' = [run EXCEPT ![r] = NoRun] /\ UNCHANGED <<report, stray, request, troubled>>
    BY <1>7 DEF CompleteRun, Ends
  <2>2. CASE job[i].holder = r
    <3>1. k = NoJob
      BY <2>2 DEF Completed, IfHolder
    <3>2. i \notin troubled => report[i].status = "COMPLETE" /\ job[i].state # "none"
      BY <2>1, <1>0 DEF StatusAt
    <3>3. troubled \subseteq Report
      BY DEF IInv, TypeOK
    <3> HIDE DEF k, i
    <3> QED BY <2>1, <3>1, <3>2, <3>3, <1>0, <1>10, NewJobs, JobInvariance
  <2>3. CASE job[i].holder # r
    <3>1. k = job[i] /\ i \in troubled
      BY <2>1, <2>3, <1>0 DEF Completed, IfHolder
    <3> QED BY <2>1, <2>3, <3>1, LostInvariance
  <2> QED BY <2>2, <2>3
<1>8. CASE BreakOff(r)
  <2> DEFINE k == IfHolder(job[i], r, Stalled(job[i]))
  <2>1. /\ run[r].at # "idle" /\ job' = [job EXCEPT ![i] = k]
        /\ run' = [run EXCEPT ![r] = NoRun] /\ UNCHANGED <<report, stray, request>>
        /\ troubled' = troubled \cup {i}
    BY <1>8 DEF BreakOff, Ends
  <2>2. CASE job[i].holder = r
    <3>1. k \in Job /\ JobSound(k) /\ k.holder = "nobody"
      BY <2>1, <2>2, <1>0, Stalling DEF IfHolder
    <3>2. troubled' \subseteq Report
      BY <2>1, <1>0 DEF IInv, TypeOK
    <3> HIDE DEF k, i
    <3> QED BY <2>1, <3>1, <3>2, <1>0, <1>10, JobInvariance
  <2>3. CASE job[i].holder # r
    <3>1. k = job[i]
      BY <2>3 DEF IfHolder
    <3> QED BY <2>1, <2>3, <3>1, LostInvariance
  <2> QED BY <2>2, <2>3
<1>9. CASE StallRun(r)
  <2>1. /\ run[r].at # "idle" /\ job[i].holder = r /\ job' = [job EXCEPT ![i] = Stalled(@)]
        /\ UNCHANGED <<report, stray, run, request>> /\ troubled' = troubled \cup {i}
    BY <1>9 DEF StallRun
  <2>2. /\ Stalled(job[i]) \in Job /\ JobSound(Stalled(job[i]))
        /\ Stalled(job[i]).holder = "nobody"
    BY <2>1, <1>0, Stalling
  <2> QED BY <2>1, <2>2, <1>0, JobInvariance DEF IInv, TypeOK
<1> QED BY <1>1, <1>2, <1>3, <1>4, <1>5, <1>6, <1>7, <1>8, <1>9 DEF RunNext

-----------------------------------------------------------------------------
(* Theorems                                                                *)

\* The invariant holds at first.
LEMMA InitIInv == Init => IInv
<1> SUFFICES ASSUME Init PROVE IInv
  OBVIOUS
<1>1. TypeOK
  BY NewJobs DEF Init, TypeOK, Row, NoRun, NoRequest
<1>2. JobsSound /\ JobsExist /\ HoldersRun /\ RunsHold /\ RunTellsStatus
  BY NewJobs DEF Init, JobsSound, JobsExist, HoldersRun, RunsHold, RunTellsStatus, NoRun, exists
<1>3. JobTellsStatus /\ RequestsWait
  BY NewJobs DEF Init, JobTellsStatus, RequestsWait, Queues, NoRequest
<1> QED BY <1>1, <1>2, <1>3 DEF IInv

\* Nothing is changed but that a buffered add is gone.
LEMMA UntouchedInvariance ==
  ASSUME IInv, UNCHANGED <<report, job, run, request, troubled>>, stray' \subseteq stray
  PROVE  IInv'
<1>1. TypeOK' /\ JobsSound' /\ JobsExist' /\ RunsHold' /\ RunTellsStatus' /\ HoldersRun'
  BY DEF IInv, TypeOK, JobsSound, JobsExist, RunsHold, RunTellsStatus, HoldersRun, exists
<1>2. \A q \in Request : \A j :
        /\ Queues(q, j)' <=> Queues(q, j)
        /\ Left(q, j)' <=> Left(q, j)
  BY DEF Queues, Left, isReissue
<1>3. RequestsWait' /\ JobTellsStatus'
  BY <1>2 DEF IInv, RequestsWait, JobTellsStatus, exists
<1> QED BY <1>1, <1>3 DEF IInv

\* Every step preserves it.
LEMMA StepIInv == IInv /\ [Next]_vars => IInv'
<1> SUFFICES ASSUME IInv, [Next]_vars PROVE IInv'
  OBVIOUS
<1>1. ASSUME NEW q \in Request, RequestNext(q) PROVE IInv'
  BY <1>1, RequestInvariance
<1>2. ASSUME NEW r \in Run, RunNext(r) PROVE IInv'
  BY <1>2, RunInvariance
<1>3. ASSUME NEW i \in Report, LateAdd(i) PROVE IInv'
  <2>1. /\ i \in troubled /\ exists(i) /\ job[i] \in Job /\ JobSound(job[i])
        /\ job' = [job EXCEPT ![i] = Added(job[i])] /\ stray' \subseteq stray
        /\ UNCHANGED <<report, run, request, troubled>>
    BY <1>3 DEF LateAdd, IInv, JobsExist, JobsSound, TypeOK
  <2>2. /\ Added(job[i]) \in Job /\ JobSound(Added(job[i]))
        /\ job[i].state # "none" => Added(job[i]) = job[i]
        /\ job[i].state = "none" => Added(job[i]).holder = "nobody"
    BY <2>1, Adding, NewJobs
  <2>3. CASE job[i].state = "none"
    BY <2>1, <2>2, <2>3, JobInvariance DEF IInv, TypeOK
  <2>4. CASE job[i].state # "none"
    <3>1. job' = job
      BY <2>1, <2>2, <2>4 DEF IInv, TypeOK
    <3> QED BY <2>1, <3>1, UntouchedInvariance
  <2> QED BY <2>3, <2>4
<1>4. ASSUME NEW i \in Report, PromoteJob(i) PROVE IInv'
  <2>1. /\ job[i].state = "delayed" /\ exists(i) /\ job[i] \in Job /\ JobSound(job[i])
        /\ job' = [job EXCEPT ![i] = Promoted(job[i])]
        /\ UNCHANGED <<report, stray, run, request, troubled>>
    BY <1>4 DEF PromoteJob, IInv, JobsExist, JobsSound, TypeOK
  <2>2. /\ Promoted(job[i]) \in Job /\ JobSound(Promoted(job[i]))
        /\ Promoted(job[i]).state = "waiting" /\ Promoted(job[i]).holder = "nobody"
    BY <2>1, Promoting
  <2>3. i \notin troubled =>
          /\ \A s \in Run : run[s].at # "idle" => run[s].id # i
          /\ report[i].status \in {"QUEUED", "FAILED"}
    BY <2>1, Alone DEF IInv, JobTellsStatus
  <2> QED BY <2>1, <2>2, <2>3, JobInvariance DEF IInv, TypeOK
<1>5. CASE UNCHANGED vars
  BY <1>5, UntouchedInvariance DEF vars
<1> QED BY <1>1, <1>2, <1>3, <1>4, <1>5 DEF Next

\* The invariant holds always.
LEMMA Invariance == Spec => []IInv
  BY InitIInv, StepIInv, PTL DEF Spec

\* A report's row, job, runs and requests have their types.
THEOREM TypeCorrect == Spec => []TypeOK
<1>1. IInv => TypeOK
  BY DEF IInv
<1> QED BY <1>1, Invariance, PTL

\* requestReport() and the processor: when nothing is left to run, a report is
\* not waiting, unless what would have brought it on has failed on its caller.
THEOREM ReportsSettle == Spec => []EveryReportSettles
<1>1. IInv => EveryReportSettles
  <2> SUFFICES ASSUME IInv, AtRest, NEW i \in Report, i \notin troubled,
                      report[i].status \in {"QUEUED", "PROCESSING"}
               PROVE  /\ report[i].status = "QUEUED" /\ isReissue(i)
                      /\ \E q \in Request : request[q].at = "gone" /\ request[q].id = i
    BY DEF EveryReportSettles
  <2>1. job[i].state = "none"
    BY DEF AtRest, IInv, JobTellsStatus
  <2>2. report[i].status = "QUEUED" /\ \E q \in Request : Queues(q, i) \/ Left(q, i)
    BY <2>1 DEF IInv, JobTellsStatus
  <2> QED BY <2>2 DEF Queues, Left, AtRest
<1> QED BY <1>1, Invariance, PTL

\* reissueForStudent(): a report that was handed out stays as it was, whatever is
\* corrected and generated afterwards.
THEOREM OriginalsAreKept == Spec => OriginalIsKept
<1>1. ASSUME IInv, Next, NEW kept \in Report \ troubled, report[kept].status = "COMPLETE"
      PROVE  report'[kept] = report[kept]
  <2>1. ASSUME NEW q \in Request, NEW j \in Report, NEW o, NEW R, Queue(q, j, o, R)
        PROVE  report'[kept] = report[kept]
    BY <1>1, <2>1 DEF Queue, fresh, exists, IInv, TypeOK
  <2>2. ASSUME NEW q \in Request, RequestNext(q)
        PROVE  report'[kept] = report[kept]
    <3>1. CASE RequestReport(q)
      BY <2>1, <3>1 DEF RequestReport
    <3>2. CASE ReissueOne(q)
      BY <2>1, <3>2 DEF ReissueOne, IInv, TypeOK
    <3>3. CASE MarkUnqueued(q)
      <4>1. Queues(q, request[q].id) /\ request[q].id \in Report \cup {0}
        BY <1>1, <3>3 DEF MarkUnqueued, Queues, IInv, TypeOK
      <4>2. request[q].id # kept
        BY <1>1, <4>1 DEF IInv, RequestsWait
      <4> QED BY <1>1, <3>3, <4>2 DEF MarkUnqueued, IInv, TypeOK
    <3>4. CASE Override(q) \/ EndReissue(q) \/ Enqueue(q) \/ GiveUp(q)
      BY <3>4 DEF Override, EndReissue, Enqueue, GiveUp
    <3> QED BY <2>2, <3>1, <3>2, <3>3, <3>4 DEF RequestNext
  <2>3. ASSUME NEW r \in Run, RunNext(r)
        PROVE  report'[kept] = report[kept]
    <3>1. ASSUME NEW from \in {"started", "generating", "failing"}, NEW status, NEW to,
                 Writes(r, from, status, to)
          PROVE  report'[kept] = report[kept]
      <4>1. run[r].id # kept
        BY <1>1, <3>1 DEF Writes, IInv, RunTellsStatus, StatusAt
      <4> QED BY <3>1, <4>1 DEF Writes, IInv, TypeOK
    <3>2. CASE Begin(r) \/ Finish(r) \/ MarkFailed(r)
      BY <3>1, <3>2 DEF Begin, Finish, MarkFailed
    <3>3. CASE \/ StartRun(r) \/ Fail(r) \/ CompleteRun(r)
               \/ Rethrow(r) \/ BreakOff(r) \/ StallRun(r)
      BY <3>3 DEF StartRun, Fail, CompleteRun, Rethrow, BreakOff, StallRun, Ends
    <3> QED BY <2>3, <3>2, <3>3 DEF RunNext
  <2>4. ASSUME NEW j \in Report, LateAdd(j) \/ PromoteJob(j)
        PROVE  report'[kept] = report[kept]
    BY <2>4 DEF LateAdd, PromoteJob
  <2> QED BY <1>1, <2>2, <2>3, <2>4 DEF Next
<1>2. IInv /\ [Next]_vars =>
        [\A i \in Report \ troubled :
           report[i].status = "COMPLETE" => report'[i] = report[i]]_vars
  BY <1>1
<1> QED BY <1>2, Invariance, PTL DEF Spec, OriginalIsKept
=============================================================================
