-------------------------- MODULE AssessmentProofs --------------------------
(***************************************************************************)
(* Proofs about the two ways an assessment comes to its scores.            *)
(*                                                                         *)
(* ScoreAggregation: its state is well typed, and no record or half-done   *)
(* recalculation ever holds a mark no human gave.                          *)
(*                                                                         *)
(* Exams: the status of an exam follows StatusFlow for any number of       *)
(* requests: a status is written only on the version it was decided from,  *)
(* and a version has only one status.                                      *)
(***************************************************************************)
EXTENDS ScoreAggregation, Exams, TLAPS

USE AggregationAssumption

-----------------------------------------------------------------------------
(* ScoreAggregation                                                        *)

\* A human gave a an approved mark, kept or since discarded with the answer.
Given(a, st, rev) == st[a] \in {"approved", "discarded"} /\ rev[a] # 0

\* What a record may say when the answers stand at st and rev.
HumanWork(rec, st, rev) ==
  /\ \A a \in Answer :
       /\ rec.marks[a] <= rev[a]
       /\ rec.marks[a] # 0 => Given(a, st, rev) /\ a \in rec.answers
  /\ rec.isFinalized => \A a \in rec.answers : Given(a, st, rev) /\ rec.marks[a] # 0

\* A run of the queue is the run of an active job that has attempts left.
JobInv ==
  /\ job.state # "failed" => job.made < Attempts
  /\ calc["queue"].pc # "idle" => job.state = "active"

MarksInv == \A a \in Answer : standing[a] = "approved" => revision[a] # 0

CalcInv == \A c \in Calculator : HumanWork(calc[c].result, standing, revision)

IInv ==
  /\ TypeOK
  /\ JobInv
  /\ MarksInv
  /\ HumanWork(record, standing, revision)
  /\ CalcInv

-----------------------------------------------------------------------------

\* Marks are only ever added to: what was human work stays human work.
LEMMA GrowingKeepsHumanWork ==
  ASSUME NEW rec \in Record,
         NEW st, NEW st2,
         NEW rev \in [Answer -> 0 .. MaxRevision], NEW rev2 \in [Answer -> 0 .. MaxRevision],
         HumanWork(rec, st, rev),
         \A a \in Answer : rev[a] <= rev2[a],
         \A a \in Answer : Given(a, st, rev) => Given(a, st2, rev2)
  PROVE  HumanWork(rec, st2, rev2)
<1>1. ASSUME NEW a \in Answer PROVE rec.marks[a] <= rev2[a]
  <2>1. rec.marks[a] \in Nat /\ rev[a] \in Nat /\ rev2[a] \in Nat
    BY DEF Record
  <2> QED BY <2>1 DEF HumanWork
<1>2. \A a \in rec.answers : a \in Answer
  BY DEF Record
<1> QED BY <1>1, <1>2 DEF HumanWork

\* An empty record claims nothing.
LEMMA NothingIsHumanWork ==
  ASSUME NEW st, NEW rev \in [Answer -> 0 .. MaxRevision],
         NEW answers \in SUBSET Answer
  PROVE  HumanWork(Unread(answers), st, rev)
BY DEF HumanWork, Unread, NoMarks

\* What the calculators start from are records.
LEMMA NoRecordIsRecord ==
  ASSUME NEW answers \in SUBSET Answer
  PROVE  /\ NoRecord \in Record
         /\ Unread(answers) \in Record
<1>1. NoMarks \in [Answer -> 0 .. MaxRevision]
  BY DEF NoMarks
<1>2. [answers |-> answers, marks |-> NoMarks, isFinalized |-> FALSE] \in Record
  BY <1>1 DEF Record
<1>3. NoRecord \in Record
  BY <1>1 DEF NoRecord, Unread, Record
<1> QED BY <1>2, <1>3 DEF Unread

\* Jobs that were not tried yet are jobs.
LEMMA FreshJobs == NoJob \in Job /\ NewJob \in Job
<1>1. 0 \in 0 .. Attempts
  OBVIOUS
<1> QED BY <1>1 DEF Job, NoJob, NewJob

\* What leaves the calculators alone, or only adds to the marks, keeps the
\* last three parts of the invariant.
LEMMA MarksStep ==
  ASSUME IInv, TypeOK', record' = record, calc' = calc,
         \A a \in Answer : revision[a] <= revision'[a],
         \A a \in Answer : Given(a, standing, revision) => Given(a, standing', revision'),
         \A a \in Answer : standing'[a] = "approved" => revision'[a] # 0
  PROVE  MarksInv' /\ HumanWork(record, standing, revision)' /\ CalcInv'
<1>1. MarksInv'
  BY DEF MarksInv
<1>2. HumanWork(record, standing, revision)'
  BY GrowingKeepsHumanWork DEF IInv, TypeOK
<1>3. ASSUME NEW c \in Calculator PROVE HumanWork(calc[c].result, standing, revision)'
  <2>1. calc[c].result \in Record
    BY DEF IInv, TypeOK
  <2> QED BY <2>1, GrowingKeepsHumanWork DEF IInv, TypeOK, CalcInv
<1> QED BY <1>1, <1>2, <1>3 DEF CalcInv

-----------------------------------------------------------------------------
(* One lemma per part of Next.                                             *)

\* An answer that arrives or gets a suggestion was never approved, and one
\* that is discarded keeps what was given for it.
LEMMA LedgerStep ==
  ASSUME IInv, NEW a \in Answer, Arrive(a) \/ Suggest(a) \/ Discard(a)
  PROVE  IInv'
<1>1. /\ UNCHANGED <<revision, record, job, stray, calc, desk>>
      /\ \E s \in {"unmarked", "suggested", "discarded"} :
           /\ standing' = [standing EXCEPT ![a] = s]
           /\ s = "discarded" \/ standing[a] \notin {"approved", "discarded"}
  BY DEF Arrive, Suggest, Discard, Marks!Arrive, Marks!Suggest, Marks!Discard
<1>2. TypeOK'
  BY <1>1 DEF IInv, TypeOK, Marks!Standing
<1>3. JobInv'
  BY <1>1 DEF IInv, JobInv
<1>4. /\ \A b \in Answer : revision[b] <= revision'[b]
      /\ \A b \in Answer : Given(b, standing, revision) => Given(b, standing', revision')
      /\ \A b \in Answer : standing'[b] = "approved" => revision'[b] # 0
  BY <1>1 DEF IInv, TypeOK, MarksInv, Given
<1> QED BY <1>1, <1>2, <1>3, <1>4, MarksStep DEF IInv

\* What approving does to the marks, whoever approves them.
LEMMA ApproveGrows ==
  ASSUME IInv, NEW S \in SUBSET Answer, Approve(S)
  PROVE  /\ standing' \in [Answer -> Marks!Standing]
         /\ revision' \in [Answer -> 0 .. MaxRevision]
         /\ \A b \in Answer : revision[b] <= revision'[b]
         /\ \A b \in Answer : Given(b, standing, revision) => Given(b, standing', revision')
         /\ \A b \in Answer : standing'[b] = "approved" => revision'[b] # 0
<1>1. /\ standing' \in [Answer -> Marks!Standing]
      /\ revision' \in [Answer -> 0 .. MaxRevision]
      /\ \A b \in Answer : revision[b] <= revision'[b]
      /\ \A b \in Answer : standing'[b] = "approved" => revision'[b] # 0
  BY DEF IInv, TypeOK, MarksInv, Approve, Marks!Approve, Marks!Standing
<1>2. \A b \in Answer : standing'[b] = IF b \in S THEN "approved" ELSE standing[b]
  BY DEF Approve, Marks!Approve
<1>3. \A b \in Answer : Given(b, standing, revision) => Given(b, standing', revision')
  BY <1>1, <1>2 DEF Given, IInv, TypeOK
<1> QED BY <1>1, <1>3

\* A request marks, queues its job or gives up.
LEMMA DeskStep ==
  ASSUME IInv, NEW d \in Desk, DeskNext(d)
  PROVE  IInv'
<1>1. CASE \E a \in Answer : DeskMark(d, a)
  <2>1. PICK a \in Answer : DeskMark(d, a)
    BY <1>1
  <2>2. Approve({a})
    BY <2>1 DEF DeskMark
  <2>3. TypeOK'
    BY <2>1, <2>2, ApproveGrows DEF DeskMark, IInv, TypeOK
  <2>4. JobInv'
    BY <2>1 DEF DeskMark, IInv, JobInv
  <2> QED BY <2>1, <2>2, <2>3, <2>4, ApproveGrows, MarksStep DEF DeskMark, IInv
<1>2. CASE DeskCheck(d) \/ DeskClear(d) \/ DeskAdd(d) \/ DeskGiveUp(d)
  <2>1. UNCHANGED <<standing, revision, record, calc>>
    BY <1>2 DEF DeskCheck, DeskClear, DeskAdd, DeskGiveUp
  <2>2. job' = job \/ (job.state # "active" /\ job' \in {NoJob, NewJob})
    BY <1>2 DEF DeskCheck, DeskClear, DeskAdd, DeskGiveUp, Added
  <2>3. TypeOK'
    <3>1. job' \in Job
      BY <2>2, FreshJobs DEF IInv, TypeOK
    <3>2. stray' \in BOOLEAN /\ desk' \in [Desk -> {"idle", "checking", "clearing", "adding"}]
      BY <1>2 DEF DeskCheck, DeskClear, DeskAdd, DeskGiveUp, IInv, TypeOK
    <3> QED BY <2>1, <3>1, <3>2 DEF IInv, TypeOK
  <2>4. JobInv'
    BY <2>1, <2>2 DEF IInv, JobInv, NoJob, NewJob
  <2>5. /\ \A b \in Answer : revision[b] <= revision'[b]
        /\ \A b \in Answer : standing'[b] = "approved" => revision'[b] # 0
    BY <2>1 DEF IInv, TypeOK, MarksInv
  <2> QED BY <2>1, <2>3, <2>4, <2>5, MarksStep DEF IInv
<1> QED BY <1>1, <1>2 DEF DeskNext

\* An add that Redis gets to see late.
LEMMA StrayStep ==
  ASSUME IInv, StrayAdd
  PROVE  IInv'
<1>1. UNCHANGED <<standing, revision, record, calc, desk>> /\ stray' = FALSE
  BY DEF StrayAdd
<1>2. job' = job \/ (job.state # "active" /\ job' = NewJob)
  BY DEF StrayAdd, Added
<1>3. TypeOK'
  BY <1>1, <1>2, FreshJobs DEF IInv, TypeOK
<1>4. JobInv'
  BY <1>1, <1>2 DEF IInv, JobInv, NewJob
<1>5. /\ \A b \in Answer : revision[b] <= revision'[b]
      /\ \A b \in Answer : standing'[b] = "approved" => revision'[b] # 0
  BY <1>1 DEF IInv, TypeOK, MarksInv
<1> QED BY <1>1, <1>3, <1>4, <1>5, MarksStep DEF IInv

\* A calculator's own step: the marks stay, and what it holds, and may have
\* written, is human work.
LEMMA CalculatorStep ==
  ASSUME IInv, TypeOK', JobInv', NEW c \in Calculator, NEW held \in Record,
         UNCHANGED <<standing, revision>>,
         \A b \in Calculator : calc'[b].result = IF b = c THEN held ELSE calc[b].result,
         HumanWork(held, standing, revision),
         record' = record \/ record' = calc[c].result
  PROVE  IInv'
<1>1. MarksInv'
  BY DEF IInv, MarksInv
<1>2. HumanWork(record, standing, revision)'
  BY DEF IInv, CalcInv
<1>3. CalcInv'
  BY DEF IInv, CalcInv
<1> QED BY <1>1, <1>2, <1>3 DEF IInv

\* A submission approves, then recalculates or fails.
LEMMA SheetStep ==
  ASSUME IInv, NEW s \in Sheet, SheetNext(s)
  PROVE  IInv'
<1>0. s \in Calculator /\ s # "queue" /\ "queue" \in Calculator
  BY DEF Calculator
<1>1. CASE \E S \in SUBSET Answer : SheetSubmit(s, S)
  <2>1. PICK S \in SUBSET Answer : SheetSubmit(s, S)
    BY <1>1
  <2>2. /\ standing' \in [Answer -> Marks!Standing]
        /\ revision' \in [Answer -> 0 .. MaxRevision]
        /\ \A b \in Answer : revision[b] <= revision'[b]
        /\ \A b \in Answer : Given(b, standing, revision) => Given(b, standing', revision')
        /\ \A b \in Answer : standing'[b] = "approved" => revision'[b] # 0
    <3>1. CASE Approve(S)
      BY <3>1, ApproveGrows
    <3>2. CASE UNCHANGED <<standing, revision>>
      BY <3>2 DEF IInv, TypeOK, MarksInv
    <3> QED BY <2>1, <3>1, <3>2 DEF SheetSubmit
  <2>3. /\ UNCHANGED <<record, job, stray, desk>>
        /\ calc' = [calc EXCEPT ![s].pc = "started"]
    BY <2>1 DEF SheetSubmit
  <2>4. TypeOK'
    BY <1>0, <2>2, <2>3 DEF IInv, TypeOK
  <2>5. JobInv'
    BY <1>0, <2>3 DEF IInv, JobInv, TypeOK
  <2>6. MarksInv'
    BY <2>2 DEF MarksInv
  <2>7. HumanWork(record, standing, revision)'
    BY <2>2, <2>3, GrowingKeepsHumanWork DEF IInv, TypeOK
  <2>8. ASSUME NEW c \in Calculator PROVE HumanWork(calc[c].result, standing, revision)'
    <3>1. calc'[c].result = calc[c].result /\ calc[c].result \in Record
      BY <1>0, <2>3 DEF IInv, TypeOK
    <3>2. HumanWork(calc[c].result, standing', revision')
      BY <2>2, <3>1, GrowingKeepsHumanWork DEF IInv, TypeOK, CalcInv
    <3> QED BY <3>1, <3>2
  <2> QED BY <2>4, <2>5, <2>6, <2>7, <2>8 DEF IInv, CalcInv
<1>2. CASE SheetFail(s)
  <2>1. /\ UNCHANGED <<standing, revision, record, job, stray, desk>>
        /\ calc' = [calc EXCEPT ![s] = [pc |-> "idle", result |-> NoRecord]]
    BY <1>2 DEF SheetFail
  <2>2. NoRecord \in Record /\ HumanWork(NoRecord, standing, revision)
    BY NoRecordIsRecord, NothingIsHumanWork DEF NoRecord, IInv, TypeOK
  <2>3. TypeOK'
    BY <1>0, <2>1, <2>2 DEF IInv, TypeOK
  <2>4. JobInv'
    BY <1>0, <2>1 DEF IInv, JobInv, TypeOK
  <2>5. \A b \in Calculator : calc'[b].result = IF b = s THEN NoRecord ELSE calc[b].result
    BY <1>0, <2>1 DEF IInv, TypeOK
  <2> QED BY <1>0, <2>1, <2>2, <2>3, <2>4, <2>5, CalculatorStep
<1> QED BY <1>1, <1>2 DEF SheetNext

\* A recalculation lists, reads, writes.
LEMMA RecalculateStep ==
  ASSUME IInv, NEW c \in Calculator, RecalculateNext(c)
  PROVE  IInv'
<1>0. "queue" \in Calculator
  BY DEF Calculator
<1>1. CASE ListResponses(c)
  <2> DEFINE held == Unread(present)
  <2>1. present \in SUBSET Answer
    BY DEF present
  <2>2. held \in Record
    BY <2>1, NoRecordIsRecord
  <2>3. HumanWork(held, standing, revision)
    BY <2>1, NothingIsHumanWork DEF IInv, TypeOK
  <2>4. /\ UNCHANGED <<standing, revision, record, job, stray, desk>>
        /\ calc[c].pc = "started"
        /\ calc' = [calc EXCEPT ![c] = [pc |-> "listed", result |-> held]]
    BY <1>1, <2>2 DEF ListResponses
  <2> HIDE DEF held
  <2>5. TypeOK'
    BY <2>2, <2>4 DEF IInv, TypeOK
  <2>6. JobInv'
    BY <1>0, <2>4 DEF IInv, JobInv, TypeOK
  <2>7. \A b \in Calculator : calc'[b].result = IF b = c THEN held ELSE calc[b].result
    BY <2>4 DEF IInv, TypeOK
  <2> QED BY <2>2, <2>3, <2>4, <2>5, <2>6, <2>7, CalculatorStep
<1>2. CASE ReadVersions(c)
  <2> DEFINE answers == calc[c].result.answers
             approved == {a \in answers : isAuthoritativeResponse(a)}
             held == [answers |-> answers,
                      marks |-> [a \in Answer |-> IF a \in approved THEN revision[a] ELSE 0],
                      isFinalized |-> approved = answers]
  <2>1. answers \in SUBSET Answer
    BY DEF IInv, TypeOK, Record
  <2>2. held.isFinalized \in BOOLEAN
    OBVIOUS
  <2>3. held \in Record
    <3>1. held.marks \in [Answer -> 0 .. MaxRevision]
      BY DEF IInv, TypeOK
    <3> QED BY <2>1, <2>2, <3>1 DEF Record
  <2>4. \A a \in approved : a \in Answer /\ Given(a, standing, revision) /\ revision[a] # 0
    BY <2>1 DEF IInv, MarksInv, isAuthoritativeResponse, Given
  <2>5. \A a \in Answer : held.marks[a] = IF a \in approved THEN revision[a] ELSE 0
    OBVIOUS
  <2>6. approved \subseteq answers /\ held.answers = answers
        /\ (held.isFinalized => approved = answers)
    OBVIOUS
  <2>7. /\ UNCHANGED <<standing, revision, record, job, stray, desk>>
        /\ calc[c].pc = "listed"
        /\ calc' = [calc EXCEPT ![c] = [pc |-> "read", result |-> held]]
    BY <1>2 DEF ReadVersions
  <2> HIDE DEF held, approved, answers
  <2>8. HumanWork(held, standing, revision)
    <3>1. ASSUME NEW a \in Answer PROVE held.marks[a] <= revision[a]
      <4>1. revision[a] \in Nat
        BY DEF IInv, TypeOK
      <4>2. CASE a \in approved
        <5>1. held.marks[a] = revision[a]
          BY <2>5, <4>2
        <5> QED BY <4>1, <5>1
      <4>3. CASE a \notin approved
        <5>1. held.marks[a] = 0
          BY <2>5, <4>3
        <5> QED BY <4>1, <5>1
      <4> QED BY <4>2, <4>3
    <3>2. \A a \in Answer : held.marks[a] # 0 => Given(a, standing, revision) /\ a \in held.answers
      BY <2>4, <2>5, <2>6
    <3>3. held.isFinalized => \A a \in held.answers : Given(a, standing, revision) /\ held.marks[a] # 0
      BY <2>1, <2>4, <2>5, <2>6
    <3> QED BY <3>1, <3>2, <3>3 DEF HumanWork
  <2>9. TypeOK'
    BY <2>3, <2>7 DEF IInv, TypeOK
  <2>10. JobInv'
    BY <1>0, <2>7 DEF IInv, JobInv, TypeOK
  <2>11. \A b \in Calculator : calc'[b].result = IF b = c THEN held ELSE calc[b].result
    BY <2>7 DEF IInv, TypeOK
  <2> QED BY <2>3, <2>7, <2>8, <2>9, <2>10, <2>11, CalculatorStep
<1>3. CASE UpsertRecord(c)
  <2>1. /\ UNCHANGED <<standing, revision, job, stray, desk>>
        /\ calc[c].pc = "read"
        /\ record' = calc[c].result
        /\ calc' = [calc EXCEPT ![c] =
                      [pc |-> IF c = "queue" THEN "written" ELSE "idle", result |-> NoRecord]]
    BY <1>3 DEF UpsertRecord
  <2>2. NoRecord \in Record /\ HumanWork(NoRecord, standing, revision)
    BY NoRecordIsRecord, NothingIsHumanWork DEF NoRecord, IInv, TypeOK
  <2>3. TypeOK'
    BY <2>1, <2>2 DEF IInv, TypeOK
  <2>4. JobInv'
    BY <1>0, <2>1 DEF IInv, JobInv, TypeOK
  <2>5. \A b \in Calculator : calc'[b].result = IF b = c THEN NoRecord ELSE calc[b].result
    BY <2>1 DEF IInv, TypeOK
  <2> QED BY <2>1, <2>2, <2>3, <2>4, <2>5, CalculatorStep
<1> QED BY <1>1, <1>2, <1>3 DEF RecalculateNext

\* The queue starts, ends, fails and retries its run.
LEMMA WorkerStep ==
  ASSUME IInv, WorkerNext
  PROVE  IInv'
<1>0. "queue" \in Calculator
  BY DEF Calculator
<1>1. /\ UNCHANGED <<standing, revision, record, stray, desk>>
      /\ \A c \in Calculator : c # "queue" => calc'[c] = calc[c]
      /\ \/ calc'["queue"].result = calc["queue"].result
         \/ calc'["queue"].result = NoRecord
  BY <1>0 DEF WorkerNext, RunJob, CompleteJob, FailRun, FailRunTo, PromoteJob, ForgetFailed, IInv, TypeOK
<1>2. NoRecord \in Record /\ HumanWork(NoRecord, standing, revision)
  BY NoRecordIsRecord, NothingIsHumanWork DEF NoRecord, IInv, TypeOK
<1>3. job' \in Job /\ JobInv'
  <2>1. CASE RunJob
    BY <1>0, <2>1 DEF RunJob, IInv, TypeOK, Job, JobInv
  <2>2. CASE CompleteJob
    BY <1>0, <2>2 DEF CompleteJob, IInv, TypeOK, Job, JobInv, NoJob
  <2>3. CASE FailRun
    <3>1. job.made \in Nat /\ job.made < Attempts
      BY <2>3 DEF FailRun, FailRunTo, IInv, TypeOK, Job, JobInv
    <3>2. calc'["queue"].pc = "idle"
      BY <1>0, <2>3 DEF FailRun, FailRunTo, IInv, TypeOK
    <3> QED BY <2>3, <3>1, <3>2 DEF FailRun, FailRunTo, Job, JobInv
  <2>4. CASE PromoteJob
    BY <2>4 DEF PromoteJob, IInv, TypeOK, Job, JobInv
  <2>5. CASE ForgetFailed
    BY <2>5, FreshJobs DEF ForgetFailed, IInv, JobInv, NoJob
  <2> QED BY <2>1, <2>2, <2>3, <2>4, <2>5 DEF WorkerNext
<1>4. calc' \in [Calculator -> [pc : {"idle", "started", "listed", "read", "written"}, result : Record]]
  BY <1>0, <1>2 DEF WorkerNext, RunJob, CompleteJob, FailRun, FailRunTo, PromoteJob, ForgetFailed, IInv, TypeOK
<1>5. TypeOK'
  BY <1>1, <1>3, <1>4 DEF IInv, TypeOK
<1>6. calc'["queue"].result \in Record /\ HumanWork(calc'["queue"].result, standing, revision)
  BY <1>0, <1>1, <1>2 DEF IInv, TypeOK, CalcInv
<1>7. \A b \in Calculator : calc'[b].result = IF b = "queue" THEN calc'["queue"].result
                                                             ELSE calc[b].result
  BY <1>1
<1>8. PICK held \in Record : held = calc'["queue"].result
  BY <1>6
<1> QED BY <1>0, <1>1, <1>3, <1>5, <1>6, <1>7, <1>8, CalculatorStep

-----------------------------------------------------------------------------
(* The theorems.                                                           *)

\* The invariant holds at first.
LEMMA InitInvariant == Init => IInv
<1> SUFFICES ASSUME Init PROVE IInv
  OBVIOUS
<1>0. "queue" \in Calculator
  BY DEF Calculator
<1>1. NoRecord \in Record
  BY NoRecordIsRecord
<1>2. standing \in [Answer -> Marks!Standing] /\ (\A a \in Answer : standing[a] # "approved")
  BY DEF Init, Marks!Init, Marks!Standing
<1>3. revision \in [Answer -> 0 .. MaxRevision]
  BY DEF Init
<1>4. TypeOK
  BY <1>1, <1>2, <1>3, FreshJobs DEF Init, TypeOK
<1>5. HumanWork(NoRecord, standing, revision)
  BY <1>3, NothingIsHumanWork DEF NoRecord
<1>6. JobInv
  BY <1>0 DEF Init, JobInv, NoJob
<1> QED BY <1>2, <1>4, <1>5, <1>6 DEF Init, IInv, MarksInv, CalcInv

\* Every step keeps it.
LEMMA StepInvariant == IInv /\ [Next]_vars => IInv'
<1> SUFFICES ASSUME IInv, [Next]_vars PROVE IInv'
  OBVIOUS
<1>1. CASE \E a \in Answer : Arrive(a) \/ Suggest(a) \/ Discard(a)
  BY <1>1, LedgerStep
<1>2. CASE \E d \in Desk : DeskNext(d)
  BY <1>2, DeskStep
<1>3. CASE StrayAdd
  BY <1>3, StrayStep
<1>4. CASE \E s \in Sheet : SheetNext(s)
  BY <1>4, SheetStep
<1>5. CASE \E c \in Calculator : RecalculateNext(c)
  BY <1>5, RecalculateStep
<1>6. CASE WorkerNext
  BY <1>6, WorkerStep
<1>7. CASE UNCHANGED vars
  BY <1>7 DEF vars, IInv, TypeOK, JobInv, MarksInv, CalcInv, HumanWork, Given
<1> QED BY <1>1, <1>2, <1>3, <1>4, <1>5, <1>6, <1>7 DEF Next

\* The invariant holds throughout, whatever fails and however many requests
\* and submissions run at once.
THEOREM Invariance == Spec => []IInv
BY InitInvariant, StepInvariant, PTL DEF Spec

\* Every variable keeps its type: no job outlives its attempts.
THEOREM TypeCorrect == Spec => []TypeOK
<1>1. IInv => TypeOK
  BY DEF IInv
<1> QED BY <1>1, Invariance, PTL

\* No AI suggestion ever reaches a student's record, and a finalized record
\* rests on approved answers, however stale the recalculation that wrote it.
THEOREM RecordsAreHumanWork == Spec => []RecordIsHumanWork
<1>1. IInv => RecordIsHumanWork
  BY DEF IInv, HumanWork, Given, RecordIsHumanWork, wasApproved
<1> QED BY <1>1, Invariance, PTL

\* What the queue and the records are checked against is the ledger: nothing
\* but its steps changes the marks.
THEOREM MarksFollowLedger == Spec => Marks!Spec
<1>1. Init => Marks!Init
  BY DEF Init
<1>2. [Next]_vars => [Marks!Next]_Marks!ledger
  <2> SUFFICES ASSUME [Next]_vars PROVE Marks!Next \/ UNCHANGED standing
    BY DEF Marks!ledger
  <2>1. CASE \E a \in Answer : Arrive(a) \/ Suggest(a) \/ Discard(a)
    BY <2>1 DEF Arrive, Suggest, Discard, Marks!Next, Marks!ledger
  <2>2. ASSUME NEW d \in Desk, DeskNext(d) PROVE Marks!Next \/ UNCHANGED standing
    <3>1. CASE \E a \in Answer : DeskMark(d, a)
      BY <3>1 DEF DeskMark, Approve, Marks!Next, Marks!ledger
    <3>2. CASE DeskCheck(d) \/ DeskClear(d) \/ DeskAdd(d) \/ DeskGiveUp(d)
      BY <3>2 DEF DeskCheck, DeskClear, DeskAdd, DeskGiveUp
    <3> QED BY <2>2, <3>1, <3>2 DEF DeskNext
  <2>3. ASSUME NEW s \in Sheet, SheetNext(s) PROVE Marks!Next \/ UNCHANGED standing
    BY <2>3 DEF SheetNext, SheetSubmit, SheetFail, Approve, Marks!Next, Marks!ledger
  <2>4. CASE StrayAdd \/ WorkerNext \/ \E c \in Calculator : RecalculateNext(c)
    BY <2>4 DEF StrayAdd, WorkerNext, RunJob, CompleteJob, FailRun, FailRunTo, PromoteJob,
                ForgetFailed, RecalculateNext, ListResponses, ReadVersions, UpsertRecord
  <2> QED BY <2>1, <2>2, <2>3, <2>4 DEF Next, vars
<1> QED BY <1>1, <1>2, PTL DEF Spec, Marks!Spec

-----------------------------------------------------------------------------
(* Exams                                                                   *)

\* What a request that is about to move the exam has read.
DecidedFrom(q) ==
  q.at \in {"gate", "moving"} =>
    /\ q.seen.status \in Stage
    /\ q.to = IF q.seen.status = "LOCKED" THEN "EVALUATING" ELSE NextStage[q.seen.status]
    /\ q.seen.version = exam.version /\ exists => q.seen.status = exam.status
    /\ q.seen.version <= exam.version

Decided == \A r \in Request : DecidedFrom(request[r])

ExamInv == ExamTypeOK /\ Decided /\ LogTellsLock

\* The stage after each stage is a stage.
LEMMA NextStageType == \A s \in Stage \ {"LOCKED"} : NextStage[s] \in Stage
  BY DEF Stage, NextStage, Flow!Stage, Flow!NextStage

\* An idle request is a request, and decided nothing.
LEMMA IdleType == Idle \in Requests /\ DecidedFrom(Idle)
  BY DEF Idle, Requests, DecidedFrom, Exam, Stage, Flow!Stage

\* The initial state satisfies the inductive invariant.
LEMMA ExamInitInv == ExamInit => ExamInv
<1> SUFFICES ASSUME ExamInit PROVE ExamInv
  OBVIOUS
<1>1. exam \in Exam /\ exam.status = "DRAFT"
  BY DEF ExamInit, Exam, Stage, Flow!Stage
<1>2. ExamTypeOK
  BY <1>1, IdleType DEF ExamInit, ExamTypeOK
<1>3. Decided
  BY IdleType DEF ExamInit, Decided
<1>4. LogTellsLock
  BY <1>1 DEF ExamInit, LogTellsLock
<1> QED BY <1>2, <1>3, <1>4 DEF ExamInv

-----------------------------------------------------------------------------
(* Steps that leave the exam and its audit log alone.                      *)

\* Only request r changes, and becomes q.
Becomes(r, q) == request' = [request EXCEPT ![r] = q]

\* If what r becomes is decided from the exam as it is, the others still are.
LEMMA QuietKeeps ==
  ASSUME ExamInv, UNCHANGED <<exam, audit>>,
         linked' \in BOOLEAN, sheet' \in [Student -> {"none", "created", "verified"}],
         exists \/ UNCHANGED <<linked, sheet>>,
         \/ UNCHANGED request
         \/ \E r \in Request, q \in Requests : DecidedFrom(q) /\ Becomes(r, q)
  PROVE  ExamInv'
<1>1. request' \in [Request -> Requests] /\ \A r \in Request : DecidedFrom(request'[r])
  <2>1. CASE UNCHANGED request
    BY <2>1 DEF ExamInv, ExamTypeOK, Decided
  <2>2. CASE \E r \in Request, q \in Requests : DecidedFrom(q) /\ Becomes(r, q)
    BY <2>2 DEF ExamInv, ExamTypeOK, Decided, Becomes
  <2> QED BY <2>1, <2>2
<1>2. ExamTypeOK'
  BY <1>1 DEF ExamInv, ExamTypeOK, exists
<1>3. Decided'
  BY <1>1 DEF Decided, DecidedFrom, exists
<1>4. LogTellsLock'
  BY DEF ExamInv, LogTellsLock, exists
<1> QED BY <1>2, <1>3, <1>4 DEF ExamInv

\* Every request that reads, checks, ends or grades.
LEMMA QuietRequest ==
  ASSUME ExamInv, NEW r \in Request,
         \/ ReadForMove(r) \/ ReadForUnlock(r) \/ PassGate(r) \/ GiveUp(r)
         \/ ReadForDelete(r) \/ CountSheets(r) \/ ReadForGrade(r) \/ CommitGrades(r)
  PROVE  ExamInv'
<1> USE DEF ExamInv, ExamTypeOK, Reading, exists
<1>0. exam \in Exam /\ request[r] \in Requests /\ DecidedFrom(request[r])
  BY DEF Decided
<1>1. CASE ReadForMove(r)
  <2> DEFINE to == NextStage[exam.status]
             q == [at |-> IF to = "LOCKED" THEN "gate" ELSE "moving", seen |-> exam, to |-> to]
  <2>1. exam.status \in Stage \ {"LOCKED"} /\ exam.version \in Nat
    BY <1>0, <1>1 DEF ReadForMove, Exam
  <2>2. q \in Requests
    BY <2>1, <1>0, NextStageType DEF Requests
  <2>3. DecidedFrom(q)
    BY <2>1 DEF DecidedFrom
  <2> QED BY <1>1, <2>2, <2>3, QuietKeeps DEF ReadForMove, Becomes
<1>2. CASE ReadForUnlock(r)
  <2> DEFINE q == [at |-> "moving", seen |-> exam, to |-> "EVALUATING"]
  <2>1. exam.status = "LOCKED" /\ exam.version \in Nat /\ "EVALUATING" \in Stage /\ "LOCKED" \in Stage
    BY <1>0, <1>2 DEF ReadForUnlock, Exam, Stage, Flow!Stage
  <2>2. q \in Requests
    BY <2>1, <1>0 DEF Requests
  <2>3. DecidedFrom(q)
    BY <2>1 DEF DecidedFrom
  <2> QED BY <1>2, <2>2, <2>3, QuietKeeps DEF ReadForUnlock, Becomes
<1>3. CASE PassGate(r)
  <2> DEFINE q == [request[r] EXCEPT !.at = "moving"]
  <2>1. q \in Requests
    BY <1>0, <1>3 DEF PassGate, Requests
  <2>2. DecidedFrom(q)
    BY <1>0, <1>3 DEF PassGate, Requests, DecidedFrom
  <2> QED BY <1>3, <2>1, <2>2, QuietKeeps DEF PassGate, Becomes
<1>4. CASE GiveUp(r)
  BY <1>4, IdleType, QuietKeeps DEF GiveUp, Ends, Becomes
<1>5. CASE ReadForDelete(r)
  <2> DEFINE q == [at |-> "counting", seen |-> exam, to |-> exam.status]
  <2>1. q \in Requests /\ DecidedFrom(q)
    BY <1>0, <1>5 DEF ReadForDelete, Requests, DecidedFrom, Exam, Stage, Flow!Stage
  <2> QED BY <1>5, <2>1, QuietKeeps DEF ReadForDelete, Becomes
<1>6. CASE CountSheets(r)
  <2> DEFINE q == [request[r] EXCEPT !.at = "deleting"]
  <2>1. q \in Requests /\ DecidedFrom(q)
    BY <1>0, <1>6 DEF CountSheets, Requests, DecidedFrom
  <2> QED BY <1>6, <2>1, QuietKeeps DEF CountSheets, Becomes
<1>7. CASE ReadForGrade(r)
  <2>1. PICK s \in Student :
          request' = [request EXCEPT ![r] = [at |-> "grading", student |-> s]]
    BY <1>7 DEF ReadForGrade
  <2>2. [at |-> "grading", student |-> s] \in Requests /\ DecidedFrom([at |-> "grading", student |-> s])
    BY DEF Requests, DecidedFrom
  <2> QED BY <1>7, <2>1, <2>2, QuietKeeps DEF ReadForGrade, Becomes
<1>8. CASE CommitGrades(r)
  <2>1. request[r].student \in Student
    BY <1>0, <1>8 DEF CommitGrades, Requests
  <2>2. exists /\ sheet' \in [Student -> {"none", "created", "verified"}]
    BY <1>8, <2>1 DEF CommitGrades
  <2> QED BY <1>8, <2>2, IdleType, QuietKeeps DEF CommitGrades, Ends, Becomes
<1> QED BY <1>1, <1>2, <1>3, <1>4, <1>5, <1>6, <1>7, <1>8

-----------------------------------------------------------------------------
(* Steps that change the exam.                                             *)

\* A status that is written on the version it was decided from is the next
\* one, and leaves no other decision on that version standing.
LEMMA WriteMoves ==
  ASSUME ExamInv, NEW r \in Request, WriteStatus(r)
  PROVE  /\ ExamInv'
         /\ \/ Flow!Advance \/ Flow!Lock \/ Flow!Unlock
<1> DEFINE q == request[r]
<1>0. /\ exam \in Exam /\ q \in Requests /\ DecidedFrom(q) /\ q.at = "moving"
      /\ q.seen.status = exam.status /\ exam.status \in Stage /\ exam.version \in Nat
      /\ q.to = IF exam.status = "LOCKED" THEN "EVALUATING" ELSE NextStage[exam.status]
      /\ q.to \in Stage
  BY NextStageType DEF ExamInv, ExamTypeOK, Decided, WriteStatus, MoveAs, DecidedFrom, exists, Exam, Requests, Stage, Flow!Stage
<1>1. exam' = [status |-> q.to, version |-> exam.version + 1]
  BY DEF WriteStatus, MoveAs
<1>2. /\ audit'.locks = audit.locks + (IF q.to = "LOCKED" THEN 1 ELSE 0)
      /\ audit'.unlocks = audit.unlocks + (IF exam.status = "LOCKED" THEN 1 ELSE 0)
      /\ audit' \in [locks : Nat, unlocks : Nat] /\ audit.locks \in Nat /\ audit.unlocks \in Nat
  BY <1>0 DEF WriteStatus, MoveAs, ExamInv, ExamTypeOK
<1>3. exam' \in Exam /\ exam'.status = q.to /\ exam'.version = exam.version + 1 /\ q.to # "deleted"
  BY <1>0, <1>1 DEF Exam, Stage, Flow!Stage
<1>4. request' \in [Request -> Requests]
  BY IdleType DEF WriteStatus, MoveAs, Ends, ExamInv, ExamTypeOK
<1>5. ExamTypeOK'
  BY <1>2, <1>3, <1>4 DEF WriteStatus, MoveAs, ExamInv, ExamTypeOK
<1>6. Decided'
  <2> SUFFICES ASSUME NEW u \in Request PROVE DecidedFrom(request[u])'
    BY DEF Decided
  <2>1. CASE u = r
    BY <2>1, IdleType DEF WriteStatus, MoveAs, Ends, ExamInv, ExamTypeOK, DecidedFrom, Idle
  <2>2. CASE u # r
    <3>1. request'[u] = request[u] /\ request[u] \in Requests /\ DecidedFrom(request[u])
      BY <2>2 DEF WriteStatus, MoveAs, Ends, ExamInv, ExamTypeOK, Decided
    <3>2. ASSUME request[u].at \in {"gate", "moving"}
          PROVE request[u].seen.version \in Nat /\ request[u].seen.version <= exam.version
      BY <3>1, <3>2 DEF DecidedFrom, Requests, Exam
    <3> QED BY <3>1, <3>2, <1>0, <1>3 DEF DecidedFrom
  <2> QED BY <2>1, <2>2
<1>7. \/ exam.status \in Stage \ {"EVALUATING", "LOCKED"} /\ q.to = NextStage[exam.status] /\ q.to # "LOCKED"
      \/ exam.status = "EVALUATING" /\ q.to = "LOCKED"
      \/ exam.status = "LOCKED" /\ q.to = "EVALUATING"
  BY <1>0 DEF Stage, NextStage, Flow!Stage, Flow!NextStage
<1>8. LogTellsLock'
  BY <1>0, <1>2, <1>3, <1>7 DEF ExamInv, ExamTypeOK, LogTellsLock, exists, Stage, Flow!Stage
<1>9. Flow!Advance \/ Flow!Lock \/ Flow!Unlock
  BY <1>0, <1>2, <1>3, <1>7
     DEF Flow!Advance, Flow!Lock, Flow!Unlock, Flow!Move, Stage, NextStage, Flow!Stage
<1> QED BY <1>5, <1>6, <1>8, <1>9 DEF ExamInv

\* A deletion deletes, and nothing else.
LEMMA DeleteDeletes ==
  ASSUME ExamInv, NEW r \in Request, DeleteExam(r)
  PROVE  ExamInv' /\ Flow!Delete
<1>0. exam \in Exam /\ exists
  BY DEF ExamInv, ExamTypeOK, DeleteExam
<1>1. exam' \in Exam /\ exam'.status = "deleted" /\ exam'.version = exam.version
  BY <1>0 DEF DeleteExam, Exam
<1>2. ExamTypeOK'
  BY <1>1, IdleType DEF DeleteExam, Ends, ExamInv, ExamTypeOK
<1>3. Decided'
  BY <1>0, <1>1, IdleType DEF DeleteExam, Ends, ExamInv, ExamTypeOK, Decided, DecidedFrom, exists, Idle
<1>4. LogTellsLock'
  BY <1>1 DEF LogTellsLock, exists
<1>5. Flow!Delete
  BY <1>0, <1>1 DEF DeleteExam, Flow!Delete, exists, Exam, Stage
<1> QED BY <1>2, <1>3, <1>4, <1>5 DEF ExamInv

-----------------------------------------------------------------------------

\* The invariant is inductive, and a step of the exam is a step of StatusFlow
\* or does not touch what StatusFlow sees.
LEMMA StepKeeps ==
  ExamInv /\ [ExamNext]_examVars =>
    /\ ExamInv'
    /\ [Flow!Advance \/ Flow!Lock \/ Flow!Unlock \/ Flow!Delete]_(Flow!flow)
<1> SUFFICES ASSUME ExamInv, [ExamNext]_examVars
             PROVE  /\ ExamInv'
                    /\ [Flow!Advance \/ Flow!Lock \/ Flow!Unlock \/ Flow!Delete]_(Flow!flow)
  OBVIOUS
<1>1. ASSUME UNCHANGED <<exam, audit>> PROVE UNCHANGED Flow!flow
  BY <1>1 DEF Flow!flow
<1>2. CASE UNCHANGED examVars
  BY <1>1, <1>2, QuietKeeps DEF examVars, ExamInv, ExamTypeOK
<1>3. CASE \E s \in Student : CreateAnswerSheet(s)
  BY <1>1, <1>3, QuietKeeps DEF CreateAnswerSheet, ExamInv, ExamTypeOK
<1>4. CASE LinkPaper
  BY <1>1, <1>4, QuietKeeps DEF LinkPaper, ExamInv, ExamTypeOK
<1>5. ASSUME NEW r \in Request, RequestNext(r)
      PROVE  /\ ExamInv'
             /\ [Flow!Advance \/ Flow!Lock \/ Flow!Unlock \/ Flow!Delete]_(Flow!flow)
  <2>1. CASE WriteStatus(r)
    BY <2>1, WriteMoves
  <2>2. CASE DeleteExam(r)
    BY <2>2, DeleteDeletes
  <2>3. CASE \/ ReadForMove(r) \/ ReadForUnlock(r) \/ PassGate(r) \/ GiveUp(r)
             \/ ReadForDelete(r) \/ CountSheets(r) \/ ReadForGrade(r) \/ CommitGrades(r)
    <3>1. UNCHANGED <<exam, audit>>
      BY <2>3 DEF ReadForMove, ReadForUnlock, PassGate, GiveUp, ReadForDelete, CountSheets,
                  ReadForGrade, CommitGrades
    <3> QED BY <2>3, <3>1, <1>1, QuietRequest
  <2> QED BY <1>5, <2>1, <2>2, <2>3 DEF RequestNext
<1> QED BY <1>2, <1>3, <1>4, <1>5 DEF ExamNext

\* The exam is as typed, for any number of requests and students.
THEOREM ExamTypeCorrect == ExamSpec => []ExamTypeOK
<1>1. ExamInv => ExamTypeOK
  BY DEF ExamInv
<1> QED BY ExamInitInv, StepKeeps, <1>1, PTL DEF ExamSpec

\* The LOCK and UNLOCK entries of the audit log tell whether the exam is
\* locked, however requests interleave.
THEOREM AuditTellsLock == ExamSpec => []LogTellsLock
<1>1. ExamInv => LogTellsLock
  BY DEF ExamInv
<1> QED BY ExamInitInv, StepKeeps, <1>1, PTL DEF ExamSpec

\* Exams implements StatusFlow: one stage at a time, one status per version.
THEOREM ImplementsStatusFlow == ExamSpec => FlowsInStages
<1>1. ExamInit => Flow!FlowInit
  BY DEF ExamInit, Flow!FlowInit
<1> QED BY ExamInitInv, StepKeeps, <1>1, PTL DEF ExamSpec, FlowsInStages, Flow!FlowSpec
=============================================================================
