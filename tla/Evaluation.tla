----------------------------- MODULE Evaluation -----------------------------
(***************************************************************************)
(* Marking the answers of one attempt of one assessment delivery.          *)
(*                                                                         *)
(* Every score change is a new EvaluationVersion row chained to the one    *)
(* before it, and Evaluation.currentEvaluationVersionId points at the one  *)
(* that counts.  Four kinds of process move that pointer or depend on it:  *)
(* the Python AI evaluator (a compare-and-swap at the end of a slow call), *)
(* decide() and override() of the API (read, insert, then an unconditional *)
(* update, none of it in a transaction), the checked-copy submit (one      *)
(* transaction with a compare-and-swap per answer), and the admin who      *)
(* locks the delivery behind a gate that counts unreviewed answers.  Each  *)
(* await that another process can slip into is a step of its own.          *)
(***************************************************************************)
EXTENDS Naturals, Sequences

CONSTANTS
  Response,     \* answers needing a human mark (evaluation-status.util.ts)
  Collected,    \* those already synced when the delivery opens for marking
  Graded,       \* Assessment.stakesLevel = GRADED
  Evaluator,    \* concurrent executions of evaluate_response()
  Desk,         \* concurrent decide() and override() requests
  Sheet,        \* concurrent checked-copy submissions
  Admin,        \* concurrent lock requests
  MaxVersions,  \* bound: versions ever inserted per answer
  MaxDelivery   \* bound: AssessmentDelivery.version

ASSUME EvaluationAssumption ==
  /\ Collected \subseteq Response
  /\ Graded \in BOOLEAN
  /\ MaxVersions \in Nat
  /\ MaxDelivery \in Nat

VARIABLES
  present,      \* answers a Response row was created for
  discarded,    \* those of them whose rows have been deleted since
  row,          \* answers an Evaluation row was created for
  versions,     \* EvaluationVersion rows of each answer, oldest first
  current,      \* currentEvaluationVersionId: a position in versions, 0 is null
  status,       \* Evaluation.status
  delivery,     \* AssessmentDelivery.status and .version
  ai, desk, sheet, admin   \* what each process holds between its awaits

tables == <<present, discarded, row, versions, current, status>>
vars == <<present, discarded, row, versions, current, status, delivery, ai, desk, sheet, admin>>

answers == present \ discarded

Source == {"AI", "TEACHER", "REVIEWER"}
HUMAN_SOURCES == {"TEACHER", "REVIEWER"}
EvaluationStatus == {"PENDING", "AI_SUGGESTED", "TEACHER_REVIEWED", "REVIEWER_FINALIZED"}
DeliveryStatus == {"ONGOING", "EVALUATING", "LOCKED"}

\* criteria: every per-criterion score row exists.  published is a history
\* field: the version has been the current one.
Version == [source : Source, prev : Nat, criteria : BOOLEAN,
            deleted : BOOLEAN, published : BOOLEAN]

NewVersion(source, prev, criteria) ==
  [source |-> source, prev |-> prev, criteria |-> criteria,
   deleted |-> FALSE, published |-> FALSE]

isHumanVersion(r, n) == n # 0 /\ versions[r][n].source \in HUMAN_SOURCES
isHumanApproved(r) == isHumanVersion(r, current[r])
isAiVersion(r, n) == n # 0 /\ versions[r][n].source = "AI"

\* The lock gate counts an answer with no Evaluation row, or one still
\* PENDING or AI_SUGGESTED, as unevaluated.
Unevaluated(r) == r \notin row \/ status[r] \in {"PENDING", "AI_SUGGESTED"}

idle == [pc |-> "idle"]

AiState == {idle} \cup
  [pc : {"opening", "writing", "claiming", "discarding", "scoring"},
   resp : Response, expected : Nat, mine : Nat]
DeskState == {idle} \cup
  [pc : {"opening", "writing", "pointing"}, resp : Response,
   kind : {"ACCEPT_AI", "SCORE", "OVERRIDE"}, prev : Nat, copied : BOOLEAN, mine : Nat]
SheetState == {idle} \cup
  [pc : {"loaded"}, answers : SUBSET Response, rows : SUBSET Response,
   seen : [Response -> Nat]]
AdminState == {idle} \cup [pc : {"gated"}, version : Nat]

TypeOK ==
  /\ present \in SUBSET Response
  /\ discarded \in SUBSET Response
  /\ row \in SUBSET Response
  /\ versions \in [Response -> Seq(Version)]
  /\ current \in [Response -> Nat]
  /\ status \in [Response -> EvaluationStatus]
  /\ delivery \in [status : DeliveryStatus, version : Nat]
  /\ ai \in [Evaluator -> AiState]
  /\ desk \in [Desk -> DeskState]
  /\ sheet \in [Sheet -> SheetState]
  /\ admin \in [Admin -> AdminState]

Init ==
  /\ present = Collected
  /\ discarded = {}
  /\ row = {}
  /\ versions = [r \in Response |-> << >>]
  /\ current = [r \in Response |-> 0]
  /\ status = [r \in Response |-> "PENDING"]
  /\ delivery = [status |-> "ONGOING", version |-> 0]
  /\ ai = [e \in Evaluator |-> idle]
  /\ desk = [d \in Desk |-> idle]
  /\ sheet = [s \in Sheet |-> idle]
  /\ admin = [a \in Admin |-> idle]

-----------------------------------------------------------------------------
(* Answers arrive when a scanned page is mapped to a question, whatever    *)
(* the delivery's status (shared/sync-page-region-responses.ts).           *)

SyncResponse(r) ==
  /\ r \notin present
  /\ present' = present \cup {r}
  /\ UNCHANGED <<discarded, row, versions, current, status, delivery, ai, desk, sheet, admin>>

\* Deleting or remapping a region deletes its answer and, by ON DELETE
\* CASCADE, its evaluation and versions, whatever the delivery's status
\* (documents.service.ts).  The model keeps what they were, out of reach.
DiscardResponse(r) ==
  /\ r \in answers
  /\ discarded' = discarded \cup {r}
  /\ UNCHANGED <<present, row, versions, current, status, delivery, ai, desk, sheet, admin>>

-----------------------------------------------------------------------------
(* evaluate_response(): read, ask the model for up to 40 s, insert the     *)
(* suggestion, claim the pointer, insert the criterion scores.             *)

AiRead(e, r) ==
  /\ ai[e].pc = "idle"
  /\ r \in answers
  /\ ~isHumanApproved(r)
  /\ ai' = [ai EXCEPT ![e] = [pc |-> IF r \in row THEN "writing" ELSE "opening",
                              resp |-> r, expected |-> current[r], mine |-> 0]]
  /\ UNCHANGED <<tables, delivery, desk, sheet, admin>>

AiOpenRow(e) ==
  /\ ai[e].pc = "opening"
  /\ ai[e].resp \in answers \ row
  /\ row' = row \cup {ai[e].resp}
  /\ ai' = [ai EXCEPT ![e].pc = "writing"]
  /\ UNCHANGED <<present, discarded, versions, current, status, delivery, desk, sheet, admin>>

AiInsertAfter(e, prev) ==
  LET r == ai[e].resp IN
  /\ ai[e].pc = "writing"
  /\ r \in answers
  /\ Len(versions[r]) < MaxVersions
  /\ versions' = [versions EXCEPT ![r] = Append(@, NewVersion("AI", prev, FALSE))]
  /\ ai' = [ai EXCEPT ![e].pc = "claiming", ![e].mine = Len(versions[r]) + 1]
  /\ UNCHANGED <<present, discarded, row, current, status, delivery, desk, sheet, admin>>

\* Mutant: chained to the newest row instead of the one that was read.
AiInsertLatest(e) == AiInsertAfter(e, Len(versions[ai[e].resp]))

AiInsert(e) == AiInsertAfter(e, ai[e].expected)

AiPublish(e) ==
  LET r == ai[e].resp
      n == ai[e].mine IN
  /\ ai[e].pc = "claiming"
  /\ r \in answers
  /\ current' = [current EXCEPT ![r] = n]
  /\ status' = [status EXCEPT ![r] = "AI_SUGGESTED"]
  /\ versions' = [versions EXCEPT ![r][n].published = TRUE]
  /\ ai' = [ai EXCEPT ![e].pc = "scoring"]
  /\ UNCHANGED <<present, discarded, row, delivery, desk, sheet, admin>>

AiClaim(e) == AiPublish(e) /\ current[ai[e].resp] = ai[e].expected

AiLoseClaim(e) ==
  /\ ai[e].pc = "claiming"
  /\ ai[e].resp \in answers => current[ai[e].resp] # ai[e].expected
  /\ ai' = [ai EXCEPT ![e].pc = "discarding"]
  /\ UNCHANGED <<tables, delivery, desk, sheet, admin>>

AiDiscard(e) ==
  LET r == ai[e].resp
      n == ai[e].mine IN
  /\ ai[e].pc = "discarding"
  /\ versions' = [versions EXCEPT ![r][n].deleted = TRUE]
  /\ ai' = [ai EXCEPT ![e] = idle]
  /\ UNCHANGED <<present, discarded, row, current, status, delivery, desk, sheet, admin>>

AiScore(e) ==
  LET r == ai[e].resp
      n == ai[e].mine IN
  /\ ai[e].pc = "scoring"
  /\ r \in answers
  /\ versions' = [versions EXCEPT ![r][n].criteria = TRUE]
  /\ ai' = [ai EXCEPT ![e] = idle]
  /\ UNCHANGED <<present, discarded, row, current, status, delivery, desk, sheet, admin>>

\* Model timeout, unique violation on the Evaluation row, database error or
\* process restart: the rows written so far stay.
AiFail(e) ==
  /\ ai[e].pc # "idle"
  /\ ai' = [ai EXCEPT ![e] = idle]
  /\ UNCHANGED <<tables, delivery, desk, sheet, admin>>

AiNext(e) ==
  \/ \E r \in Response : AiRead(e, r)
  \/ AiOpenRow(e) \/ AiInsert(e) \/ AiClaim(e) \/ AiLoseClaim(e)
  \/ AiDiscard(e) \/ AiScore(e) \/ AiFail(e)

-----------------------------------------------------------------------------
(* decide() and override(): SCORE stands for ADJUST and REJECT_RESCORE.    *)

\* The read both requests start from.  Only override() looks at the lock.
DeskRead(d, r, kind) ==
  /\ desk[d].pc = "idle"
  /\ r \in answers
  /\ kind = "OVERRIDE" => delivery.status # "LOCKED"
  /\ kind = "ACCEPT_AI" /\ r \in row => isAiVersion(r, current[r])
  /\ desk' = [desk EXCEPT ![d] =
       [pc |-> IF r \in row THEN "writing" ELSE "opening", resp |-> r, kind |-> kind,
        prev |-> current[r],
        copied |-> IF isAiVersion(r, current[r]) THEN versions[r][current[r]].criteria ELSE FALSE,
        mine |-> 0]]
  /\ UNCHANGED <<tables, delivery, ai, sheet, admin>>

\* The Evaluation row is created before the request is validated: accepting
\* an absent suggestion answers 409 and leaves the row behind, PENDING.
DeskOpenRow(d) ==
  /\ desk[d].pc = "opening"
  /\ desk[d].resp \in answers \ row
  /\ row' = row \cup {desk[d].resp}
  /\ desk' = [desk EXCEPT ![d] =
       IF desk[d].kind = "ACCEPT_AI" THEN idle ELSE [@ EXCEPT !.pc = "writing"]]
  /\ UNCHANGED <<present, discarded, versions, current, status, delivery, ai, sheet, admin>>

DeskInsert(d) ==
  LET r == desk[d].resp
      source == IF desk[d].kind = "OVERRIDE" THEN "REVIEWER" ELSE "TEACHER"
      criteria == IF desk[d].kind = "ACCEPT_AI" THEN desk[d].copied ELSE TRUE IN
  /\ desk[d].pc = "writing"
  /\ r \in answers
  /\ Len(versions[r]) < MaxVersions
  /\ versions' = [versions EXCEPT ![r] = Append(@, NewVersion(source, desk[d].prev, criteria))]
  /\ desk' = [desk EXCEPT ![d].pc = "pointing", ![d].mine = Len(versions[r]) + 1]
  /\ UNCHANGED <<present, discarded, row, current, status, delivery, ai, sheet, admin>>

\* evaluation.update({ where: { id } }): whatever the pointer is by now.
DeskPointAs(d, newStatus) ==
  LET r == desk[d].resp
      n == desk[d].mine IN
  /\ desk[d].pc = "pointing"
  /\ r \in answers
  /\ current' = [current EXCEPT ![r] = n]
  /\ status' = [status EXCEPT ![r] = newStatus]
  /\ versions' = [versions EXCEPT ![r][n].published = TRUE]
  /\ desk' = [desk EXCEPT ![d] = idle]
  /\ UNCHANGED <<present, discarded, row, delivery, ai, sheet, admin>>

\* Mutant: the update sets the pointer and forgets the status.
DeskPointOnly(d) == DeskPointAs(d, status[desk[d].resp])

DeskPoint(d) ==
  DeskPointAs(d, IF desk[d].kind = "OVERRIDE" THEN "REVIEWER_FINALIZED" ELSE "TEACHER_REVIEWED")

\* Marks that fail validation, a lost race for the row, an error or a crash.
DeskFail(d) ==
  /\ desk[d].pc # "idle"
  /\ desk' = [desk EXCEPT ![d] = idle]
  /\ UNCHANGED <<tables, delivery, ai, sheet, admin>>

DeskNext(d) ==
  \/ \E r \in Response, kind \in {"ACCEPT_AI", "SCORE", "OVERRIDE"} : DeskRead(d, r, kind)
  \/ DeskOpenRow(d) \/ DeskInsert(d) \/ DeskPoint(d) \/ DeskFail(d)

-----------------------------------------------------------------------------
(* CheckedCopyService.submit(): the sheet is loaded once, then written in  *)
(* one transaction.  Its row locks make the commit a single step: a        *)
(* compare-and-swap that succeeded inside it still holds when it commits.  *)

SheetLoad(s) ==
  /\ sheet[s].pc = "idle"
  /\ delivery.status # "LOCKED"
  /\ answers # {}
  /\ sheet' = [sheet EXCEPT ![s] =
       [pc |-> "loaded", answers |-> answers, rows |-> row \cap answers, seen |-> current]]
  /\ UNCHANGED <<tables, delivery, ai, desk, admin>>

\* Answers already approved may be resubmitted unchanged, and are then skipped.
Submittable(s) == SUBSET sheet[s].answers
ToWrite(s) ==
  {W \in Submittable(s) :
     \A r \in sheet[s].answers \ W : isHumanVersion(r, sheet[s].seen[r])}

\* An answer deleted since the load breaks a foreign key, a row created since
\* then the insert's unique key, a pointer moved since then the
\* compare-and-swap.
RowsUnmoved(s, W) == \A r \in W : r \in row => r \in sheet[s].rows
Unmoved(s, W) == RowsUnmoved(s, W) /\ \A r \in W : current[r] = sheet[s].seen[r]

SheetCommit(s, W) ==
  /\ sheet[s].pc = "loaded"
  /\ W \in ToWrite(s)
  /\ W \subseteq answers
  /\ Unmoved(s, W)
  /\ \A r \in W : Len(versions[r]) < MaxVersions
  /\ row' = row \cup W
  /\ versions' = [r \in Response |->
       IF r \in W
       THEN Append(versions[r],
                   [NewVersion("TEACHER", sheet[s].seen[r], TRUE) EXCEPT !.published = TRUE])
       ELSE versions[r]]
  /\ current' = [r \in Response |-> IF r \in W THEN Len(versions[r]) + 1 ELSE current[r]]
  /\ status' = [r \in Response |-> IF r \in W THEN "TEACHER_REVIEWED" ELSE status[r]]
  /\ sheet' = [sheet EXCEPT ![s] = idle]
  /\ UNCHANGED <<present, discarded, delivery, ai, desk, admin>>

\* CHECKED_COPY_CHANGED, marks that fail validation, an error or a crash: the
\* transaction rolls back and nothing is saved.
SheetFail(s) ==
  /\ sheet[s].pc = "loaded"
  /\ sheet' = [sheet EXCEPT ![s] = idle]
  /\ UNCHANGED <<tables, delivery, ai, desk, admin>>

SheetNext(s) ==
  \/ SheetLoad(s)
  \/ \E W \in SUBSET Response : SheetCommit(s, W)
  \/ SheetFail(s)

-----------------------------------------------------------------------------
(* AssessmentsService: the last two transitions of a delivery, and unlock. *)

MoveDelivery(to) ==
  /\ delivery.version < MaxDelivery
  /\ delivery' = [status |-> to, version |-> delivery.version + 1]

StartEvaluating ==
  /\ delivery.status = "ONGOING"
  /\ MoveDelivery("EVALUATING")
  /\ UNCHANGED <<tables, ai, desk, sheet, admin>>

\* The gate is a count, read before the update and outside its transaction.
\* The delivery is read before the count; the version check of the update
\* makes both one step, for a delivery that moved in between is never locked.
LockGateOver(a, counted) ==
  /\ admin[a].pc = "idle"
  /\ delivery.status = "EVALUATING"
  /\ Graded => \A r \in counted : ~Unevaluated(r)
  /\ admin' = [admin EXCEPT ![a] = [pc |-> "gated", version |-> delivery.version]]
  /\ UNCHANGED <<tables, delivery, ai, desk, sheet>>

\* Mutant: the count joins the rows there are, and misses answers without one.
LockGateOverRows(a) == LockGateOver(a, row \cap answers)

LockGate(a) == LockGateOver(a, answers)

LockCommit(a) ==
  /\ admin[a].pc = "gated"
  /\ delivery.version = admin[a].version
  /\ MoveDelivery("LOCKED")
  /\ admin' = [admin EXCEPT ![a] = idle]
  /\ UNCHANGED <<tables, ai, desk, sheet>>

\* STALE_VERSION, because another admin moved the delivery first, or an error.
LockFail(a) ==
  /\ admin[a].pc = "gated"
  /\ admin' = [admin EXCEPT ![a] = idle]
  /\ UNCHANGED <<tables, delivery, ai, desk, sheet>>

\* Mutant: a status the enum does not have.
UnlockForReview ==
  /\ delivery.status = "LOCKED"
  /\ MoveDelivery("UNDER_REVIEW")
  /\ UNCHANGED <<tables, ai, desk, sheet, admin>>

Unlock ==
  /\ delivery.status = "LOCKED"
  /\ MoveDelivery("EVALUATING")
  /\ UNCHANGED <<tables, ai, desk, sheet, admin>>

AdminNext(a) == LockGate(a) \/ LockCommit(a) \/ LockFail(a)

-----------------------------------------------------------------------------

Next ==
  \/ \E r \in Response : SyncResponse(r) \/ DiscardResponse(r)
  \/ \E e \in Evaluator : AiNext(e)
  \/ \E d \in Desk : DeskNext(d)
  \/ \E s \in Sheet : SheetNext(s)
  \/ \E a \in Admin : AdminNext(a)
  \/ StartEvaluating
  \/ Unlock

Spec == Init /\ [][Next]_vars
-----------------------------------------------------------------------------
(* Properties *)

standingOf(r) ==
  CASE r \notin present -> "absent"
    [] r \in present \cap discarded -> "discarded"
    [] r \in answers /\ current[r] = 0 -> "unmarked"
    [] r \in answers /\ isAiVersion(r, current[r]) -> "suggested"
    [] OTHER -> "approved"

Ledger == INSTANCE MarkLedger WITH
  standing <- [r \in Response |-> standingOf(r)],
  sealed <- delivery.status = "LOCKED"

\* Every interleaving of AI jobs, decisions, overrides, submissions and lock
\* requests does only what the ledger allows: suggestions never displace
\* approved marks, and a graded delivery locks only over approved answers.
ImplementsLedger == Ledger!Spec

\* An AI check that was queued, slow or retried never takes an answer's
\* current version away from a human (the compare-and-swap of
\* ai_evaluator.py, against decide, override and submit).
AiNeverReplacesHuman ==
  [][\A r \in answers' : isHumanApproved(r) => isHumanApproved(r)']_vars

\* The gate is a count taken before the lock commits, outside its
\* transaction.  Even so, no answer that was there when marking opened is
\* without a human's mark while a graded delivery is LOCKED.
LockedIsMarked ==
  Graded /\ delivery.status = "LOCKED" => \A r \in Collected \ discarded : isHumanApproved(r)

\* The rows a losing AI call deletes are never part of anybody's history:
\* the current version exists, and every version that ever counted is
\* chained to an earlier one that also counted and still exists.
ChainIsSound ==
  \A r \in Response :
    /\ current[r] # 0 => /\ current[r] \in DOMAIN versions[r]
                         /\ versions[r][current[r]].published
    /\ \A n \in DOMAIN versions[r] : versions[r][n].published =>
         LET prev == versions[r][n].prev IN
         /\ ~versions[r][n].deleted
         /\ prev < n
         /\ prev # 0 => versions[r][prev].published

\* A submission that changes anything leaves every answer of the sheet it
\* loaded with a human's mark: those it wrote and those it skipped as
\* unchanged, whatever happened to them since it was loaded.
SubmitMarksWholeSheet ==
  [][\A s \in Sheet :
       sheet[s].pc = "loaded" /\ sheet'[s].pc = "idle" /\ current' # current
         => \A r \in sheet[s].answers \ discarded : isHumanApproved(r)']_vars

\* The lock gate goes by Evaluation.status, scores and the AI by the source
\* of the current version.  The two never tell different stories.
StatusTellsSource ==
  \A r \in answers : Unevaluated(r) <=> ~isHumanApproved(r)

\* docs/25-EVALUATION-ENGINE.md:94: the history of an answer is in order and
\* without gaps, that is, no two versions that counted continue the same one.
HistoryNeverForks ==
  \A r \in Response : \A m, n \in DOMAIN versions[r] :
    versions[r][m].published /\ versions[r][n].published /\ m # n
      => versions[r][m].prev # versions[r][n].prev

-----------------------------------------------------------------------------
(* Stated by the repository, and refuted by TLC: see README.md *)

\* docs/32-AI-GOVERNANCE-POLICY.md:48: no graded delivery is LOCKED with any
\* subjective answer lacking a human evaluation, late arrivals included.
LockedCoversEveryAnswer ==
  Graded /\ delivery.status = "LOCKED" => \A r \in answers : isHumanApproved(r)

\* docs/25-EVALUATION-ENGINE.md:68: with criteria, marks are derived from the
\* criterion scores, so a human's mark comes with all of them.
HumanMarksHaveCriteria ==
  \A r \in answers : isHumanApproved(r) => versions[r][current[r]].criteria
=============================================================================
