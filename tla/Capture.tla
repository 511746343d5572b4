------------------------------ MODULE Capture -------------------------------
(***************************************************************************)
(* From the regions drawn on a scanned booklet to the answers of a         *)
(* student: syncPageRegionResponses() gives every mapped region of a       *)
(* document an answer in the attempt the document is linked to.  It runs   *)
(* at the end of three requests that edit regions and of the one that      *)
(* confirms whose booklet it is; deleteRegion() does not run it.  Nothing  *)
(* but the confirmation's and deleteRegion()'s own writes is a             *)
(* transaction, so a step here is what happens between two awaits.         *)
(***************************************************************************)
EXTENDS Naturals

CONSTANTS
  Student,   \* the batch of the delivery; each has one active attempt at most
  Document,  \* scanned booklets of the delivery, of one page each
  Question,  \* questions that are answered on paper
  Region,    \* bound: regions ever drawn
  Process,   \* concurrent requests
  none       \* null

ASSUME CaptureAssumption ==
  none \notin Student \cup Document \cup Question \cup Region

VARIABLES
  active,      \* students with an active attempt
  link,        \* Document.attemptId, by the attempt's student
  resolution,  \* IdentityResolution of each document
  region,      \* PageRegion rows of type QUESTION_ANSWER
  answer,      \* Response rows under their key [attemptId, questionId]
  proc,        \* what each request holds between its awaits
  gap          \* history: what may have left a document without an answer, the
               \* "deletion" of it with another region or a "failure" to sync

vars == <<active, link, resolution, region, answer, proc, gap>>

Pair == Student \X Question

Resolution == [status : {"PENDING", "CONFLICT", "MANUALLY_CONFIRMED"}, student : Student \cup {none}]

\* A region is drawn once and may be deleted; ids are not used again.
Undrawn == [state |-> "undrawn", doc |-> none, question |-> none]
Deleted == [state |-> "deleted", doc |-> none, question |-> none]
Drawn(d, q) == [state |-> "drawn", doc |-> d, question |-> q]
RegionRow == {Undrawn, Deleted} \cup
  [state : {"drawn"}, doc : Document, question : Question \cup {none}]
isDrawn(g) == region[g].state = "drawn"
isMapped(g) == isDrawn(g) /\ region[g].question # none

NoAnswer == [region |-> none, approved |-> FALSE]
Answer == [region : Region \cup {none}, approved : BOOLEAN]
exists(p) == answer[p].region # none

\* Mapped regions of a document: what a sync lists.
MappedOf(d) == {g \in Region : isMapped(g) /\ region[g].doc = d}

Idle == [pc |-> "idle", doc |-> none, student |-> none, region |-> none,
         question |-> none, consent |-> FALSE, todo |-> {}]
Request ==
  [pc : {"idle", "remap", "remapping", "moving", "deleting", "detecting",
         "confirm", "compare", "conflicting", "reuse", "create",
         "sync", "list", "upsert"},
   doc : Document \cup {none}, student : Student \cup {none}, region : Region \cup {none},
   question : Question \cup {none}, consent : BOOLEAN, todo : SUBSET (Region \X Question)]
Sync(d) == [Idle EXCEPT !.pc = "sync", !.doc = d]

TypeOK ==
  /\ active \in SUBSET Student
  /\ link \in [Document -> Student \cup {none}]
  /\ resolution \in [Document -> Resolution]
  /\ region \in [Region -> RegionRow]
  /\ answer \in [Pair -> Answer]
  /\ proc \in [Process -> Request]
  /\ gap \in [Document -> {"none", "deletion", "failure"}]

Init ==
  /\ active = {}
  /\ link = [d \in Document |-> none]
  /\ resolution = [d \in Document |-> [status |-> "PENDING", student |-> none]]
  /\ region = [g \in Region |-> Undrawn]
  /\ answer = [p \in Pair |-> NoAnswer]
  /\ proc = [p \in Process |-> Idle]
  /\ gap = [d \in Document |-> "none"]

Goes(p, request) == proc' = [proc EXCEPT ![p] = request]

-----------------------------------------------------------------------------
(* Around the requests: AttemptsService.create(), a human's mark.          *)

\* A student's first attempt is the active one; later ones are not.
CreateAttempt(s) ==
  /\ s \notin active
  /\ active' = active \cup {s}
  /\ UNCHANGED <<link, resolution, region, answer, proc, gap>>

Approve(pair) ==
  /\ exists(pair)
  /\ answer' = [answer EXCEPT ![pair].approved = TRUE]
  /\ UNCHANGED <<active, link, resolution, region, proc, gap>>

-----------------------------------------------------------------------------
(* Drawing: createRegion(), and detectRegions() around a slow model call.  *)

CreateRegion(p, d, g, q) ==
  /\ proc[p].pc = "idle"
  /\ region[g] = Undrawn
  /\ region' = [region EXCEPT ![g] = Drawn(d, q)]
  /\ Goes(p, Sync(d))
  /\ UNCHANGED <<active, link, resolution, answer, gap>>

\* A page that has regions already is left alone.
DetectRead(p, d) ==
  /\ proc[p].pc = "idle"
  /\ ~ \E g \in Region : isDrawn(g) /\ region[g].doc = d
  /\ Goes(p, [Idle EXCEPT !.pc = "detecting", !.doc = d])
  /\ UNCHANGED <<active, link, resolution, region, answer, gap>>

\* A suggestion is mapped only if the model is confident.
DetectAdd(p, g, q) ==
  /\ proc[p].pc = "detecting"
  /\ region[g] = Undrawn
  /\ region' = [region EXCEPT ![g] = Drawn(proc[p].doc, q)]
  /\ Goes(p, [proc[p] EXCEPT !.region = g])
  /\ UNCHANGED <<active, link, resolution, answer, gap>>

DetectEnd(p) ==
  /\ proc[p].pc = "detecting"
  /\ Goes(p, IF proc[p].region # none THEN Sync(proc[p].doc) ELSE Idle)
  /\ UNCHANGED <<active, link, resolution, region, answer, gap>>

-----------------------------------------------------------------------------
(* updateRegion() and deleteRegion(): read, check, discard.                *)

AnswersOf(g) == {pair \in Pair : answer[pair].region = g}

\* updateRegion() with a box only.
RedrawRegion(p, g) ==
  /\ proc[p].pc = "idle"
  /\ isDrawn(g)
  /\ Goes(p, Sync(region[g].doc))
  /\ UNCHANGED <<active, link, resolution, region, answer, gap>>

\* A question that is the region's own is written back without a check, and
\* without a look at the consent.
RemapRead(p, g, q, consent) ==
  /\ proc[p].pc = "idle"
  /\ isDrawn(g)
  /\ region[g].question = q => ~consent
  /\ Goes(p, [Idle EXCEPT !.pc = IF region[g].question = q THEN "moving" ELSE "remap", !.doc = region[g].doc, !.region = g,
                          !.question = q, !.consent = consent])
  /\ UNCHANGED <<active, link, resolution, region, answer, gap>>

\* assertRegionMarksMayBeDiscarded()
MayDiscardMarks(g, consent) ==
  consent \/ \A pair \in AnswersOf(g) : ~answer[pair].approved

RemapCheck(p) ==
  /\ proc[p].pc = "remap"
  /\ Goes(p, IF MayDiscardMarks(proc[p].region, proc[p].consent)
             THEN [proc[p] EXCEPT !.pc = "remapping"] ELSE Idle)
  /\ UNCHANGED <<active, link, resolution, region, answer, gap>>

\* What is read before the check is only whether the region exists, which
\* the transaction finds out again.
DeleteCheck(p, g, consent) ==
  /\ proc[p].pc = "idle"
  /\ isDrawn(g)
  /\ MayDiscardMarks(g, consent)
  /\ Goes(p, [Idle EXCEPT !.pc = "deleting", !.doc = region[g].doc, !.region = g,
                          !.consent = consent])
  /\ UNCHANGED <<active, link, resolution, region, answer, gap>>

\* Documents with a mapped region that has its answer among the pairs.
NeededBy(pairs, g) ==
  {d \in Document : \E h \in MappedOf(d) \ {g} : <<link[d], region[h].question>> \in pairs}

Lost(docs) ==
  gap' = [d \in Document |-> IF d \in docs /\ gap[d] = "none" THEN "deletion" ELSE gap[d]]

Discard(pairs) == answer' = [pair \in Pair |-> IF pair \in pairs THEN NoAnswer ELSE answer[pair]]

\* The document's own answers are synced again when the region has moved.
RemapDiscard(p) ==
  LET gone == AnswersOf(proc[p].region) IN
  /\ proc[p].pc = "remapping"
  /\ Discard(gone)
  /\ Lost(NeededBy(gone, proc[p].region) \ {proc[p].doc})
  /\ Goes(p, [proc[p] EXCEPT !.pc = "moving", !.consent = FALSE])
  /\ UNCHANGED <<active, link, resolution, region>>

RemapMoveThen(p, next) ==
  /\ proc[p].pc = "moving"
  /\ region' = [region EXCEPT ![proc[p].region].question = proc[p].question]
  /\ Goes(p, next)
  /\ UNCHANGED <<active, link, resolution, answer, gap>>

\* Mutants: whether the region is still there is not noticed; nothing is
\* synced after the move.
RemapMoveUnchecked(p) == RemapMoveThen(p, Sync(proc[p].doc))
RemapMoveOnly(p) == RemapMoveThen(p, Idle) /\ isDrawn(proc[p].region)

RemapMove(p) == RemapMoveThen(p, Sync(proc[p].doc)) /\ isDrawn(proc[p].region)

\* One transaction: the answers with their marks, then the region.
DeleteCommit(p) ==
  LET g == proc[p].region
      gone == AnswersOf(g) IN
  /\ proc[p].pc = "deleting"
  /\ isDrawn(g)
  /\ Discard(gone)
  /\ region' = [region EXCEPT ![g] = Deleted]
  /\ Lost(NeededBy(gone, g))
  /\ Goes(p, Idle)
  /\ UNCHANGED <<active, link, resolution>>

-----------------------------------------------------------------------------
(* IdentityResolutionService.confirm()                                     *)

ConfirmRead(p, d, s) ==
  /\ proc[p].pc = "idle"
  /\ resolution[d].status # "MANUALLY_CONFIRMED"
  /\ Goes(p, [Idle EXCEPT !.pc = "confirm", !.doc = d, !.student = s])
  /\ UNCHANGED <<active, link, resolution, region, answer, gap>>

\* attempt.findFirst()
ConfirmFindAttempt(p) ==
  /\ proc[p].pc = "confirm"
  /\ Goes(p, [proc[p] EXCEPT !.pc = IF proc[p].student \in active THEN "compare" ELSE "create"])
  /\ UNCHANGED <<active, link, resolution, region, answer, gap>>

\* document.findFirst(): another document linked to that attempt
ConfirmCompare(p) ==
  /\ proc[p].pc = "compare"
  /\ Goes(p, [proc[p] EXCEPT !.pc =
       IF \E d \in Document \ {proc[p].doc} : link[d] = proc[p].student
       THEN "conflicting" ELSE "reuse"])
  /\ UNCHANGED <<active, link, resolution, region, answer, gap>>

ConfirmConflict(p) ==
  /\ proc[p].pc = "conflicting"
  /\ resolution' = [resolution EXCEPT ![proc[p].doc].status = "CONFLICT"]
  /\ Goes(p, Idle)
  /\ UNCHANGED <<active, link, region, answer, gap>>

ConfirmAs(p, linked) ==
  LET d == proc[p].doc
      s == proc[p].student IN
  /\ proc[p].pc \in {"reuse", "create"}
  /\ proc[p].pc = "create" => s \notin active   \* the unique key of attempts
  /\ active' = active \cup {s}
  /\ link' = [link EXCEPT ![d] = linked]
  /\ resolution' = [resolution EXCEPT ![d] = [status |-> "MANUALLY_CONFIRMED", student |-> s]]
  /\ Goes(p, Sync(d))
  /\ UNCHANGED <<region, answer, gap>>

\* Mutant: a document that has an attempt keeps it.
ConfirmKeepingLink(p) ==
  ConfirmAs(p, IF link[proc[p].doc] = none THEN proc[p].student ELSE link[proc[p].doc])

ConfirmCommit(p) == ConfirmAs(p, proc[p].student)

-----------------------------------------------------------------------------
(* syncPageRegionResponses()                                               *)

SyncReadDocument(p) ==
  LET s == link[proc[p].doc] IN
  /\ proc[p].pc = "sync"
  /\ Goes(p, IF s = none THEN Idle ELSE [proc[p] EXCEPT !.pc = "list", !.student = s])
  /\ UNCHANGED <<active, link, resolution, region, answer, gap>>

SyncList(p) ==
  LET todo == {<<g, region[g].question>> : g \in MappedOf(proc[p].doc)} IN
  /\ proc[p].pc = "list"
  /\ Goes(p, IF todo = {} THEN Idle ELSE [proc[p] EXCEPT !.pc = "upsert", !.todo = todo])
  /\ UNCHANGED <<active, link, resolution, region, answer, gap>>

\* An answer that is there already is pointed at this region, and keeps its
\* marks.  A region that is gone is refused by its foreign key: see Fail.
SyncUpsert(p, g, q) ==
  LET todo == proc[p].todo \ {<<g, q>>} IN
  /\ proc[p].pc = "upsert"
  /\ <<g, q>> \in proc[p].todo
  /\ isDrawn(g)
  /\ answer' = [answer EXCEPT ![<<proc[p].student, q>>].region = g]
  /\ Goes(p, IF todo = {} THEN Idle ELSE [proc[p] EXCEPT !.todo = todo])
  /\ UNCHANGED <<active, link, resolution, region, gap>>

-----------------------------------------------------------------------------

\* A unique or foreign key, a row that is gone, a database error or a process
\* that dies: what has been committed stays.
Fail(p) ==
  /\ proc[p].pc # "idle"
  /\ Goes(p, Idle)
  /\ gap' = IF proc[p].pc \in {"moving", "detecting", "sync", "list", "upsert"}
            THEN [gap EXCEPT ![proc[p].doc] = "failure"] ELSE gap
  /\ UNCHANGED <<active, link, resolution, region, answer>>

RegionNext(p) ==
  \/ \E d \in Document, g \in Region, q \in Question \cup {none} : CreateRegion(p, d, g, q)
  \/ \E d \in Document : DetectRead(p, d)
  \/ \E g \in Region, q \in Question \cup {none} : DetectAdd(p, g, q)
  \/ DetectEnd(p)
  \/ \E g \in Region : RedrawRegion(p, g)
  \/ \E g \in Region, q \in Question \cup {none}, c \in BOOLEAN : RemapRead(p, g, q, c)
  \/ \E g \in Region, c \in BOOLEAN : DeleteCheck(p, g, c)
  \/ RemapCheck(p) \/ RemapDiscard(p) \/ RemapMove(p)
  \/ DeleteCommit(p)

ConfirmNext(p) ==
  \/ \E d \in Document, s \in Student : ConfirmRead(p, d, s)
  \/ ConfirmFindAttempt(p) \/ ConfirmCompare(p) \/ ConfirmConflict(p) \/ ConfirmCommit(p)

SyncNext(p) ==
  \/ SyncReadDocument(p) \/ SyncList(p)
  \/ \E g \in Region, q \in Question : SyncUpsert(p, g, q)

Next ==
  \/ \E s \in Student : CreateAttempt(s)
  \/ \E pair \in Pair : Approve(pair)
  \/ \E p \in Process : RegionNext(p) \/ ConfirmNext(p) \/ SyncNext(p) \/ Fail(p)

Spec == Init /\ [][Next]_vars
-----------------------------------------------------------------------------
(* Properties *)

\* However confirmations interleave, a document is linked to the attempt of
\* the student its resolution names, who has an active attempt; a confirmed
\* one is linked.
LinkIsResolved ==
  \A d \in Document :
    /\ link[d] = resolution[d].student
    /\ link[d] # none => link[d] \in active
    /\ resolution[d].status = "MANUALLY_CONFIRMED" => link[d] # none

\* shared/sync-page-region-responses.ts:4: every mapped region of a linked
\* document has its answer once nothing is running, in whatever order it was
\* drawn, remapped and linked.  Excepted are documents an answer was taken
\* from on behalf of another region, and those of a request that failed.
AtRest == \A p \in Process : proc[p].pc = "idle"
Unanswered(d) ==
  {g \in MappedOf(d) : link[d] # none /\ ~exists(<<link[d], region[g].question>>)}
MappedIsAnswered ==
  AtRest => \A d \in Document : gap[d] = "none" => Unanswered(d) = {}

-----------------------------------------------------------------------------
(* Stated by the repository, and refuted by TLC: see README.md *)

\* As the comment has it: the same of every document no request failed on.
EveryRegionIsAnswered ==
  AtRest => \A d \in Document : gap[d] # "failure" => Unanswered(d) = {}

\* documents.service.ts:762: no approved mark is thrown away by accident, so
\* an answer that has one goes only with a request that said it may.
ApprovedMarksNeedConsent ==
  [][\A pair \in Pair :
       answer[pair].approved /\ answer'[pair] = NoAnswer
       => \E p \in Process : proc[p].consent /\ proc'[p] # proc[p]]_vars

\* docs/30-IDENTITY-PAGE-MAPPING.md 5: a second document that resolves to the
\* student is never linked.
OneBookletPerStudent ==
  \A d, e \in Document : link[d] = link[e] /\ link[d] # none => d = e
=============================================================================
