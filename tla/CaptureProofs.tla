---------------------------- MODULE CaptureProofs ---------------------------
(***************************************************************************)
(* Proofs about Capture: what a document is linked to and what its         *)
(* resolution says agree, and no mapped region of a linked document is     *)
(* left without an answer by the order in which requests run.              *)
(***************************************************************************)
EXTENDS Capture, PdfSplit, JobQueueProofs

USE CaptureAssumption

\* The request will still give student s, document d's owner, an answer to q.
Owes(r, s, d, q) ==
  /\ r.doc = d
  /\ \/ r.pc \in {"moving", "sync"}
     \/ r.pc = "detecting" /\ r.region # none
     \/ r.pc = "list" /\ r.student = s
     \/ r.pc = "upsert" /\ r.student = s /\ \E h \in Region : <<h, q>> \in r.todo

\* Every mapped region of a linked document has its answer or is owed one.
Covered ==
  \A d \in Document, g \in Region, q \in Question :
    region[g] = Drawn(d, q) /\ link[d] # none /\ gap[d] = "none"
    => exists(<<link[d], q>>) \/ \E p \in Process : Owes(proc[p], link[d], d, q)

\* A request knows its document, and the region it works on is still one of
\* that document or was deleted.
Sound(r, rows) ==
  /\ r.pc # "idle" => r.doc \in Document
  /\ r.pc \in {"remap", "remapping", "moving", "deleting"} =>
       /\ r.region \in Region
       /\ rows[r.region] = Deleted \/ rows[r.region].doc = r.doc
  /\ r.pc \in {"confirm", "compare", "conflicting", "reuse", "create"} => r.student \in Student

RequestsSound == \A p \in Process : Sound(proc[p], region)

IInv ==
  /\ TypeOK
  /\ LinkIsResolved
  /\ RequestsSound
  /\ Covered

-----------------------------------------------------------------------------
(* Requests and region rows.                                               *)

\* What a request turns into is a request.
LEMMA RequestTypes ==
  /\ Idle \in Request
  /\ \A d \in Document : Sync(d) \in Request
<1>1. Idle \in Request
  BY DEF Idle, Request
<1>2. ASSUME NEW d \in Document PROVE Sync(d) \in Request
  BY DEF Sync, Idle, Request
<1> QED BY <1>1, <1>2

\* The rows of a region that is drawn, moved or deleted.
LEMMA RowTypes ==
  /\ Undrawn \in RegionRow /\ Deleted \in RegionRow
  /\ \A d \in Document, q \in Question \cup {none} : Drawn(d, q) \in RegionRow
BY DEF Undrawn, Deleted, Drawn, RegionRow

\* A drawn region's row is what Drawn makes of its document and question.
LEMMA DrawnRow ==
  ASSUME TypeOK, NEW g \in Region, isDrawn(g)
  PROVE  /\ region[g].doc \in Document /\ region[g].question \in Question \cup {none}
         /\ region[g] = Drawn(region[g].doc, region[g].question)
BY DEF TypeOK, RegionRow, isDrawn, Undrawn, Deleted, Drawn

\* A row that Drawn made is drawn.
LEMMA RowIsDrawn ==
  ASSUME NEW g \in Region, NEW d, NEW q, region[g] = Drawn(d, q)
  PROVE  isDrawn(g) /\ region[g].doc = d /\ region[g].question = q
BY DEF isDrawn, Drawn

\* Mapped regions of a document are those whose row has it and a question.
LEMMA MappedRow ==
  ASSUME NEW d \in Document, NEW g \in Region, NEW q \in Question, region[g] = Drawn(d, q)
  PROVE  g \in MappedOf(d) /\ region[g].question = q
BY RowIsDrawn DEF MappedOf, isMapped

\* A region that is moved or deleted leaves what others know of it true.
LEMMA RowsKeepSound ==
  ASSUME NEW r, NEW rows, NEW rows2, Sound(r, rows),
         \A h \in Region :
           /\ rows[h] = Deleted => rows2[h] = Deleted
           /\ rows[h] = Undrawn \/ rows2[h] = Deleted \/ rows2[h].doc = rows[h].doc
  PROVE  Sound(r, rows2)
<1>1. Undrawn.doc \notin Document
  BY DEF Undrawn
<1> QED BY <1>1 DEF Sound

-----------------------------------------------------------------------------
(* How coverage is kept, whatever the step.                                *)

\* What a step that makes p the request r does not cover itself was covered,
\* and not by p, before.
KeepsCover(p, r) ==
  \A d \in Document, g \in Region, q \in Question :
    region'[g] = Drawn(d, q) /\ link'[d] # none /\ gap'[d] = "none"
    => \/ answer'[<<link'[d], q>>].region # none
       \/ Owes(r, link'[d], d, q)
       \/ /\ region[g] = Drawn(d, q) /\ link'[d] = link[d] /\ gap[d] = "none"
          /\ answer[<<link[d], q>>].region = none
          /\ ~Owes(proc[p], link[d], d, q)

\* Such a step keeps everything covered.
LEMMA CoverageStep ==
  ASSUME IInv, NEW p \in Process, NEW r, proc' = [proc EXCEPT ![p] = r], KeepsCover(p, r)
  PROVE  Covered'
<1> SUFFICES ASSUME NEW d \in Document, NEW g \in Region, NEW q \in Question,
                    region'[g] = Drawn(d, q), link'[d] # none, gap'[d] = "none",
                    ~(answer'[<<link'[d], q>>].region # none),
                    ~Owes(r, link'[d], d, q)
             PROVE  \E p2 \in Process : Owes(proc'[p2], link'[d], d, q)
  <2>1. proc'[p] = r
    BY DEF IInv, TypeOK
  <2> SUFFICES ASSUME NEW d \in Document, NEW g \in Region, NEW q \in Question,
                      region'[g] = Drawn(d, q) /\ link'[d] # none /\ gap'[d] = "none"
               PROVE  \/ answer'[<<link'[d], q>>].region # none
                      \/ \E p2 \in Process : Owes(proc'[p2], link'[d], d, q)
    BY DEF Covered, exists
  <2> QED BY <2>1
<1>1. /\ region[g] = Drawn(d, q) /\ link'[d] = link[d] /\ gap[d] = "none"
      /\ answer[<<link[d], q>>].region = none
      /\ ~Owes(proc[p], link[d], d, q)
  BY DEF KeepsCover
<1>2. PICK p2 \in Process : Owes(proc[p2], link[d], d, q)
  BY <1>1 DEF IInv, Covered, exists
<1>3. p2 # p /\ proc'[p2] = proc[p2]
  BY <1>1, <1>2 DEF IInv, TypeOK
<1> QED BY <1>1, <1>2, <1>3

\* A step that only moves p along keeps the invariant if p owes no less.
LEMMA QuietStep ==
  ASSUME IInv, NEW p \in Process, NEW r \in Request, Sound(r, region),
         proc' = [proc EXCEPT ![p] = r],
         UNCHANGED <<active, link, resolution, region, answer, gap>>,
         \A d \in Document, g \in Region, q \in Question :
           region[g] = Drawn(d, q) /\ link[d] # none /\ Owes(proc[p], link[d], d, q)
           => Owes(r, link[d], d, q)
  PROVE  IInv'
<1>1. TypeOK'
  BY DEF IInv, TypeOK
<1>2. LinkIsResolved'
  BY DEF IInv, LinkIsResolved
<1>3. RequestsSound'
  BY DEF IInv, TypeOK, RequestsSound
<1>4. Covered'
  <2>1. KeepsCover(p, r)
    BY DEF KeepsCover
  <2> QED BY <2>1, CoverageStep
<1> QED BY <1>1, <1>2, <1>3, <1>4 DEF IInv

\* The steps of other requests leave theirs sound when rows only move on.
LEMMA RequestsStaySound ==
  ASSUME IInv, NEW p \in Process, NEW r, proc' = [proc EXCEPT ![p] = r],
         Sound(r, region'),
         \A h \in Region :
           /\ region[h] = Deleted => region'[h] = Deleted
           /\ region[h] = Undrawn \/ region'[h] = Deleted \/ region'[h].doc = region[h].doc
  PROVE  RequestsSound'
<1>1. ASSUME NEW p2 \in Process PROVE Sound(proc'[p2], region')
  <2>1. CASE p2 = p
    BY <2>1 DEF IInv, TypeOK
  <2>2. CASE p2 # p
    <3>1. proc'[p2] = proc[p2] /\ Sound(proc[p2], region)
      BY <2>2 DEF IInv, TypeOK, RequestsSound
    <3> QED BY <3>1, RowsKeepSound
  <2> QED BY <2>1, <2>2
<1> QED BY <1>1 DEF RequestsSound

\* Idle requests, and those that start to sync, are sound.
LEMMA FreshSound ==
  ASSUME NEW rows
  PROVE  /\ Sound(Idle, rows)
         /\ \A d \in Document : Sound(Sync(d), rows)
BY DEF Sound, Idle, Sync

\* A request that starts to sync a document owes it everything.
LEMMA SyncOwes ==
  ASSUME NEW d, NEW s, NEW q
  PROVE  Owes(Sync(d), s, d, q)
BY DEF Owes, Sync, Idle

-----------------------------------------------------------------------------
(* Steps that only read.                                                   *)

\* Finding a page without regions.
LEMMA DetectReadStep ==
  ASSUME IInv, NEW p \in Process, NEW d \in Document, DetectRead(p, d)
  PROVE  IInv'
<1> DEFINE r == [Idle EXCEPT !.pc = "detecting", !.doc = d]
<1>1. /\ r \in Request /\ Sound(r, region)
  BY DEF Idle, Request, Sound
<1>2. \A d2 \in Document, q \in Question : ~Owes(proc[p], link[d2], d2, q)
  BY DEF DetectRead, Owes
<1>3. /\ proc' = [proc EXCEPT ![p] = r]
      /\ UNCHANGED <<active, link, resolution, region, answer, gap>>
  BY DEF DetectRead, Goes
<1> HIDE DEF r
<1> QED BY <1>1, <1>2, <1>3, QuietStep

\* The end of a detection: a document it drew in is synced.
LEMMA DetectEndStep ==
  ASSUME IInv, NEW p \in Process, DetectEnd(p)
  PROVE  IInv'
<1> DEFINE r == IF proc[p].region # none THEN Sync(proc[p].doc) ELSE Idle
<1>0. proc[p].pc = "detecting" /\ proc[p].doc \in Document
  BY DEF DetectEnd, IInv, RequestsSound, Sound
<1>1. /\ r \in Request /\ Sound(r, region)
  BY <1>0, RequestTypes, FreshSound
<1>2. \A d \in Document, q \in Question : Owes(proc[p], link[d], d, q) => Owes(r, link[d], d, q)
  BY <1>0, SyncOwes DEF Owes
<1>3. /\ proc' = [proc EXCEPT ![p] = r]
      /\ UNCHANGED <<active, link, resolution, region, answer, gap>>
  BY DEF DetectEnd, Goes
<1> HIDE DEF r
<1> QED BY <1>1, <1>2, <1>3, QuietStep

\* A region that gets another box.
LEMMA RedrawStep ==
  ASSUME IInv, NEW p \in Process, NEW g \in Region, RedrawRegion(p, g)
  PROVE  IInv'
<1> DEFINE r == Sync(region[g].doc)
<1>0. proc[p].pc = "idle" /\ region[g].doc \in Document
  BY DrawnRow DEF RedrawRegion, IInv
<1>1. /\ r \in Request /\ Sound(r, region)
  BY <1>0, RequestTypes, FreshSound
<1>2. \A d \in Document, q \in Question : ~Owes(proc[p], link[d], d, q)
  BY <1>0 DEF Owes
<1>3. /\ proc' = [proc EXCEPT ![p] = r]
      /\ UNCHANGED <<active, link, resolution, region, answer, gap>>
  BY DEF RedrawRegion, Goes
<1> HIDE DEF r
<1> QED BY <1>1, <1>2, <1>3, QuietStep

\* The start of a remap, of a region that is drawn.
LEMMA RemapReadStep ==
  ASSUME IInv, NEW p \in Process, NEW g \in Region, NEW q \in Question \cup {none},
         NEW consent \in BOOLEAN, RemapRead(p, g, q, consent)
  PROVE  IInv'
<1> DEFINE r == [Idle EXCEPT !.pc = IF region[g].question = q THEN "moving" ELSE "remap",
                             !.doc = region[g].doc, !.region = g,
                             !.question = q, !.consent = consent]
<1>0. proc[p].pc = "idle" /\ region[g].doc \in Document
  BY DrawnRow DEF RemapRead, IInv
<1>1. /\ r \in Request /\ Sound(r, region)
  BY <1>0 DEF Idle, Request, Sound
<1>2. \A d2 \in Document, q2 \in Question : ~Owes(proc[p], link[d2], d2, q2)
  BY <1>0 DEF Owes
<1>3. /\ proc' = [proc EXCEPT ![p] = r]
      /\ UNCHANGED <<active, link, resolution, region, answer, gap>>
  BY DEF RemapRead, Goes
<1> HIDE DEF r
<1> QED BY <1>1, <1>2, <1>3, QuietStep

\* The check of the marks of a remap.
LEMMA RemapCheckStep ==
  ASSUME IInv, NEW p \in Process, RemapCheck(p)
  PROVE  IInv'
<1> DEFINE r == IF MayDiscardMarks(proc[p].region, proc[p].consent)
                THEN [proc[p] EXCEPT !.pc = "remapping"] ELSE Idle
<1>0. proc[p].pc = "remap" /\ proc[p] \in Request /\ Sound(proc[p], region)
  BY DEF RemapCheck, IInv, TypeOK, RequestsSound
<1>1. /\ r \in Request /\ Sound(r, region)
  <2>1. [proc[p] EXCEPT !.pc = "remapping"] \in Request
    BY <1>0 DEF Request
  <2>2. Sound([proc[p] EXCEPT !.pc = "remapping"], region)
    BY <1>0 DEF Request, Sound
  <2> QED BY <2>1, <2>2, RequestTypes, FreshSound
<1>2. \A d \in Document, q \in Question : ~Owes(proc[p], link[d], d, q)
  BY <1>0 DEF Owes
<1>3. /\ proc' = [proc EXCEPT ![p] = r]
      /\ UNCHANGED <<active, link, resolution, region, answer, gap>>
  BY DEF RemapCheck, Goes
<1> HIDE DEF r
<1> QED BY <1>1, <1>2, <1>3, QuietStep

\* The check of the marks of a deletion.
LEMMA DeleteCheckStep ==
  ASSUME IInv, NEW p \in Process, NEW g \in Region, NEW consent \in BOOLEAN,
         DeleteCheck(p, g, consent)
  PROVE  IInv'
<1> DEFINE r == [Idle EXCEPT !.pc = "deleting", !.doc = region[g].doc, !.region = g,
                             !.consent = consent]
<1>0. proc[p].pc = "idle" /\ region[g].doc \in Document
  BY DrawnRow DEF DeleteCheck, IInv
<1>1. /\ r \in Request /\ Sound(r, region)
  BY <1>0 DEF Idle, Request, Sound
<1>2. \A d \in Document, q \in Question : ~Owes(proc[p], link[d], d, q)
  BY <1>0 DEF Owes
<1>3. /\ proc' = [proc EXCEPT ![p] = r]
      /\ UNCHANGED <<active, link, resolution, region, answer, gap>>
  BY DEF DeleteCheck, Goes
<1> HIDE DEF r
<1> QED BY <1>1, <1>2, <1>3, QuietStep

\* The start of a confirmation.
LEMMA ConfirmReadStep ==
  ASSUME IInv, NEW p \in Process, NEW d \in Document, NEW s \in Student, ConfirmRead(p, d, s)
  PROVE  IInv'
<1> DEFINE r == [Idle EXCEPT !.pc = "confirm", !.doc = d, !.student = s]
<1>1. /\ r \in Request /\ Sound(r, region)
  BY DEF Idle, Request, Sound
<1>2. \A d2 \in Document, q \in Question : ~Owes(proc[p], link[d2], d2, q)
  BY DEF ConfirmRead, Owes
<1>3. /\ proc' = [proc EXCEPT ![p] = r]
      /\ UNCHANGED <<active, link, resolution, region, answer, gap>>
  BY DEF ConfirmRead, Goes
<1> HIDE DEF r
<1> QED BY <1>1, <1>2, <1>3, QuietStep

\* A confirmation looks for the student's attempt.
LEMMA ConfirmFindAttemptStep ==
  ASSUME IInv, NEW p \in Process, ConfirmFindAttempt(p)
  PROVE  IInv'
<1> DEFINE r == [proc[p] EXCEPT !.pc = IF proc[p].student \in active THEN "compare" ELSE "create"]
<1>0. proc[p].pc = "confirm" /\ proc[p] \in Request /\ Sound(proc[p], region)
  BY DEF ConfirmFindAttempt, IInv, TypeOK, RequestsSound
<1>1. /\ r \in Request /\ Sound(r, region)
  <2>1. r \in Request
    BY <1>0 DEF Request
  <2>2. Sound(r, region)
    BY <1>0 DEF Request, Sound
  <2> QED BY <2>1, <2>2
<1>2. \A d \in Document, q \in Question : ~Owes(proc[p], link[d], d, q)
  BY <1>0 DEF Owes
<1>3. /\ proc' = [proc EXCEPT ![p] = r]
      /\ UNCHANGED <<active, link, resolution, region, answer, gap>>
  BY DEF ConfirmFindAttempt, Goes
<1> HIDE DEF r
<1> QED BY <1>1, <1>2, <1>3, QuietStep

\* A confirmation looks for another document of that attempt.
LEMMA ConfirmCompareStep ==
  ASSUME IInv, NEW p \in Process, ConfirmCompare(p)
  PROVE  IInv'
<1> DEFINE r == [proc[p] EXCEPT !.pc =
                  IF \E d \in Document \ {proc[p].doc} : link[d] = proc[p].student
                  THEN "conflicting" ELSE "reuse"]
<1>0. proc[p].pc = "compare" /\ proc[p] \in Request /\ Sound(proc[p], region)
  BY DEF ConfirmCompare, IInv, TypeOK, RequestsSound
<1>1. /\ r \in Request /\ Sound(r, region)
  <2>1. r \in Request
    BY <1>0 DEF Request
  <2>2. Sound(r, region)
    BY <1>0 DEF Request, Sound
  <2> QED BY <2>1, <2>2
<1>2. \A d \in Document, q \in Question : ~Owes(proc[p], link[d], d, q)
  BY <1>0 DEF Owes
<1>3. /\ proc' = [proc EXCEPT ![p] = r]
      /\ UNCHANGED <<active, link, resolution, region, answer, gap>>
  BY DEF ConfirmCompare, Goes
<1> HIDE DEF r
<1> QED BY <1>1, <1>2, <1>3, QuietStep

\* A sync takes the student of its document as it is now.
LEMMA SyncReadDocumentStep ==
  ASSUME IInv, NEW p \in Process, SyncReadDocument(p)
  PROVE  IInv'
<1> DEFINE r == IF link[proc[p].doc] = none THEN Idle
                ELSE [proc[p] EXCEPT !.pc = "list", !.student = link[proc[p].doc]]
<1>0. /\ proc[p].pc = "sync" /\ proc[p] \in Request /\ Sound(proc[p], region)
      /\ proc[p].doc \in Document /\ link[proc[p].doc] \in Student \cup {none}
  BY DEF SyncReadDocument, IInv, TypeOK, RequestsSound, Sound
<1>1. /\ r \in Request /\ Sound(r, region)
  <2>1. [proc[p] EXCEPT !.pc = "list", !.student = link[proc[p].doc]] \in Request
    BY <1>0 DEF Request
  <2>2. Sound([proc[p] EXCEPT !.pc = "list", !.student = link[proc[p].doc]], region)
    BY <1>0 DEF Request, Sound
  <2> QED BY <2>1, <2>2, RequestTypes, FreshSound
<1>2. \A d \in Document, q \in Question :
        link[d] # none /\ Owes(proc[p], link[d], d, q) => Owes(r, link[d], d, q)
  BY <1>0 DEF Owes, Request
<1>3. /\ proc' = [proc EXCEPT ![p] = r]
      /\ UNCHANGED <<active, link, resolution, region, answer, gap>>
  BY DEF SyncReadDocument, Goes
<1> HIDE DEF r
<1> QED BY <1>1, <1>2, <1>3, QuietStep

\* A sync lists the mapped regions there are now.
LEMMA SyncListStep ==
  ASSUME IInv, NEW p \in Process, SyncList(p)
  PROVE  IInv'
<1> DEFINE todo == {<<g, region[g].question>> : g \in MappedOf(proc[p].doc)}
           r == IF todo = {} THEN Idle ELSE [proc[p] EXCEPT !.pc = "upsert", !.todo = todo]
<1>0. /\ proc[p].pc = "list" /\ proc[p] \in Request /\ Sound(proc[p], region)
      /\ proc[p].doc \in Document
  BY DEF SyncList, IInv, TypeOK, RequestsSound, Sound
<1>1. /\ r \in Request /\ Sound(r, region)
  <2>1. todo \in SUBSET (Region \X Question)
    BY DrawnRow DEF MappedOf, isMapped, IInv
  <2> HIDE DEF todo
  <2>2. [proc[p] EXCEPT !.pc = "upsert", !.todo = todo] \in Request
    BY <1>0, <2>1 DEF Request
  <2>3. Sound([proc[p] EXCEPT !.pc = "upsert", !.todo = todo], region)
    BY <1>0 DEF Request, Sound
  <2> QED BY <2>2, <2>3, RequestTypes, FreshSound
<1>2. ASSUME NEW d \in Document, NEW g \in Region, NEW q \in Question,
             region[g] = Drawn(d, q), Owes(proc[p], link[d], d, q)
      PROVE  Owes(r, link[d], d, q)
  <2>1. d = proc[p].doc /\ proc[p].student = link[d]
    BY <1>0, <1>2 DEF Owes
  <2>2. <<g, q>> \in todo
    BY <1>2, <2>1, MappedRow
  <2> HIDE DEF todo
  <2>3. r = [proc[p] EXCEPT !.pc = "upsert", !.todo = todo]
    BY <2>2
  <2> QED BY <1>0, <2>1, <2>2, <2>3 DEF Owes, Request
<1>3. /\ proc' = [proc EXCEPT ![p] = r]
      /\ UNCHANGED <<active, link, resolution, region, answer, gap>>
  BY DEF SyncList, Goes
<1> HIDE DEF r
<1> QED BY <1>1, <1>2, <1>3, QuietStep

-----------------------------------------------------------------------------
(* Steps that draw, confirm or answer.                                     *)

\* What an attempt or a mark adds takes no answer away.
LEMMA AroundStep ==
  ASSUME IInv, (\E s \in Student : CreateAttempt(s)) \/ (\E pair \in Pair : Approve(pair))
  PROVE  IInv'
<1>1. CASE \E s \in Student : CreateAttempt(s)
  <2>1. PICK s \in Student : CreateAttempt(s)
    BY <1>1
  <2>2. TypeOK' /\ LinkIsResolved'
    BY <2>1 DEF CreateAttempt, IInv, TypeOK, LinkIsResolved
  <2>3. RequestsSound' /\ Covered'
    BY <2>1 DEF CreateAttempt, IInv, RequestsSound, Covered, exists
  <2> QED BY <2>2, <2>3 DEF IInv
<1>2. CASE \E pair \in Pair : Approve(pair)
  <2>1. PICK pair \in Pair : Approve(pair)
    BY <1>2
  <2>2. TypeOK' /\ LinkIsResolved'
    BY <2>1 DEF Approve, IInv, TypeOK, Answer, LinkIsResolved
  <2>3. RequestsSound'
    BY <2>1 DEF Approve, IInv, RequestsSound
  <2>4. \A x \in Pair : answer'[x].region = answer[x].region
    BY <2>1 DEF Approve, IInv, TypeOK, Answer
  <2>5. ASSUME NEW d \in Document, link[d] # none, NEW q \in Question
        PROVE  answer'[<<link[d], q>>].region = answer[<<link[d], q>>].region
    BY <2>4, <2>5 DEF IInv, TypeOK, Pair
  <2>6. Covered'
    BY <2>1, <2>5 DEF Approve, IInv, Covered, exists
  <2> QED BY <2>2, <2>3, <2>4, <2>6 DEF IInv
<1> QED BY <1>1, <1>2

\* A region that is drawn by hand.
LEMMA CreateRegionStep ==
  ASSUME IInv, NEW p \in Process, NEW d \in Document, NEW g \in Region,
         NEW q \in Question \cup {none}, CreateRegion(p, d, g, q)
  PROVE  IInv'
<1>0. /\ proc[p].pc = "idle" /\ region[g] = Undrawn /\ proc' = [proc EXCEPT ![p] = Sync(d)]
      /\ region' = [region EXCEPT ![g] = Drawn(d, q)]
      /\ UNCHANGED <<active, link, resolution, answer, gap>>
  BY DEF CreateRegion, Goes
<1>1. TypeOK'
  BY <1>0, RequestTypes, RowTypes DEF IInv, TypeOK
<1>2. LinkIsResolved'
  BY <1>0 DEF IInv, LinkIsResolved
<1>3. RequestsSound'
  <2>1. Undrawn # Deleted
    BY DEF Undrawn, Deleted
  <2>2. \A h \in Region :
          /\ region[h] = Deleted => region'[h] = Deleted
          /\ region[h] = Undrawn \/ region'[h] = Deleted \/ region'[h].doc = region[h].doc
    BY <1>0, <2>1 DEF IInv, TypeOK
  <2> QED BY <1>0, <2>2, FreshSound, RequestsStaySound
<1>4. Covered'
  <2>1. ASSUME NEW d2 \in Document, NEW g2 \in Region, NEW q2 \in Question,
               region'[g2] = Drawn(d2, q2)
        PROVE  d2 = d \/ region[g2] = Drawn(d2, q2)
    BY <1>0, <2>1 DEF IInv, TypeOK, Drawn
  <2>2. \A s, d2, q2 : ~Owes(proc[p], s, d2, q2)
    BY <1>0 DEF Owes
  <2>3. KeepsCover(p, Sync(d))
    BY <1>0, <2>1, <2>2, SyncOwes DEF KeepsCover
  <2> QED BY <1>0, <2>3, CoverageStep
<1> QED BY <1>1, <1>2, <1>3, <1>4 DEF IInv

\* A region that the detection draws, which will be synced at its end.
LEMMA DetectAddStep ==
  ASSUME IInv, NEW p \in Process, NEW g \in Region, NEW q \in Question \cup {none},
         DetectAdd(p, g, q)
  PROVE  IInv'
<1> DEFINE r == [proc[p] EXCEPT !.region = g]
<1>0. /\ proc[p].pc = "detecting" /\ region[g] = Undrawn /\ proc' = [proc EXCEPT ![p] = r]
      /\ region' = [region EXCEPT ![g] = Drawn(proc[p].doc, q)]
      /\ UNCHANGED <<active, link, resolution, answer, gap>>
  BY DEF DetectAdd, Goes
<1>a. proc[p] \in Request /\ proc[p].doc \in Document
  BY <1>0 DEF IInv, TypeOK, RequestsSound, Sound
<1>b. /\ r \in Request /\ r.pc = "detecting" /\ r.doc = proc[p].doc /\ r.region = g
  BY <1>0, <1>a DEF Request
<1> HIDE DEF r
<1>1. TypeOK'
  BY <1>0, <1>a, <1>b, RowTypes DEF IInv, TypeOK
<1>2. LinkIsResolved'
  BY <1>0 DEF IInv, LinkIsResolved
<1>3. RequestsSound'
  <2>1. Undrawn # Deleted
    BY DEF Undrawn, Deleted
  <2>2. \A h \in Region :
          /\ region[h] = Deleted => region'[h] = Deleted
          /\ region[h] = Undrawn \/ region'[h] = Deleted \/ region'[h].doc = region[h].doc
    BY <1>0, <2>1 DEF IInv, TypeOK
  <2>3. Sound(r, region')
    BY <1>a, <1>b DEF Sound
  <2> QED BY <1>0, <2>2, <2>3, RequestsStaySound
<1>4. Covered'
  <2>1. ASSUME NEW d2 \in Document, NEW g2 \in Region, NEW q2 \in Question,
               region'[g2] = Drawn(d2, q2)
        PROVE  d2 = r.doc \/ region[g2] = Drawn(d2, q2)
    BY <1>0, <1>b, <2>1 DEF IInv, TypeOK, Drawn
  <2>2. \A s, d2, q2 : d2 = r.doc => Owes(r, s, d2, q2)
    BY <1>b DEF Owes
  <2>3. \A s, d2, q2 : d2 # r.doc => ~Owes(proc[p], s, d2, q2)
    BY <1>b DEF Owes
  <2>4. KeepsCover(p, r)
    BY <1>0, <2>1, <2>2, <2>3 DEF KeepsCover
  <2> QED BY <1>0, <2>4, CoverageStep
<1> QED BY <1>1, <1>2, <1>3, <1>4 DEF IInv

\* A region that gets another question, and is synced.
LEMMA RemapMoveStep ==
  ASSUME IInv, NEW p \in Process, RemapMove(p)
  PROVE  IInv'
<1> DEFINE g == proc[p].region
           d == proc[p].doc
           q == proc[p].question
<1>0. /\ proc[p].pc = "moving" /\ isDrawn(g) /\ proc' = [proc EXCEPT ![p] = Sync(d)]
      /\ region' = [region EXCEPT ![g].question = q]
      /\ UNCHANGED <<active, link, resolution, answer, gap>>
  BY DEF RemapMove, RemapMoveThen, Goes
<1>a. /\ proc[p] \in Request /\ d \in Document /\ g \in Region /\ q \in Question \cup {none}
      /\ region[g] = Deleted \/ region[g].doc = d
  BY <1>0 DEF IInv, TypeOK, RequestsSound, Sound, Request
<1> HIDE DEF g, d, q
<1>b. /\ region[g].doc = d /\ region[g] = Drawn(d, region[g].question)
  BY <1>0, <1>a, DrawnRow DEF isDrawn, Deleted, IInv
<1>c. region' = [region EXCEPT ![g] = Drawn(d, q)]
  <2>1. [region[g] EXCEPT !.question = q] = Drawn(d, q)
    BY <1>b DEF Drawn
  <2>2. region' = [region EXCEPT ![g] = [region[g] EXCEPT !.question = q]]
    BY <1>0
  <2> QED BY <2>1, <2>2
<1>1. TypeOK'
  BY <1>0, <1>a, <1>c, RequestTypes, RowTypes DEF IInv, TypeOK
<1>2. LinkIsResolved'
  BY <1>0 DEF IInv, LinkIsResolved
<1>3. RequestsSound'
  <2>1. region[g] # Deleted
    BY <1>0 DEF isDrawn, Deleted
  <2>2. \A h \in Region :
          /\ region[h] = Deleted => region'[h] = Deleted
          /\ region[h] = Undrawn \/ region'[h] = Deleted \/ region'[h].doc = region[h].doc
    BY <1>a, <1>b, <1>c, <2>1 DEF IInv, TypeOK, Drawn
  <2> QED BY <1>0, <1>a, <2>2, FreshSound, RequestsStaySound
<1>4. Covered'
  <2>1. ASSUME NEW d2 \in Document, NEW g2 \in Region, NEW q2 \in Question,
               region'[g2] = Drawn(d2, q2)
        PROVE  d2 = d \/ region[g2] = Drawn(d2, q2)
    BY <1>a, <1>c, <2>1 DEF IInv, TypeOK, Drawn
  <2>2. \A s, d2, q2 : d2 # d => ~Owes(proc[p], s, d2, q2)
    BY DEF Owes, d
  <2>3. KeepsCover(p, Sync(d))
    BY <1>0, <2>1, <2>2, SyncOwes DEF KeepsCover
  <2> QED BY <1>0, <2>3, CoverageStep
<1> QED BY <1>1, <1>2, <1>3, <1>4 DEF IInv

\* A confirmation that leaves its document with the other one's student.
LEMMA ConfirmConflictStep ==
  ASSUME IInv, NEW p \in Process, ConfirmConflict(p)
  PROVE  IInv'
<1>0. /\ proc[p].pc = "conflicting" /\ proc' = [proc EXCEPT ![p] = Idle]
      /\ resolution' = [resolution EXCEPT ![proc[p].doc].status = "CONFLICT"]
      /\ UNCHANGED <<active, link, region, answer, gap>>
  BY DEF ConfirmConflict, Goes
<1>1. TypeOK'
  BY <1>0, RequestTypes DEF IInv, TypeOK, Resolution
<1>2. LinkIsResolved'
  BY <1>0 DEF IInv, TypeOK, Resolution, LinkIsResolved
<1>3. RequestsSound'
  BY <1>0, FreshSound, RequestsStaySound
<1>4. Covered'
  <2>1. \A s, d2, q2 : ~Owes(proc[p], s, d2, q2)
    BY <1>0 DEF Owes
  <2>2. KeepsCover(p, Idle)
    BY <1>0, <2>1 DEF KeepsCover
  <2> QED BY <1>0, <2>2, CoverageStep
<1> QED BY <1>1, <1>2, <1>3, <1>4 DEF IInv

\* A confirmation that links its document, and syncs it.
LEMMA ConfirmCommitStep ==
  ASSUME IInv, NEW p \in Process, ConfirmCommit(p)
  PROVE  IInv'
<1> DEFINE d == proc[p].doc
           s == proc[p].student
<1>0. /\ proc[p].pc \in {"reuse", "create"} /\ proc' = [proc EXCEPT ![p] = Sync(d)]
      /\ active' = active \cup {s}
      /\ link' = [link EXCEPT ![d] = s]
      /\ resolution' = [resolution EXCEPT ![d] = [status |-> "MANUALLY_CONFIRMED", student |-> s]]
      /\ UNCHANGED <<region, answer, gap>>
  BY DEF ConfirmCommit, ConfirmAs, Goes
<1>a. d \in Document /\ s \in Student
  BY <1>0 DEF IInv, RequestsSound, Sound
<1> HIDE DEF d, s
<1>1. TypeOK'
  BY <1>0, <1>a, RequestTypes DEF IInv, TypeOK, Resolution
<1>2. LinkIsResolved'
  BY <1>0, <1>a DEF IInv, TypeOK, Resolution, LinkIsResolved
<1>3. RequestsSound'
  BY <1>0, <1>a, FreshSound, RequestsStaySound
<1>4. Covered'
  <2>1. \A s2, d2, q2 : ~Owes(proc[p], s2, d2, q2)
    BY <1>0 DEF Owes
  <2>2. \A d2 \in Document : d2 # d => link'[d2] = link[d2]
    BY <1>0, <1>a DEF IInv, TypeOK
  <2>3. KeepsCover(p, Sync(d))
    BY <1>0, <2>1, <2>2, SyncOwes DEF KeepsCover
  <2> QED BY <1>0, <2>3, CoverageStep
<1> QED BY <1>1, <1>2, <1>3, <1>4 DEF IInv

\* A sync that gives one of its regions its answer.
LEMMA SyncUpsertStep ==
  ASSUME IInv, NEW p \in Process, NEW g \in Region, NEW q \in Question, SyncUpsert(p, g, q)
  PROVE  IInv'
<1> DEFINE todo == proc[p].todo \ {<<g, q>>}
           r == IF todo = {} THEN Idle ELSE [proc[p] EXCEPT !.todo = todo]
           mine == <<proc[p].student, q>>
<1>0. /\ proc[p].pc = "upsert" /\ proc' = [proc EXCEPT ![p] = r]
      /\ answer' = [answer EXCEPT ![mine].region = g]
      /\ UNCHANGED <<active, link, resolution, region, gap>>
  BY DEF SyncUpsert, Goes
<1>a. proc[p] \in Request /\ Sound(proc[p], region)
  BY DEF IInv, TypeOK, RequestsSound
<1>b. /\ r \in Request /\ Sound(r, region')
  <2>1. [proc[p] EXCEPT !.todo = todo] \in Request
    BY <1>a DEF Request
  <2>2. Sound([proc[p] EXCEPT !.todo = todo], region')
    BY <1>0, <1>a DEF Request, Sound
  <2> QED BY <2>1, <2>2, RequestTypes, FreshSound
<1>c. \A d2 \in Document, q2 \in Question :
        Owes(proc[p], link[d2], d2, q2) => <<link[d2], q2>> = mine \/ Owes(r, link[d2], d2, q2)
  <2> SUFFICES ASSUME NEW d2 \in Document, NEW q2 \in Question,
                      Owes(proc[p], link[d2], d2, q2), q2 # q
               PROVE  Owes(r, link[d2], d2, q2)
    BY <1>0 DEF Owes
  <2>1. PICK h \in Region : <<h, q2>> \in proc[p].todo
    BY <1>0 DEF Owes
  <2>2. <<h, q2>> \in todo
    BY <2>1
  <2> HIDE DEF todo
  <2>3. r = [proc[p] EXCEPT !.todo = todo]
    BY <2>2
  <2> QED BY <1>0, <1>a, <2>2, <2>3 DEF Owes, Request
<1>d. /\ \A x \in Pair : x # mine => answer'[x] = answer[x]
      /\ mine \in Pair => answer'[mine].region = g
  BY <1>0 DEF IInv, TypeOK, Answer
<1> HIDE DEF r, mine
<1>1. TypeOK'
  BY <1>0, <1>b DEF IInv, TypeOK, Answer
<1>2. LinkIsResolved'
  BY <1>0 DEF IInv, LinkIsResolved
<1>3. RequestsSound'
  BY <1>0, <1>b, RequestsStaySound
<1>4. Covered'
  <2>1. ASSUME NEW d2 \in Document, NEW q2 \in Question, link[d2] # none
        PROVE  <<link[d2], q2>> \in Pair
    BY <2>1 DEF IInv, TypeOK, Pair
  <2>2. g # none
    OBVIOUS
  <2>3. KeepsCover(p, r)
    BY <1>0, <1>c, <1>d, <2>1, <2>2 DEF KeepsCover
  <2> QED BY <1>0, <2>3, CoverageStep
<1> QED BY <1>1, <1>2, <1>3, <1>4 DEF IInv

\* A request that fails leaves what it owed as a gap.
LEMMA FailStep ==
  ASSUME IInv, NEW p \in Process, Fail(p)
  PROVE  IInv'
<1>0. /\ proc' = [proc EXCEPT ![p] = Idle]
      /\ gap' = IF proc[p].pc \in {"moving", "detecting", "sync", "list", "upsert"}
                THEN [gap EXCEPT ![proc[p].doc] = "failure"] ELSE gap
      /\ UNCHANGED <<active, link, resolution, region, answer>>
  BY DEF Fail, Goes
<1>1. TypeOK'
  BY <1>0, RequestTypes DEF IInv, TypeOK
<1>2. LinkIsResolved'
  BY <1>0 DEF IInv, LinkIsResolved
<1>3. RequestsSound'
  BY <1>0, FreshSound, RequestsStaySound
<1>4. Covered'
  <2>1. ASSUME NEW d2 \in Document, NEW s, NEW q2, gap'[d2] = "none"
        PROVE  gap[d2] = "none" /\ ~Owes(proc[p], s, d2, q2)
    BY <1>0, <2>1 DEF IInv, TypeOK, Owes
  <2>2. KeepsCover(p, Idle)
    BY <1>0, <2>1 DEF KeepsCover
  <2> QED BY <1>0, <2>2, CoverageStep
<1> QED BY <1>1, <1>2, <1>3, <1>4 DEF IInv

-----------------------------------------------------------------------------
(* Steps that take answers away.                                           *)

\* Where an answer another region needs is taken away, a gap is recorded.
LEMMA DiscardLeavesAnswers ==
  ASSUME IInv, NEW g \in Region, NEW docs, Discard(AnswersOf(g)),
         Lost(docs),
         NEW d \in Document, NEW h \in Region, NEW q \in Question,
         region[h] = Drawn(d, q), h # g, link[d] # none, gap'[d] = "none",
         d \in NeededBy(AnswersOf(g), g) => d \in docs
  PROVE  gap[d] = "none" /\ answer'[<<link[d], q>>] = answer[<<link[d], q>>]
<1>1. h \in MappedOf(d) /\ region[h].question = q
  BY MappedRow
<1>2. gap[d] = "none" /\ d \notin NeededBy(AnswersOf(g), g)
  BY DEF Lost, IInv, TypeOK
<1>3. <<link[d], q>> \in Pair /\ <<link[d], q>> \notin AnswersOf(g)
  <2>1. <<link[d], q>> \in Pair
    BY DEF IInv, TypeOK, Pair
  <2>2. <<link[d], q>> \notin AnswersOf(g)
    BY <1>1, <1>2 DEF NeededBy
  <2> QED BY <2>1, <2>2
<1> QED BY <1>2, <1>3 DEF Discard

\* What is left are answers.
LEMMA DiscardTypes ==
  ASSUME TypeOK, NEW pairs, NEW docs, Discard(pairs), Lost(docs)
  PROVE  /\ answer' \in [Pair -> Answer]
         /\ gap' \in [Document -> {"none", "deletion", "failure"}]
<1>1. NoAnswer \in Answer
  BY DEF NoAnswer, Answer
<1>2. answer' \in [Pair -> Answer]
  BY <1>1 DEF TypeOK, Discard
<1>3. gap' \in [Document -> {"none", "deletion", "failure"}]
  BY DEF TypeOK, Lost
<1> QED BY <1>2, <1>3

\* A remap that drops the answers of its region, before it moves it.
LEMMA RemapDiscardStep ==
  ASSUME IInv, NEW p \in Process, RemapDiscard(p)
  PROVE  IInv'
<1> DEFINE r == [proc[p] EXCEPT !.pc = "moving", !.consent = FALSE]
           g == proc[p].region
<1>0. /\ proc[p].pc = "remapping" /\ proc' = [proc EXCEPT ![p] = r]
      /\ Discard(AnswersOf(g)) /\ Lost(NeededBy(AnswersOf(g), g) \ {proc[p].doc})
      /\ UNCHANGED <<active, link, resolution, region>>
  BY DEF RemapDiscard, Goes
<1>a. /\ proc[p] \in Request /\ Sound(proc[p], region)
      /\ g \in Region /\ (region[g] = Deleted \/ region[g].doc = proc[p].doc)
  BY <1>0 DEF IInv, TypeOK, RequestsSound, Sound
<1>b. /\ r \in Request /\ r.pc = "moving" /\ r.doc = proc[p].doc /\ Sound(r, region')
  BY <1>0, <1>a DEF Request, Sound
<1> HIDE DEF r, g
<1>1. TypeOK'
  BY <1>0, <1>b, DiscardTypes DEF IInv, TypeOK
<1>2. LinkIsResolved'
  BY <1>0 DEF IInv, LinkIsResolved
<1>3. RequestsSound'
  BY <1>0, <1>b, RequestsStaySound
<1>4. Covered'
  <2>1. \A s, d2, q2 : ~Owes(proc[p], s, d2, q2)
    BY <1>0 DEF Owes
  <2>2. \A s, q2 : Owes(r, s, proc[p].doc, q2)
    BY <1>b DEF Owes
  <2>3. ASSUME NEW d2 \in Document, NEW h \in Region, NEW q2 \in Question,
               region[h] = Drawn(d2, q2), d2 # proc[p].doc
        PROVE  h # g
    BY <1>a, <2>3 DEF Drawn, Deleted
  <2>4. ASSUME NEW d2 \in Document, NEW h \in Region, NEW q2 \in Question,
               region[h] = Drawn(d2, q2), d2 # proc[p].doc, link[d2] # none, gap'[d2] = "none"
        PROVE  gap[d2] = "none" /\ answer'[<<link[d2], q2>>] = answer[<<link[d2], q2>>]
    <3>1. /\ h # g
          /\ d2 \in NeededBy(AnswersOf(g), g) => d2 \in NeededBy(AnswersOf(g), g) \ {proc[p].doc}
      BY <2>3, <2>4
    <3> QED BY <1>0, <1>a, <2>4, <3>1, DiscardLeavesAnswers
  <2>5. KeepsCover(p, r)
    BY <1>0, <2>1, <2>2, <2>4 DEF KeepsCover
  <2> QED BY <1>0, <2>5, CoverageStep
<1> QED BY <1>1, <1>2, <1>3, <1>4 DEF IInv

\* A deletion of a region with its answers.
LEMMA DeleteCommitStep ==
  ASSUME IInv, NEW p \in Process, DeleteCommit(p)
  PROVE  IInv'
<1> DEFINE g == proc[p].region
<1>0. /\ proc[p].pc = "deleting" /\ proc' = [proc EXCEPT ![p] = Idle]
      /\ Discard(AnswersOf(g)) /\ Lost(NeededBy(AnswersOf(g), g))
      /\ region' = [region EXCEPT ![g] = Deleted]
      /\ UNCHANGED <<active, link, resolution>>
  BY DEF DeleteCommit, Goes
<1>a. g \in Region
  BY <1>0 DEF IInv, RequestsSound, Sound
<1> HIDE DEF g
<1>b. \A h \in Region : IF h = g THEN region'[h] = Deleted ELSE region'[h] = region[h]
  BY <1>0, <1>a DEF IInv, TypeOK
<1>1. TypeOK'
  BY <1>0, RequestTypes, RowTypes, DiscardTypes DEF IInv, TypeOK
<1>2. LinkIsResolved'
  BY <1>0 DEF IInv, LinkIsResolved
<1>3. RequestsSound'
  BY <1>0, <1>b, FreshSound, RequestsStaySound
<1>4. Covered'
  <2>1. \A s, d2, q2 : ~Owes(proc[p], s, d2, q2)
    BY <1>0 DEF Owes
  <2>2. ASSUME NEW d2 \in Document, NEW h \in Region, NEW q2 \in Question,
               region'[h] = Drawn(d2, q2)
        PROVE  h # g /\ region[h] = Drawn(d2, q2)
    BY <1>b, <2>2 DEF Drawn, Deleted
  <2>3. ASSUME NEW d2 \in Document, NEW h \in Region, NEW q2 \in Question,
               region'[h] = Drawn(d2, q2), link[d2] # none, gap'[d2] = "none"
        PROVE  gap[d2] = "none" /\ answer'[<<link[d2], q2>>] = answer[<<link[d2], q2>>]
    <3>1. h # g /\ region[h] = Drawn(d2, q2)
      BY <2>2, <2>3
    <3> QED BY <1>0, <1>a, <2>3, <3>1, DiscardLeavesAnswers
  <2>4. KeepsCover(p, Idle)
    BY <1>0, <2>1, <2>2, <2>3 DEF KeepsCover
  <2> QED BY <1>0, <2>4, CoverageStep
<1> QED BY <1>1, <1>2, <1>3, <1>4 DEF IInv

-----------------------------------------------------------------------------
(* The invariant.                                                          *)

\* Before anything is drawn or linked.
LEMMA InitInvariant == Init => IInv
<1> SUFFICES ASSUME Init PROVE IInv
  OBVIOUS
<1>1. TypeOK
  BY RequestTypes, RowTypes DEF Init, TypeOK, Resolution, NoAnswer, Answer
<1>2. LinkIsResolved
  BY DEF Init, LinkIsResolved
<1>3. RequestsSound
  BY FreshSound DEF Init, RequestsSound
<1>4. Covered
  BY DEF Init, Covered
<1> QED BY <1>1, <1>2, <1>3, <1>4 DEF IInv

\* Every step keeps it.
LEMMA StepInvariant == IInv /\ [Next]_vars => IInv'
<1> SUFFICES ASSUME IInv, [Next]_vars PROVE IInv'
  OBVIOUS
<1>1. CASE UNCHANGED vars
  BY <1>1 DEF vars, IInv, TypeOK, LinkIsResolved, RequestsSound, Covered, exists
<1>2. CASE (\E s \in Student : CreateAttempt(s)) \/ (\E pair \in Pair : Approve(pair))
  BY <1>2, AroundStep
<1>3. ASSUME NEW p \in Process, RegionNext(p) PROVE IInv'
  BY <1>3, CreateRegionStep, DetectReadStep, DetectAddStep, DetectEndStep, RedrawStep,
     RemapReadStep, DeleteCheckStep, RemapCheckStep, RemapDiscardStep, RemapMoveStep,
     DeleteCommitStep DEF RegionNext
<1>4. ASSUME NEW p \in Process, ConfirmNext(p) PROVE IInv'
  BY <1>4, ConfirmReadStep, ConfirmFindAttemptStep, ConfirmCompareStep, ConfirmConflictStep,
     ConfirmCommitStep DEF ConfirmNext
<1>5. ASSUME NEW p \in Process, SyncNext(p) PROVE IInv'
  BY <1>5, SyncReadDocumentStep, SyncListStep, SyncUpsertStep DEF SyncNext
<1>6. ASSUME NEW p \in Process, Fail(p) PROVE IInv'
  BY <1>6, FailStep
<1> QED BY <1>1, <1>2, <1>3, <1>4, <1>5, <1>6 DEF Next

\* When no request runs, none owes an answer: those there should be are there.
LEMMA CoveredAtRest == IInv => MappedIsAnswered
<1> SUFFICES ASSUME IInv, AtRest, NEW d \in Document, gap[d] = "none",
                    NEW g \in Unanswered(d)
             PROVE  FALSE
  BY DEF MappedIsAnswered
<1>1. /\ g \in Region /\ isDrawn(g) /\ region[g].doc = d /\ region[g].question # none
      /\ link[d] # none /\ ~exists(<<link[d], region[g].question>>)
  BY DEF Unanswered, MappedOf, isMapped
<1>2. region[g].question \in Question /\ region[g] = Drawn(d, region[g].question)
  BY <1>1, DrawnRow DEF IInv
<1>3. PICK p \in Process : Owes(proc[p], link[d], d, region[g].question)
  BY <1>1, <1>2 DEF IInv, Covered
<1> QED BY <1>3 DEF AtRest, Owes

\* So it holds throughout.
LEMMA Invariant == Spec => []IInv
BY InitInvariant, StepInvariant, PTL DEF Spec

-----------------------------------------------------------------------------
(* Theorems                                                                *)

\* The rows and requests are always what their types say.
THEOREM TypeCorrect == Spec => []TypeOK
<1>1. IInv => TypeOK
  BY DEF IInv
<1> QED BY <1>1, Invariant, PTL

\* However many confirmations interleave, and over whatever resolutions, a
\* document is linked to the student its resolution names.
THEOREM LinksFollowResolutions == Spec => []LinkIsResolved
<1>1. IInv => LinkIsResolved
  BY DEF IInv
<1> QED BY <1>1, Invariant, PTL

\* However many regions are drawn, moved and deleted by however many requests,
\* no order of them and of confirmations leaves a mapped region unanswered:
\* only a deletion on behalf of another region, or a request that fails, does.
THEOREM MappedRegionsAreAnswered == Spec => []MappedIsAnswered
BY Invariant, CoveredAtRest, PTL

-----------------------------------------------------------------------------
(* PdfSplit                                                                *)

\* Only a PDF is queued, split, or has a job.
SplitsArePdf ==
  /\ file = "none" => pages = 0 /\ \A q \in Caller : request[q] \in {"idle", "gone"}
  /\ \A q \in Caller : request[q] \in Enqueuing => isPdf
  /\ job # NoJob => isPdf
  /\ \A r \in Run : run[r] # "idle" => isPdf

SplitInv == SplitTypeOK /\ JobSound(job) /\ SplitsArePdf

\* The initial state satisfies the invariant.
LEMMA SplitInitInv == SplitInit => SplitInv
<1> SUFFICES ASSUME SplitInit PROVE SplitInv
  OBVIOUS
<1>1. SplitTypeOK /\ JobSound(job)
  BY NewJobs DEF SplitInit, SplitTypeOK, File
<1>2. SplitsArePdf
  BY DEF SplitInit, SplitsArePdf, Enqueuing
<1> QED BY <1>1, <1>2 DEF SplitInv

\* A request keeps the invariant: only one that found a PDF goes on to queue it.
LEMMA SplitRequestKeeps ==
  ASSUME SplitInv, NEW q \in Caller, RequestNext(q)
  PROVE  SplitInv'
<1> USE DEF SplitInv, SplitTypeOK, SplitsArePdf, isPdf, Enqueuing
<1>1. CASE UploadImages(q)
  BY <1>1 DEF UploadImages, File
<1>2. CASE UploadPdf(q)
  BY <1>2 DEF UploadPdf, File
<1>3. CASE ResetStages(q)
  BY <1>3 DEF ResetStages
<1>4. CASE ResetStatus(q)
  BY <1>4 DEF ResetStatus
<1>5. CASE CountPages(q)
  BY <1>5 DEF CountPages
<1>6. CASE EnqueuePdfSplit(q)
  <2>1. request[q] \in Enqueuing
    BY <1>6 DEF EnqueuePdfSplit
  <2>2. job' \in Job /\ JobSound(job')
    BY <1>6, <2>1, Enqueueing DEF EnqueuePdfSplit
  <2>3. EnqueueMoves(request[q], job) \in {"idle"} \cup Enqueuing
    BY <2>1, EnqueueReturns
  <2>4. request' = [request EXCEPT ![q] = EnqueueMoves(request[q], job)]
    BY <1>6 DEF EnqueuePdfSplit
  <2> QED BY <1>6, <2>1, <2>2, <2>3, <2>4 DEF EnqueuePdfSplit
<1>7. CASE GiveUp(q)
  BY <1>7 DEF GiveUp
<1> QED BY <1>1, <1>2, <1>3, <1>4, <1>5, <1>6, <1>7 DEF RequestNext

\* A run keeps the invariant: it commits its pages only if there are none.
LEMMA SplitRunKeeps ==
  ASSUME SplitInv, NEW r \in Run, RunNext(r)
  PROVE  SplitInv'
<1> USE DEF SplitInv, SplitTypeOK, SplitsArePdf, isPdf
<1>1. CASE StartRun(r)
  <2>1. job' \in Job /\ JobSound(job') /\ isPdf
    BY <1>1, Taking DEF StartRun
  <2> QED BY <1>1, <2>1 DEF StartRun
<1>2. CASE ReadDocument(r) \/ Render(r) \/ OpenTransaction(r)
  BY <1>2 DEF ReadDocument, Render, OpenTransaction
<1>3. CASE FailStatus(r) \/ FailValidate(r)
  BY <1>3 DEF FailStatus, FailValidate
<1>4. CASE CommitPages(r)
  BY <1>4 DEF CommitPages, StorePages
<1>5. CASE CompleteRun(r) \/ FailRun(r) \/ LosePages(r)
  <2>1. job' \in Job /\ JobSound(job') /\ isPdf
    BY <1>5, Reporting DEF CompleteRun, FailRun, LosePages, Throw
  <2> QED BY <1>5, <2>1 DEF CompleteRun, FailRun, LosePages, Throw
<1>6. CASE StallRun(r)
  <2>1. job' \in Job /\ JobSound(job') /\ isPdf
    BY <1>6, Stalling, Holding DEF StallRun
  <2> QED BY <1>6, <2>1 DEF StallRun
<1> QED BY <1>1, <1>2, <1>3, <1>4, <1>5, <1>6 DEF RunNext, SplitStep

\* The invariant is inductive.
LEMMA SplitStepInv == SplitInv /\ [SplitNext]_splitVars => SplitInv'
<1> SUFFICES ASSUME SplitInv, [SplitNext]_splitVars PROVE SplitInv'
  OBVIOUS
<1>1. CASE UNCHANGED splitVars
  BY <1>1 DEF splitVars, SplitInv, SplitTypeOK, SplitsArePdf, isPdf, JobSound
<1>2. CASE PromoteJob
  <2>1. job' \in Job /\ JobSound(job') /\ isPdf
    BY <1>2, Promoting DEF PromoteJob, SplitInv, SplitTypeOK, SplitsArePdf
  <2> QED BY <1>2, <2>1 DEF PromoteJob, SplitInv, SplitTypeOK, SplitsArePdf, isPdf
<1> QED BY <1>1, <1>2, SplitRequestKeeps, SplitRunKeeps DEF SplitNext

\* The document, its job and its runs keep their types, and the document has
\* its pages at most once, however runs overlap.
THEOREM SplitTypeCorrect == SplitSpec => []SplitTypeOK
<1>1. SplitInv => SplitTypeOK
  BY DEF SplitInv
<1> QED BY SplitInitInv, SplitStepInv, <1>1, PTL DEF SplitSpec
=============================================================================
