-------------------------- MODULE EvaluationProofs --------------------------
(***************************************************************************)
(* Proofs about module Evaluation, for any number of answers, workers,     *)
(* requests and administrators and any bounds; and about module Mastery,   *)
(* what a committed mark does next: each weakness is answered once and     *)
(* each claim is kept, for any number of sets, calculations and attempts.  *)
(***************************************************************************)
EXTENDS Evaluation, Mastery, JobQueueProofs, SequenceTheorems, FiniteSetTheorems

-----------------------------------------------------------------------------
(* The inductive invariant.  TypeOK is not inductive alone: a position     *)
(* updated in versions has to exist.  That positions held by a process     *)
(* stay meaningful rests on versions being append-only in their sources.   *)

HasVersion(r, n) == n \in 1 .. Len(versions[r])

\* A null pointer or an existing version; only answers with rows have one.
PointerInv ==
  /\ Collected \subseteq present
  /\ row \subseteq present
  /\ discarded \subseteq present
  /\ \A r \in Response :
       current[r] # 0 => r \in row /\ HasVersion(r, current[r])

StatusInv ==
  \A r \in Response :
    /\ current[r] = 0 => status[r] = "PENDING"
    /\ isAiVersion(r, current[r]) => status[r] = "AI_SUGGESTED"
    /\ isHumanApproved(r) => status[r] \in {"TEACHER_REVIEWED", "REVIEWER_FINALIZED"}

\* What an AI call has read was not a human's mark, and never becomes one.
AiHolds(e) ==
  ai[e].pc # "idle" =>
    LET r == ai[e].resp IN
    /\ r \in present
    /\ ai[e].pc # "opening" => r \in row
    /\ ai[e].expected # 0 => HasVersion(r, ai[e].expected)
    /\ ~isHumanVersion(r, ai[e].expected)
    /\ ai[e].pc \in {"claiming", "discarding", "scoring"} =>
         HasVersion(r, ai[e].mine) /\ isAiVersion(r, ai[e].mine)

DeskHolds(d) ==
  desk[d].pc # "idle" =>
    LET r == desk[d].resp IN
    /\ r \in present
    /\ desk[d].pc # "opening" => r \in row
    /\ desk[d].pc = "pointing" =>
         HasVersion(r, desk[d].mine) /\ isHumanVersion(r, desk[d].mine)

\* An answer loaded with a human's mark still has one.
SheetHolds(s) ==
  sheet[s].pc = "loaded" =>
    /\ sheet[s].answers \subseteq present
    /\ \A r \in Response :
         /\ sheet[s].seen[r] # 0 => HasVersion(r, sheet[s].seen[r])
         /\ isHumanVersion(r, sheet[s].seen[r]) => isHumanApproved(r)

\* A gate that was passed stays passed for the answers collected in time.
GateHolds(a) ==
  Graded /\ admin[a].pc = "gated" => \A r \in Collected \ discarded : isHumanApproved(r)

IInv ==
  /\ TypeOK
  /\ PointerInv
  /\ StatusInv
  /\ \A e \in Evaluator : AiHolds(e)
  /\ \A d \in Desk : DeskHolds(d)
  /\ \A s \in Sheet : SheetHolds(s)
  /\ \A a \in Admin : GateHolds(a)
  /\ LockedIsMarked

-----------------------------------------------------------------------------
(* Updates of one answer's versions.                                       *)

SameSources(s, t) ==
  Len(s) <= Len(t) /\ \A n \in 1 .. Len(s) : t[n].source = s[n].source

\* Setting a flag of an existing version keeps the sequence typed, its
\* length and every source.
LEMMA FlagVersion ==
  ASSUME NEW s \in Seq(Version), NEW n \in 1 .. Len(s), NEW t,
         \/ t = [s EXCEPT ![n].published = TRUE]
         \/ t = [s EXCEPT ![n].deleted = TRUE]
         \/ t = [s EXCEPT ![n].criteria = TRUE]
  PROVE  t \in Seq(Version) /\ Len(t) = Len(s) /\ SameSources(s, t)
<1>1. s[n] \in Version
  BY ElementOfSeq
<1>2. PICK v \in Version : t = [s EXCEPT ![n] = v] /\ v.source = s[n].source
  <2>1. /\ [s[n] EXCEPT !.published = TRUE] \in Version
        /\ [s[n] EXCEPT !.deleted = TRUE] \in Version
        /\ [s[n] EXCEPT !.criteria = TRUE] \in Version
    BY <1>1 DEF Version
  <2>2. /\ [s[n] EXCEPT !.published = TRUE].source = s[n].source
        /\ [s[n] EXCEPT !.deleted = TRUE].source = s[n].source
        /\ [s[n] EXCEPT !.criteria = TRUE].source = s[n].source
    BY <1>1 DEF Version
  <2> QED BY <2>1, <2>2
<1>3. t \in Seq(Version) /\ Len(t) = Len(s)
  BY <1>2, ExceptSeq
<1>4. \A k \in 1 .. Len(s) : t[k].source = s[k].source
  BY <1>2, ExceptSeq
<1> QED BY <1>3, <1>4, LenProperties DEF SameSources

\* Appending a version keeps the sequence typed and every earlier source.
LEMMA AppendVersion ==
  ASSUME NEW s \in Seq(Version), NEW v \in Version
  PROVE  /\ Append(s, v) \in Seq(Version)
         /\ Len(Append(s, v)) = Len(s) + 1
         /\ Append(s, v)[Len(s) + 1] = v
         /\ SameSources(s, Append(s, v))
BY AppendProperties, LenProperties DEF SameSources

LEMMA NewVersionType ==
  ASSUME NEW source \in Source, NEW prev \in Nat, NEW criteria \in BOOLEAN
  PROVE  /\ NewVersion(source, prev, criteria) \in Version
         /\ NewVersion(source, prev, criteria).source = source
BY DEF NewVersion, Version

\* Every version is either the AI's or a human's.
LEMMA SourceIsKnown ==
  ASSUME TypeOK, NEW r \in Response, NEW n, HasVersion(r, n)
  PROVE  isHumanVersion(r, n) <=> ~isAiVersion(r, n)
<1>1. versions[r] \in Seq(Version) /\ n \in 1 .. Len(versions[r])
  BY DEF TypeOK, HasVersion
<1>2. versions[r][n] \in Version
  BY <1>1, ElementOfSeq
<1>3. versions[r][n].source \in Source /\ n # 0
  BY <1>1, <1>2, LenProperties DEF Version
<1> QED BY <1>3 DEF isHumanVersion, isAiVersion, Source, HUMAN_SOURCES

-----------------------------------------------------------------------------
(* Versions only grow, and what a version is never changes.                *)

Grows ==
  /\ versions' \in [Response -> Seq(Version)]
  /\ \A r \in Response : SameSources(versions[r], versions'[r])

LEMMA GrowsKeeps ==
  ASSUME TypeOK, Grows, NEW r \in Response, NEW n, HasVersion(r, n)
  PROVE  /\ HasVersion(r, n)'
         /\ isHumanVersion(r, n)' <=> isHumanVersion(r, n)
         /\ isAiVersion(r, n)' <=> isAiVersion(r, n)
<1>1. versions[r] \in Seq(Version) /\ versions'[r] \in Seq(Version)
  BY DEF TypeOK, Grows
<1>2. Len(versions[r]) \in Nat /\ Len(versions'[r]) \in Nat
  BY <1>1, LenProperties
<1>3. versions'[r][n].source = versions[r][n].source /\ n \in 1 .. Len(versions'[r])
  BY <1>2 DEF Grows, SameSources, HasVersion
<1> QED BY <1>3 DEF HasVersion, isHumanVersion, isAiVersion

\* The steps that touch the versions of one answer only.
LEMMA OneAnswerGrows ==
  ASSUME TypeOK, NEW r \in Response, NEW t \in Seq(Version), SameSources(versions[r], t),
         versions' = [versions EXCEPT ![r] = t]
  PROVE  Grows
<1>1. \A q \in Response : Len(versions[q]) \in Nat
  BY LenProperties DEF TypeOK
<1> QED BY <1>1 DEF TypeOK, Grows, SameSources

LEMMA UnchangedGrows ==
  ASSUME TypeOK, UNCHANGED versions
  PROVE  Grows
<1>1. \A q \in Response : Len(versions[q]) \in Nat
  BY LenProperties DEF TypeOK
<1> QED BY <1>1 DEF TypeOK, Grows, SameSources

-----------------------------------------------------------------------------
(* A step that takes nothing back leaves alone what is known of every      *)
(* process that does not move.                                             *)

HumanStays ==
  \A r \in Response : isHumanApproved(r) => isHumanApproved(r)'

TakesNothingBack ==
  /\ Grows
  /\ HumanStays
  /\ present \subseteq present'
  /\ discarded \subseteq discarded'
  /\ row \subseteq row'

LEMMA AiKeeps ==
  ASSUME TypeOK, TakesNothingBack, NEW e \in Evaluator, AiHolds(e), ai'[e] = ai[e]
  PROVE  AiHolds(e)'
<1> SUFFICES ASSUME ai[e].pc # "idle"
             PROVE  AiHolds(e)'
  BY DEF AiHolds
<1> DEFINE r == ai[e].resp
<1>1. r \in Response /\ r \in present' /\ (ai[e].pc # "opening" => r \in row')
  BY DEF TypeOK, AiHolds, TakesNothingBack, AiState, idle
<1>2. /\ ai[e].expected # 0 => HasVersion(r, ai[e].expected)'
      /\ ~isHumanVersion(r, ai[e].expected)'
  <2>1. CASE ai[e].expected = 0
    BY <2>1 DEF isHumanVersion
  <2>2. CASE ai[e].expected # 0
    BY <1>1, <2>2, GrowsKeeps DEF AiHolds, TakesNothingBack
  <2> QED BY <2>1, <2>2
<1>3. ai[e].pc \in {"claiming", "discarding", "scoring"} =>
        HasVersion(r, ai[e].mine)' /\ isAiVersion(r, ai[e].mine)'
  BY <1>1, GrowsKeeps DEF AiHolds, TakesNothingBack
<1> QED BY <1>1, <1>2, <1>3 DEF AiHolds, HasVersion, isHumanVersion, isAiVersion

LEMMA DeskKeeps ==
  ASSUME TypeOK, TakesNothingBack, NEW d \in Desk, DeskHolds(d), desk'[d] = desk[d]
  PROVE  DeskHolds(d)'
<1> SUFFICES ASSUME desk[d].pc # "idle"
             PROVE  DeskHolds(d)'
  BY DEF DeskHolds
<1> DEFINE r == desk[d].resp
<1>1. r \in Response /\ r \in present' /\ (desk[d].pc # "opening" => r \in row')
  BY DEF TypeOK, DeskHolds, TakesNothingBack, DeskState, idle
<1>2. desk[d].pc = "pointing" =>
        HasVersion(r, desk[d].mine)' /\ isHumanVersion(r, desk[d].mine)'
  BY <1>1, GrowsKeeps DEF DeskHolds, TakesNothingBack
<1> QED BY <1>1, <1>2 DEF DeskHolds, HasVersion, isHumanVersion

LEMMA SheetKeeps ==
  ASSUME TypeOK, TakesNothingBack, NEW s \in Sheet, SheetHolds(s), sheet'[s] = sheet[s]
  PROVE  SheetHolds(s)'
<1> SUFFICES ASSUME sheet[s].pc = "loaded"
             PROVE  SheetHolds(s)'
  BY DEF SheetHolds
<1>1. sheet[s].answers \subseteq present'
  BY DEF SheetHolds, TakesNothingBack
<1>2. ASSUME NEW r \in Response
      PROVE  /\ sheet[s].seen[r] # 0 => HasVersion(r, sheet[s].seen[r])'
             /\ isHumanVersion(r, sheet[s].seen[r])' => isHumanApproved(r)'
  <2>1. CASE sheet[s].seen[r] = 0
    BY <2>1 DEF isHumanVersion, SheetHolds
  <2>2. CASE sheet[s].seen[r] # 0
    <3>1. HasVersion(r, sheet[s].seen[r])
      BY <2>2 DEF SheetHolds
    <3>2. /\ HasVersion(r, sheet[s].seen[r])'
          /\ isHumanVersion(r, sheet[s].seen[r])' => isHumanVersion(r, sheet[s].seen[r])
      BY <3>1, GrowsKeeps DEF TakesNothingBack
    <3> QED BY <3>2 DEF SheetHolds, TakesNothingBack, HumanStays
  <2> QED BY <2>1, <2>2
<1>3. sheet'[s].answers \subseteq present' /\ sheet'[s].seen = sheet[s].seen
  BY <1>1
<1> QED BY <1>2, <1>3 DEF SheetHolds, isHumanVersion, HasVersion, isHumanApproved

LEMMA GateKeeps ==
  ASSUME TakesNothingBack, EvaluationAssumption, NEW a \in Admin, GateHolds(a), admin'[a] = admin[a]
  PROVE  GateHolds(a)'
BY DEF GateHolds, TakesNothingBack, HumanStays, EvaluationAssumption, isHumanApproved, isHumanVersion
\* Steps that leave the pointers alone.
LEMMA PointersKeep ==
  ASSUME IInv, Grows, present \subseteq present', discarded \subseteq discarded', row \subseteq row', row' \subseteq present',
         discarded' \subseteq present',
         UNCHANGED <<current, status>>
  PROVE  TakesNothingBack /\ PointerInv' /\ StatusInv'
<1>1. ASSUME NEW r \in Response, current[r] # 0
      PROVE  /\ HasVersion(r, current[r])'
             /\ isHumanApproved(r)' <=> isHumanApproved(r)
             /\ isAiVersion(r, current[r])' <=> isAiVersion(r, current[r])
  <2>1. HasVersion(r, current[r])
    BY <1>1 DEF IInv, PointerInv
  <2>2. /\ HasVersion(r, current[r])'
        /\ isHumanVersion(r, current[r])' <=> isHumanVersion(r, current[r])
        /\ isAiVersion(r, current[r])' <=> isAiVersion(r, current[r])
    BY <2>1, GrowsKeeps DEF IInv, HasVersion, isHumanVersion, isAiVersion
  <2> QED BY <2>2 DEF isHumanApproved, isHumanVersion
<1>2. \A r \in Response : current[r] = 0 =>
        /\ ~isHumanApproved(r) /\ ~isHumanApproved(r)'
        /\ ~isAiVersion(r, current[r])'
  BY DEF isHumanApproved, isHumanVersion, isAiVersion
<1>3. HumanStays
  BY <1>1, <1>2 DEF HumanStays
<1>4. PointerInv'
  BY <1>1 DEF IInv, PointerInv
<1>5. StatusInv'
  BY <1>1, <1>2 DEF IInv, StatusInv
<1> QED BY <1>3, <1>4, <1>5 DEF TakesNothingBack

LEMMA TablesKeep ==
  ASSUME IInv, UNCHANGED tables
  PROVE  TakesNothingBack /\ PointerInv' /\ StatusInv'
<1>1. Grows
  BY UnchangedGrows DEF IInv, tables
<1> QED BY <1>1, PointersKeep DEF IInv, PointerInv, tables

\* Steps that make version n of answer r the current one.  Those of the AI
\* have to show that it takes nothing from a human.
LEMMA PointerMoves ==
  ASSUME IInv, NEW r \in row, NEW n, HasVersion(r, n), isAiVersion(r, n) \/ isHumanVersion(r, n),
         versions' = [versions EXCEPT ![r][n].published = TRUE],
         current' = [current EXCEPT ![r] = n],
         NEW v, status' = [status EXCEPT ![r] = v],
         \/ isAiVersion(r, n) /\ v = "AI_SUGGESTED" /\ ~isHumanApproved(r)
         \/ isHumanVersion(r, n) /\ v \in {"TEACHER_REVIEWED", "REVIEWER_FINALIZED"},
         UNCHANGED <<present, discarded, row>>
  PROVE  /\ TakesNothingBack /\ PointerInv' /\ StatusInv'
         /\ current' \in [Response -> Nat] /\ status' \in [Response -> EvaluationStatus]
         /\ current'[r] # 0 /\ (isAiVersion(r, current[r])' <=> isAiVersion(r, n))
<1>1. r \in Response /\ n \in 1 .. Len(versions[r]) /\ versions[r] \in Seq(Version)
  BY DEF IInv, TypeOK, HasVersion
<1>2. Grows
  <2> DEFINE t == [versions[r] EXCEPT ![n].published = TRUE]
  <2>1. versions' = [versions EXCEPT ![r] = t]
    BY DEF IInv, TypeOK
  <2>2. t \in Seq(Version) /\ SameSources(versions[r], t)
    BY <1>1, FlagVersion
  <2> HIDE DEF t
  <2> QED BY <1>1, <2>1, <2>2, OneAnswerGrows DEF IInv
<1>3. ASSUME NEW q \in Response \ {r}, current[q] # 0
      PROVE  /\ HasVersion(q, current[q])'
             /\ isHumanApproved(q)' <=> isHumanApproved(q)
             /\ isAiVersion(q, current[q])' <=> isAiVersion(q, current[q])
  <2>1. HasVersion(q, current[q]) /\ current'[q] = current[q]
    BY <1>3 DEF IInv, PointerInv, TypeOK
  <2>2. /\ current[q] \in 1 .. Len(versions'[q])
        /\ versions'[q][current[q]].source = versions[q][current[q]].source
    BY <1>2, <1>3, <2>1, GrowsKeeps, LenProperties DEF Grows, SameSources, HasVersion, IInv, TypeOK
  <2> QED BY <2>1, <2>2 DEF isHumanApproved, isHumanVersion, isAiVersion, HasVersion
<1>4. /\ current'[r] = n /\ n # 0 /\ HasVersion(r, n)'
      /\ versions'[r][n].source = versions[r][n].source
  <2>1. n \in 1 .. Len(versions'[r]) /\ versions'[r][n].source = versions[r][n].source
    BY <1>1, <1>2, LenProperties DEF Grows, SameSources
  <2> QED BY <1>1, <2>1 DEF IInv, TypeOK, HasVersion
<1>5. \A q \in Response \ {r} : current[q] = 0 =>
        /\ current'[q] = 0 /\ ~isHumanApproved(q) /\ ~isHumanApproved(q)'
        /\ ~isAiVersion(q, current[q])'
  BY DEF IInv, TypeOK, isHumanApproved, isHumanVersion, isAiVersion
<1>6. /\ isHumanApproved(r)' <=> isHumanVersion(r, n)
      /\ isAiVersion(r, current[r])' <=> isAiVersion(r, n)
  BY <1>4 DEF isHumanApproved, isHumanVersion, isAiVersion
<1>7. HumanStays
  BY <1>1, <1>3, <1>5, <1>6 DEF HumanStays
<1>8. PointerInv'
  BY <1>1, <1>3, <1>4 DEF IInv, PointerInv, TypeOK
<1>9. StatusInv'
  <2>1. \A q \in Response \ {r} : status'[q] = status[q] /\ current'[q] = current[q]
    BY DEF IInv, TypeOK
  <2>2. status'[r] = v
    BY <1>1 DEF IInv, TypeOK
  <2>3. isAiVersion(r, n) => ~isHumanVersion(r, n)
    BY DEF isAiVersion, isHumanVersion, HUMAN_SOURCES
  <2> QED BY <1>1, <1>3, <1>4, <1>5, <1>6, <2>1, <2>2, <2>3 DEF IInv, StatusInv
<1>10. current' \in [Response -> Nat] /\ status' \in [Response -> EvaluationStatus]
  BY <1>1, LenProperties DEF IInv, TypeOK, EvaluationStatus
<1> QED BY <1>2, <1>4, <1>6, <1>7, <1>8, <1>9, <1>10 DEF TakesNothingBack

\* The invariant after a step, from what the step does to the tables and to
\* the processes that moved.
LEMMA Reassemble ==
  ASSUME IInv, TypeOK', TakesNothingBack, PointerInv', StatusInv',
         \A e \in Evaluator : ai'[e] = ai[e] \/ AiHolds(e)',
         \A d \in Desk : desk'[d] = desk[d] \/ DeskHolds(d)',
         \A s \in Sheet : sheet'[s] = sheet[s] \/ SheetHolds(s)',
         \A a \in Admin : admin'[a] = admin[a] \/ GateHolds(a)',
         delivery'.status = "LOCKED" => delivery.status = "LOCKED" \/ LockedIsMarked'
  PROVE  IInv'
<1>1. \A e \in Evaluator : AiHolds(e)'
  BY AiKeeps DEF IInv
<1>2. \A d \in Desk : DeskHolds(d)'
  BY DeskKeeps DEF IInv
<1>3. \A s \in Sheet : SheetHolds(s)'
  BY SheetKeeps DEF IInv
<1>4. \A a \in Admin : GateHolds(a)'
  BY GateKeeps, EvaluationAssumption DEF IInv
<1>5. LockedIsMarked'
  BY EvaluationAssumption DEF IInv, LockedIsMarked, TakesNothingBack, HumanStays,
     EvaluationAssumption, isHumanApproved, isHumanVersion
<1> QED BY <1>1, <1>2, <1>3, <1>4, <1>5 DEF IInv
-----------------------------------------------------------------------------
(* Every step preserves the invariant.                                     *)

\* A busy AI call, and what it still holds after a step of its own.
AiBusy(p, r, x, n) == [pc |-> p, resp |-> r, expected |-> x, mine |-> n]

AiPc == {"opening", "writing", "claiming", "discarding", "scoring"}

LEMMA AiIsBusy ==
  ASSUME TypeOK, NEW e \in Evaluator, ai[e].pc # "idle"
  PROVE  \E r \in Response, x \in Nat, n \in Nat : ai[e] = AiBusy(ai[e].pc, r, x, n)
BY DEF TypeOK, AiState, idle, AiBusy

LEMMA AiMoves ==
  ASSUME TypeOK, TakesNothingBack, NEW e \in Evaluator, AiHolds(e),
         NEW p, NEW r \in Response, NEW x \in Nat, NEW n, p # "idle",
         ai[e] = AiBusy(p, r, x, n),
         NEW q \in AiPc, NEW m \in Nat, ai' = [ai EXCEPT ![e] = AiBusy(q, r, x, m)],
         q # "opening" => r \in row',
         q \in {"claiming", "discarding", "scoring"} => HasVersion(r, m)' /\ isAiVersion(r, m)'
  PROVE  ai' \in [Evaluator -> AiState] /\ AiHolds(e)'
<1>1. AiBusy(q, r, x, m) \in AiState
  BY DEF AiState, AiBusy, AiPc
<1>2. ai' \in [Evaluator -> AiState] /\ ai'[e] = AiBusy(q, r, x, m)
  BY <1>1 DEF TypeOK
<1>3. r \in present' /\ (x # 0 => HasVersion(r, x)) /\ ~isHumanVersion(r, x)
  BY DEF AiHolds, AiBusy, TakesNothingBack
<1>4. (x # 0 => HasVersion(r, x)') /\ ~isHumanVersion(r, x)'
  <2>1. CASE x = 0
    BY <2>1 DEF isHumanVersion
  <2>2. CASE x # 0
    BY <1>3, <2>2, GrowsKeeps DEF TakesNothingBack
  <2> QED BY <2>1, <2>2
<1> QED BY <1>2, <1>3, <1>4 DEF AiHolds, AiBusy, HasVersion, isHumanVersion, isAiVersion

LEMMA AiEnds ==
  ASSUME TypeOK, NEW e \in Evaluator, ai' = [ai EXCEPT ![e] = idle]
  PROVE  ai' \in [Evaluator -> AiState] /\ AiHolds(e)'
BY DEF TypeOK, AiState, AiHolds, idle

LEMMA AiStep ==
  ASSUME IInv, NEW e \in Evaluator, AiNext(e)
  PROVE  IInv' /\ TakesNothingBack
<1>0. TypeOK /\ AiHolds(e) /\ ai[e] \in AiState
  BY DEF IInv, TypeOK
<1> SUFFICES
      /\ TakesNothingBack /\ PointerInv' /\ StatusInv'
      /\ ai' \in [Evaluator -> AiState] /\ AiHolds(e)'
      /\ present' \in SUBSET Response /\ discarded' \in SUBSET Response /\ row' \in SUBSET Response
      /\ current' \in [Response -> Nat] /\ status' \in [Response -> EvaluationStatus]
  <2>1. /\ \A f \in Evaluator \ {e} : ai'[f] = ai[f]
        /\ UNCHANGED <<delivery, desk, sheet, admin>>
    BY <1>0 DEF AiNext, AiRead, AiOpenRow, AiInsert, AiInsertAfter, AiClaim, AiPublish, AiLoseClaim, AiDiscard, AiScore,
       AiFail, TypeOK
  <2>2. TypeOK'
    BY <1>0, <2>1 DEF TypeOK, TakesNothingBack, Grows
  <2> QED BY <2>1, <2>2, Reassemble DEF TakesNothingBack
<1>1. ASSUME NEW q \in Response, AiRead(e, q)
      PROVE  /\ TakesNothingBack /\ PointerInv' /\ StatusInv'
             /\ ai' \in [Evaluator -> AiState] /\ AiHolds(e)' /\ UNCHANGED tables
  <2>1. TakesNothingBack /\ PointerInv' /\ StatusInv' /\ UNCHANGED tables
    BY <1>1, TablesKeep DEF AiRead
  <2> DEFINE p == IF q \in row THEN "writing" ELSE "opening"
  <2>2. ai' = [ai EXCEPT ![e] = AiBusy(p, q, current[q], 0)]
    BY <1>1 DEF AiRead, AiBusy
  <2>3. AiBusy(p, q, current[q], 0) \in AiState
    BY <1>0, <1>1 DEF AiBusy, AiState, TypeOK
  <2>4. ai' \in [Evaluator -> AiState] /\ ai'[e] = AiBusy(p, q, current[q], 0)
    BY <1>0, <2>2, <2>3 DEF TypeOK
  <2>5. /\ q \in present /\ (current[q] # 0 => HasVersion(q, current[q]))
        /\ ~isHumanVersion(q, current[q])
    BY <1>1 DEF IInv, PointerInv, AiRead, answers, isHumanApproved
  <2>6. AiHolds(e)'
    BY <2>1, <2>4, <2>5 DEF AiHolds, AiBusy, HasVersion, isHumanVersion, tables
  <2> QED BY <2>1, <2>4, <2>6
<1>2. ASSUME ai[e].pc # "idle", ~\E q \in Response : AiRead(e, q)
      PROVE  /\ TakesNothingBack /\ PointerInv' /\ StatusInv'
             /\ ai' \in [Evaluator -> AiState] /\ AiHolds(e)'
             /\ present' \in SUBSET Response /\ discarded' \in SUBSET Response /\ row' \in SUBSET Response
             /\ current' \in [Response -> Nat] /\ status' \in [Response -> EvaluationStatus]
  <2>0. PICK r \in Response, x \in Nat, n \in Nat : ai[e] = AiBusy(ai[e].pc, r, x, n)
    BY <1>0, <1>2, AiIsBusy
  <2>a. /\ r \in present /\ present \in SUBSET Response /\ row \in SUBSET Response
        /\ versions[r] \in Seq(Version) /\ Len(versions[r]) \in Nat
        /\ ai[e].resp = r /\ ai[e].expected = x /\ ai[e].mine = n
    BY <1>0, <1>2, <2>0, LenProperties DEF AiHolds, TypeOK, AiBusy
  <2>b. \A q \in AiPc, m \in Nat :
          /\ [ai EXCEPT ![e].pc = q] = [ai EXCEPT ![e] = AiBusy(q, r, x, n)]
          /\ [ai EXCEPT ![e].pc = q, ![e].mine = m] = [ai EXCEPT ![e] = AiBusy(q, r, x, m)]
    <3> TAKE q \in AiPc, m \in Nat
    <3> DEFINE Calls == [pc : AiPc, resp : Response, expected : Nat, mine : Nat]
               v == ai[e]
               w == [v EXCEPT !.pc = q, !.mine = m]
    <3>1. v \in Calls /\ ai \in [Evaluator -> AiState]
      BY <1>0, <1>2 DEF TypeOK, AiState, idle, AiPc
    <3>2. w \in Calls
      BY <3>1
    <3>3. w.pc = q /\ w.mine = m /\ w.resp = r /\ w.expected = x
      BY <2>a, <3>1
    <3>4. [v EXCEPT !.pc = q] = AiBusy(q, r, x, n)
      BY <2>0 DEF AiBusy
    <3>5. [ai EXCEPT ![e].pc = q, ![e].mine = m] = [ai EXCEPT ![e] = w]
      BY <3>1
    <3>6. [ai EXCEPT ![e].pc = q] = [ai EXCEPT ![e] = [v EXCEPT !.pc = q]]
      BY <3>1
    <3> HIDE DEF w
    <3>7. w = AiBusy(q, r, x, m)
      BY <3>2, <3>3 DEF AiBusy
    <3> QED BY <3>4, <3>5, <3>6, <3>7
  <2>1. CASE AiOpenRow(e)
    <3>1. /\ row' = row \cup {r} /\ UNCHANGED <<present, discarded, versions, current, status>>
          /\ ai' = [ai EXCEPT ![e] = AiBusy("writing", r, x, n)]
      BY <2>1, <2>a, <2>b DEF AiOpenRow, AiPc
    <3>2. TakesNothingBack /\ PointerInv' /\ StatusInv'
      BY <1>0, <2>a, <3>1, UnchangedGrows, PointersKeep DEF IInv, PointerInv
    <3>3. ai' \in [Evaluator -> AiState] /\ AiHolds(e)'
      BY <1>0, <1>2, <2>0, <3>1, <3>2, AiMoves DEF AiPc
    <3> QED BY <1>0, <2>a, <3>1, <3>2, <3>3 DEF TypeOK
  <2>2. CASE AiInsert(e)
    <3>0. PICK m \in Nat : m = Len(versions[r]) + 1
      BY <2>a
    <3> DEFINE v == NewVersion("AI", x, FALSE)
    <3>v. v \in Version /\ v.source = "AI"
      BY NewVersionType DEF Source
    <3> HIDE DEF v
    <3>a. PICK t : t = Append(versions[r], v)
      OBVIOUS
    <3>1. /\ versions' = [versions EXCEPT ![r] = t] /\ UNCHANGED <<present, discarded, row, current, status>>
          /\ ai' = [ai EXCEPT ![e] = AiBusy("claiming", r, x, m)] /\ r \in row
      <4>1. /\ versions' = [versions EXCEPT ![r] = t] /\ UNCHANGED <<present, discarded, row, current, status>>
            /\ r \in row
        BY <1>0, <2>2, <2>a, <3>a DEF AiInsert, AiInsertAfter, AiHolds, v
      <4>2. ai' = [ai EXCEPT ![e].pc = "claiming", ![e].mine = m]
        BY <2>2, <2>a, <3>0 DEF AiInsert, AiInsertAfter
      <4> QED BY <4>1, <4>2, <2>b DEF AiPc
    <3>2. /\ t \in Seq(Version) /\ SameSources(versions[r], t) /\ Len(t) = m
          /\ t[m].source = "AI"
      BY <2>a, <3>0, <3>v, <3>a, AppendVersion
    <3>3. Grows
      BY <1>0, <3>1, <3>2, OneAnswerGrows
    <3>4. TakesNothingBack /\ PointerInv' /\ StatusInv'
      BY <3>1, <3>3, PointersKeep DEF IInv, PointerInv
    <3>5. HasVersion(r, m)' /\ isAiVersion(r, m)'
      <4>1. versions'[r] = t
        BY <1>0, <3>1 DEF TypeOK
      <4> QED BY <2>a, <3>0, <3>2, <4>1 DEF HasVersion, isAiVersion
    <3>6. ai' \in [Evaluator -> AiState] /\ AiHolds(e)'
      BY <1>0, <1>2, <2>0, <2>a, <3>1, <3>4, <3>5, AiMoves DEF AiPc
    <3> QED BY <1>0, <2>a, <3>1, <3>4, <3>6 DEF TypeOK
  <2>3. CASE AiClaim(e)
    <3>1. /\ versions' = [versions EXCEPT ![r][n].published = TRUE]
          /\ current' = [current EXCEPT ![r] = n] /\ current[r] = x
          /\ status' = [status EXCEPT ![r] = "AI_SUGGESTED"] /\ UNCHANGED <<present, discarded, row>>
          /\ ai' = [ai EXCEPT ![e] = AiBusy("scoring", r, x, n)]
      BY <2>3, <2>a, <2>b DEF AiClaim, AiPublish, AiPc
    <3>2. r \in row /\ HasVersion(r, n) /\ isAiVersion(r, n) /\ ~isHumanApproved(r)
      BY <1>0, <2>3, <2>a, <3>1 DEF AiClaim, AiPublish, AiHolds, isHumanApproved
    <3>3. /\ TakesNothingBack /\ PointerInv' /\ StatusInv'
          /\ current' \in [Response -> Nat] /\ status' \in [Response -> EvaluationStatus]
      BY <3>1, <3>2, PointerMoves
    <3>4. HasVersion(r, n)' /\ isAiVersion(r, n)'
      BY <1>0, <3>2, <3>3, GrowsKeeps DEF TakesNothingBack
    <3>5. ai' \in [Evaluator -> AiState] /\ AiHolds(e)'
      BY <1>0, <1>2, <2>0, <3>1, <3>2, <3>3, <3>4, AiMoves DEF AiPc
    <3> QED BY <1>0, <2>a, <3>1, <3>3, <3>5 DEF TypeOK
  <2>4. CASE AiLoseClaim(e)
    <3>1. /\ UNCHANGED tables
          /\ ai' = [ai EXCEPT ![e] = AiBusy("discarding", r, x, n)]
      BY <2>4, <2>a, <2>b DEF AiLoseClaim, AiPc
    <3>2. TakesNothingBack /\ PointerInv' /\ StatusInv'
      BY <3>1, TablesKeep
    <3>3. r \in row /\ HasVersion(r, n) /\ isAiVersion(r, n)
      BY <1>0, <2>4, <2>a DEF AiLoseClaim, AiHolds
    <3>4. r \in row' /\ HasVersion(r, n)' /\ isAiVersion(r, n)'
      BY <3>1, <3>3 DEF tables, HasVersion, isAiVersion
    <3>5. ai' \in [Evaluator -> AiState] /\ AiHolds(e)'
      BY <1>0, <1>2, <2>0, <3>1, <3>2, <3>4, AiMoves DEF AiPc
    <3> QED BY <1>0, <3>1, <3>2, <3>5 DEF TypeOK, tables
  <2>5. CASE AiDiscard(e) \/ AiScore(e)
    <3>1. HasVersion(r, n)
      BY <1>0, <2>5, <2>a DEF AiDiscard, AiScore, AiHolds
    <3>2. PICK t : /\ versions' = [versions EXCEPT ![r] = t]
                   /\ \/ t = [versions[r] EXCEPT ![n].deleted = TRUE]
                      \/ t = [versions[r] EXCEPT ![n].criteria = TRUE]
      BY <1>0, <2>5, <2>a DEF AiDiscard, AiScore, TypeOK
    <3>3. t \in Seq(Version) /\ SameSources(versions[r], t)
      BY <2>a, <3>1, <3>2, FlagVersion DEF HasVersion
    <3>4. Grows
      BY <1>0, <3>2, <3>3, OneAnswerGrows
    <3>5. ai' = [ai EXCEPT ![e] = idle] /\ UNCHANGED <<present, discarded, row, current, status>>
      BY <2>5 DEF AiDiscard, AiScore
    <3>6. TakesNothingBack /\ PointerInv' /\ StatusInv'
      BY <3>4, <3>5, PointersKeep DEF IInv, PointerInv
    <3> QED BY <1>0, <2>a, <3>5, <3>6, AiEnds DEF TypeOK
  <2>6. CASE AiFail(e)
    BY <1>0, <2>6, TablesKeep, AiEnds DEF AiFail, TypeOK, tables
  <2> QED BY <1>2, <2>1, <2>2, <2>3, <2>4, <2>5, <2>6 DEF AiNext
<1>3. CASE \E q \in Response : AiRead(e, q)
  BY <1>0, <1>1, <1>3 DEF TypeOK, tables
<1>4. CASE ~\E q \in Response : AiRead(e, q)
  <2>1. ai[e].pc # "idle"
    BY <1>4 DEF AiNext, AiOpenRow, AiInsert, AiInsertAfter, AiClaim, AiPublish, AiLoseClaim, AiDiscard, AiScore, AiFail
  <2> QED BY <1>2, <1>4, <2>1
<1> QED BY <1>3, <1>4
DeskCalls ==
  [pc : {"opening", "writing", "pointing"}, resp : Response,
   kind : {"ACCEPT_AI", "SCORE", "OVERRIDE"}, prev : Nat, copied : BOOLEAN, mine : Nat]

LEMMA DeskIsBusy ==
  ASSUME TypeOK, NEW d \in Desk, desk[d].pc # "idle"
  PROVE  desk[d] \in DeskCalls
BY DEF TypeOK, DeskState, idle, DeskCalls

LEMMA DeskMoves ==
  ASSUME TypeOK, NEW d \in Desk, NEW w \in DeskCalls, desk' = [desk EXCEPT ![d] = w],
         w.resp \in present', w.pc # "opening" => w.resp \in row',
         w.pc = "pointing" => HasVersion(w.resp, w.mine)' /\ isHumanVersion(w.resp, w.mine)'
  PROVE  desk' \in [Desk -> DeskState] /\ DeskHolds(d)'
<1>1. desk' \in [Desk -> DeskState] /\ desk'[d] = w
  BY DEF TypeOK, DeskState, DeskCalls
<1> QED BY <1>1 DEF DeskHolds, HasVersion, isHumanVersion

LEMMA DeskEnds ==
  ASSUME TypeOK, NEW d \in Desk, desk' = [desk EXCEPT ![d] = idle]
  PROVE  desk' \in [Desk -> DeskState] /\ DeskHolds(d)'
BY DEF TypeOK, DeskState, DeskHolds, idle

LEMMA DeskStep ==
  ASSUME IInv, NEW d \in Desk, DeskNext(d)
  PROVE  IInv' /\ TakesNothingBack
<1>0. TypeOK /\ DeskHolds(d) /\ desk[d] \in DeskState
  BY DEF IInv, TypeOK
<1> SUFFICES
      /\ TakesNothingBack /\ PointerInv' /\ StatusInv'
      /\ desk' \in [Desk -> DeskState] /\ DeskHolds(d)'
      /\ present' \in SUBSET Response /\ discarded' \in SUBSET Response /\ row' \in SUBSET Response
      /\ current' \in [Response -> Nat] /\ status' \in [Response -> EvaluationStatus]
  <2>1. /\ \A f \in Desk \ {d} : desk'[f] = desk[f]
        /\ UNCHANGED <<delivery, ai, sheet, admin>>
    BY <1>0 DEF DeskNext, DeskRead, DeskOpenRow, DeskInsert, DeskPoint, DeskPointAs, DeskFail, TypeOK
  <2>2. TypeOK'
    BY <1>0, <2>1 DEF TypeOK, TakesNothingBack, Grows
  <2> QED BY <2>1, <2>2, Reassemble DEF TakesNothingBack
<1>1. ASSUME NEW q \in Response, NEW kind \in {"ACCEPT_AI", "SCORE", "OVERRIDE"},
             DeskRead(d, q, kind)
      PROVE  /\ TakesNothingBack /\ PointerInv' /\ StatusInv'
             /\ desk' \in [Desk -> DeskState] /\ DeskHolds(d)' /\ UNCHANGED tables
  <2>1. TakesNothingBack /\ PointerInv' /\ StatusInv' /\ UNCHANGED tables
    BY <1>1, TablesKeep DEF DeskRead
  <2>2. PICK c \in BOOLEAN :
          c = IF isAiVersion(q, current[q]) THEN versions[q][current[q]].criteria ELSE FALSE
    <3>1. isAiVersion(q, current[q]) => versions[q][current[q]] \in Version
      BY <1>0, ElementOfSeq DEF IInv, PointerInv, HasVersion, isAiVersion, TypeOK
    <3> QED BY <3>1 DEF Version
  <2> DEFINE w == [pc |-> IF q \in row THEN "writing" ELSE "opening", resp |-> q,
                   kind |-> kind, prev |-> current[q], copied |-> c, mine |-> 0]
  <2>3. w \in DeskCalls
    BY <1>0 DEF DeskCalls, TypeOK
  <2>4. desk' = [desk EXCEPT ![d] = w] /\ q \in present
    BY <1>1, <2>2 DEF DeskRead, answers
  <2>5. /\ w.resp \in present' /\ (w.pc # "opening" => w.resp \in row')
        /\ w.pc # "pointing"
    BY <2>1, <2>4 DEF tables
  <2>6. desk' \in [Desk -> DeskState] /\ DeskHolds(d)'
    <3> HIDE DEF w
    <3> QED BY <1>0, <2>3, <2>4, <2>5, DeskMoves
  <2> QED BY <2>1, <2>6
<1>2. ASSUME desk[d].pc # "idle", DeskOpenRow(d) \/ DeskInsert(d) \/ DeskPoint(d) \/ DeskFail(d)
      PROVE  /\ TakesNothingBack /\ PointerInv' /\ StatusInv'
             /\ desk' \in [Desk -> DeskState] /\ DeskHolds(d)'
             /\ present' \in SUBSET Response /\ discarded' \in SUBSET Response /\ row' \in SUBSET Response
             /\ current' \in [Response -> Nat] /\ status' \in [Response -> EvaluationStatus]
  <2>0. PICK r \in Response, n \in Nat, v \in DeskCalls :
          desk[d] = v /\ v.resp = r /\ v.mine = n
    BY <1>0, <1>2, DeskIsBusy DEF DeskCalls
  <2>a. /\ r \in present /\ present \in SUBSET Response /\ row \in SUBSET Response
        /\ versions[r] \in Seq(Version) /\ Len(versions[r]) \in Nat
        /\ desk \in [Desk -> DeskState]
    BY <1>0, <1>2, <2>0, LenProperties DEF DeskHolds, TypeOK
  <2>1. CASE DeskOpenRow(d)
    <3>1. row' = row \cup {r} /\ UNCHANGED <<present, discarded, versions, current, status>>
      BY <2>0, <2>1 DEF DeskOpenRow
    <3>2. TakesNothingBack /\ PointerInv' /\ StatusInv'
      BY <1>0, <2>a, <3>1, UnchangedGrows, PointersKeep DEF IInv, PointerInv
    <3>3. desk' \in [Desk -> DeskState] /\ DeskHolds(d)'
      <4>1. CASE v.kind = "ACCEPT_AI"
        BY <1>0, <2>0, <2>1, <4>1, DeskEnds DEF DeskOpenRow
      <4>2. CASE v.kind # "ACCEPT_AI"
        <5> DEFINE w == [v EXCEPT !.pc = "writing"]
        <5>1. desk' = [desk EXCEPT ![d] = w]
          BY <2>0, <2>1, <4>2 DEF DeskOpenRow
        <5>2. w \in DeskCalls /\ w.resp = r /\ w.pc = "writing"
          BY <2>0 DEF DeskCalls
        <5> HIDE DEF w
        <5> QED BY <1>0, <2>a, <3>1, <5>1, <5>2, DeskMoves
      <4> QED BY <4>1, <4>2
    <3> QED BY <1>0, <2>a, <3>1, <3>2, <3>3 DEF TypeOK
  <2>2. CASE DeskInsert(d)
    <3>0. PICK m \in Nat : m = Len(versions[r]) + 1
      BY <2>a
    <3>1. PICK source \in HUMAN_SOURCES, criteria \in BOOLEAN :
            versions' = [versions EXCEPT ![r] = Append(@, NewVersion(source, v.prev, criteria))]
      BY <2>0, <2>2 DEF DeskInsert, HUMAN_SOURCES, DeskCalls
    <3>2. PICK t : t = Append(versions[r], NewVersion(source, v.prev, criteria))
      OBVIOUS
    <3>3. t \in Seq(Version) /\ SameSources(versions[r], t) /\ Len(t) = m /\ t[m].source = source
      <4>1. source \in Source /\ v.prev \in Nat
        BY <2>0 DEF Source, HUMAN_SOURCES, DeskCalls
      <4> QED BY <2>a, <3>0, <3>2, <4>1, NewVersionType, AppendVersion
    <3>4. versions' = [versions EXCEPT ![r] = t] /\ UNCHANGED <<present, discarded, row, current, status>>
      BY <2>2, <3>1, <3>2 DEF DeskInsert
    <3>5. Grows
      BY <1>0, <3>3, <3>4, OneAnswerGrows
    <3>6. TakesNothingBack /\ PointerInv' /\ StatusInv'
      BY <3>4, <3>5, PointersKeep DEF IInv, PointerInv
    <3>7. HasVersion(r, m)' /\ isHumanVersion(r, m)'
      <4>1. versions'[r] = t
        BY <1>0, <3>4 DEF TypeOK
      <4> QED BY <2>a, <3>0, <3>3, <4>1 DEF HasVersion, isHumanVersion
    <3> DEFINE w == [v EXCEPT !.pc = "pointing", !.mine = m]
    <3>8. desk' = [desk EXCEPT ![d] = w]
      BY <2>0, <2>2, <2>a, <3>0 DEF DeskInsert
    <3>9. w \in DeskCalls /\ w.resp = r /\ w.pc = "pointing" /\ w.mine = m
      BY <2>0 DEF DeskCalls
    <3>10. r \in row
      BY <1>0, <2>0, <2>2 DEF DeskInsert, DeskHolds
    <3>11. desk' \in [Desk -> DeskState] /\ DeskHolds(d)'
      <4> HIDE DEF w
      <4> QED BY <1>0, <2>a, <3>4, <3>7, <3>8, <3>9, <3>10, DeskMoves
    <3> QED BY <1>0, <2>a, <3>4, <3>6, <3>11 DEF TypeOK
  <2>3. CASE DeskPoint(d)
    <3>1. PICK k \in {"TEACHER_REVIEWED", "REVIEWER_FINALIZED"} :
            status' = [status EXCEPT ![r] = k]
      BY <2>0, <2>3 DEF DeskPoint, DeskPointAs
    <3>2. /\ versions' = [versions EXCEPT ![r][n].published = TRUE]
          /\ current' = [current EXCEPT ![r] = n] /\ UNCHANGED <<present, discarded, row>>
          /\ desk' = [desk EXCEPT ![d] = idle]
      BY <2>0, <2>3 DEF DeskPoint, DeskPointAs
    <3>3. r \in row /\ HasVersion(r, n) /\ isHumanVersion(r, n)
      BY <1>0, <2>0, <2>3 DEF DeskPoint, DeskPointAs, DeskHolds
    <3>4. /\ TakesNothingBack /\ PointerInv' /\ StatusInv'
          /\ current' \in [Response -> Nat] /\ status' \in [Response -> EvaluationStatus]
      BY <3>1, <3>2, <3>3, PointerMoves
    <3> QED BY <1>0, <2>a, <3>2, <3>4, DeskEnds DEF TypeOK
  <2>4. CASE DeskFail(d)
    BY <1>0, <2>4, TablesKeep, DeskEnds DEF DeskFail, TypeOK, tables
  <2> QED BY <1>2, <2>1, <2>2, <2>3, <2>4
<1>3. CASE \E q \in Response, kind \in {"ACCEPT_AI", "SCORE", "OVERRIDE"} : DeskRead(d, q, kind)
  BY <1>0, <1>1, <1>3 DEF TypeOK, tables
<1>4. CASE DeskOpenRow(d) \/ DeskInsert(d) \/ DeskPoint(d) \/ DeskFail(d)
  <2>1. desk[d].pc # "idle"
    BY <1>4 DEF DeskOpenRow, DeskInsert, DeskPoint, DeskPointAs, DeskFail
  <2> QED BY <1>2, <1>4, <2>1
<1> QED BY <1>3, <1>4 DEF DeskNext
LEMMA SheetEnds ==
  ASSUME TypeOK, NEW s \in Sheet, sheet' = [sheet EXCEPT ![s] = idle]
  PROVE  sheet' \in [Sheet -> SheetState] /\ SheetHolds(s)'
BY DEF TypeOK, SheetState, SheetHolds, idle

\* What a commit leaves in the rows it wrote, and that it leaves the others.
LEMMA CommitWrites ==
  ASSUME IInv, NEW s \in Sheet, NEW W \in SUBSET Response, SheetCommit(s, W)
  PROVE  /\ W \subseteq present
         /\ TakesNothingBack /\ PointerInv' /\ StatusInv'
         /\ current' \in [Response -> Nat] /\ status' \in [Response -> EvaluationStatus]
         /\ \A r \in W : isHumanApproved(r)'
         /\ \A r \in Response \ W : /\ isHumanApproved(r)' <=> isHumanApproved(r)
                                   /\ isAiVersion(r, current[r])' <=> isAiVersion(r, current[r])
                                   /\ current'[r] = current[r]
<1>0. /\ TypeOK /\ SheetHolds(s) /\ sheet[s].pc = "loaded" /\ W \subseteq sheet[s].answers
      /\ sheet[s].seen \in [Response -> Nat]
  BY DEF IInv, TypeOK, SheetCommit, ToWrite, Submittable, SheetState, idle
<1>1. W \subseteq present
  BY <1>0 DEF SheetHolds
<1>2. \A r \in Response : versions[r] \in Seq(Version) /\ Len(versions[r]) \in Nat
  BY <1>0, LenProperties DEF TypeOK
<1>3. ASSUME NEW r \in W
      PROVE  /\ versions'[r] \in Seq(Version) /\ SameSources(versions[r], versions'[r])
             /\ Len(versions'[r]) = Len(versions[r]) + 1
             /\ versions'[r][Len(versions[r]) + 1].source = "TEACHER"
             /\ current'[r] = Len(versions[r]) + 1 /\ status'[r] = "TEACHER_REVIEWED" /\ r \in row'
  <2> DEFINE v == [NewVersion("TEACHER", sheet[s].seen[r], TRUE) EXCEPT !.published = TRUE]
  <2>1. v \in Version /\ v.source = "TEACHER"
    BY <1>0 DEF NewVersion, Version, Source
  <2>2. versions'[r] = Append(versions[r], v)
    BY DEF SheetCommit
  <2> HIDE DEF v
  <2>3. current'[r] = Len(versions[r]) + 1 /\ status'[r] = "TEACHER_REVIEWED" /\ r \in row'
    BY DEF SheetCommit
  <2> QED BY <1>2, <2>1, <2>2, <2>3, AppendVersion
<1>4. ASSUME NEW r \in Response \ W
      PROVE  versions'[r] = versions[r] /\ current'[r] = current[r] /\ status'[r] = status[r]
  BY DEF SheetCommit
<1>5. /\ row' = row \cup W /\ UNCHANGED <<present, discarded>>
      /\ DOMAIN versions' = Response /\ DOMAIN current' = Response /\ DOMAIN status' = Response
      /\ versions' = [r \in Response |-> versions'[r]]
      /\ current' = [r \in Response |-> current'[r]] /\ status' = [r \in Response |-> status'[r]]
  BY DEF SheetCommit
<1>6. Grows
  <2>1. \A r \in Response : versions'[r] \in Seq(Version) /\ SameSources(versions[r], versions'[r])
    BY <1>2, <1>3, <1>4 DEF SameSources
  <2> QED BY <1>5, <2>1 DEF Grows
<1>7. ASSUME NEW r \in W
      PROVE  isHumanApproved(r)' /\ ~isAiVersion(r, current[r])' /\ HasVersion(r, current[r])'
  BY <1>2, <1>3 DEF isHumanApproved, isHumanVersion, isAiVersion, HasVersion, HUMAN_SOURCES
<1>8. ASSUME NEW r \in Response \ W
      PROVE  /\ isHumanApproved(r)' <=> isHumanApproved(r)
             /\ isAiVersion(r, current[r])' <=> isAiVersion(r, current[r])
             /\ HasVersion(r, current[r])' <=> HasVersion(r, current[r])
  BY <1>4 DEF isHumanApproved, isHumanVersion, isAiVersion, HasVersion
<1>9. HumanStays
  BY <1>7, <1>8 DEF HumanStays
<1>10. PointerInv'
  BY <1>0, <1>1, <1>4, <1>5, <1>7, <1>8 DEF IInv, PointerInv, TypeOK
<1>11. StatusInv'
  <2>1. \A r \in W : current'[r] # 0
    BY <1>2, <1>3
  <2> QED BY <1>3, <1>4, <1>7, <1>8, <2>1 DEF IInv, StatusInv
<1>12. current' \in [Response -> Nat] /\ status' \in [Response -> EvaluationStatus]
  <2>1. \A r \in Response : current'[r] \in Nat /\ status'[r] \in EvaluationStatus
    BY <1>0, <1>2, <1>3, <1>4 DEF TypeOK, EvaluationStatus
  <2> QED BY <1>5, <2>1
<1> QED BY <1>1, <1>4, <1>5, <1>6, <1>7, <1>8, <1>9, <1>10, <1>11, <1>12 DEF TakesNothingBack

LEMMA SheetStep ==
  ASSUME IInv, NEW s \in Sheet, SheetNext(s)
  PROVE  IInv' /\ TakesNothingBack
<1>0. TypeOK /\ SheetHolds(s)
  BY DEF IInv
<1> SUFFICES
      /\ TakesNothingBack /\ PointerInv' /\ StatusInv'
      /\ sheet' \in [Sheet -> SheetState] /\ SheetHolds(s)'
      /\ present' \in SUBSET Response /\ discarded' \in SUBSET Response /\ row' \in SUBSET Response
      /\ current' \in [Response -> Nat] /\ status' \in [Response -> EvaluationStatus]
  <2>1. /\ \A f \in Sheet \ {s} : sheet'[f] = sheet[f]
        /\ UNCHANGED <<delivery, ai, desk, admin>>
    BY <1>0 DEF SheetNext, SheetLoad, SheetCommit, SheetFail, TypeOK
  <2>2. TypeOK'
    BY <1>0, <2>1 DEF TypeOK, TakesNothingBack, Grows
  <2> QED BY <2>1, <2>2, Reassemble DEF TakesNothingBack
<1>1. CASE SheetLoad(s)
  <2>1. TakesNothingBack /\ PointerInv' /\ StatusInv' /\ UNCHANGED tables
    BY <1>1, TablesKeep DEF SheetLoad
  <2> DEFINE w == [pc |-> "loaded", answers |-> answers, rows |-> row \cap answers, seen |-> current]
  <2>2. w \in SheetState /\ sheet' = [sheet EXCEPT ![s] = w]
    BY <1>0, <1>1 DEF SheetLoad, SheetState, answers, TypeOK
  <2>3. sheet' \in [Sheet -> SheetState] /\ sheet'[s] = w
    BY <1>0, <2>2 DEF TypeOK
  <2>4. SheetHolds(s)'
    BY <2>1, <2>3 DEF SheetHolds, IInv, PointerInv, answers, tables, HasVersion, isHumanApproved, isHumanVersion
  <2> QED BY <1>0, <2>1, <2>3, <2>4 DEF TypeOK, tables
<1>2. ASSUME NEW W \in SUBSET Response, SheetCommit(s, W)
      PROVE  /\ TakesNothingBack /\ PointerInv' /\ StatusInv'
             /\ sheet' \in [Sheet -> SheetState] /\ SheetHolds(s)'
             /\ present' \in SUBSET Response /\ discarded' \in SUBSET Response /\ row' \in SUBSET Response
             /\ current' \in [Response -> Nat] /\ status' \in [Response -> EvaluationStatus]
  <2>1. /\ sheet' = [sheet EXCEPT ![s] = idle] /\ row' = row \cup W
        /\ UNCHANGED <<present, discarded>>
    BY <1>2 DEF SheetCommit
  <2> QED BY <1>0, <1>2, <2>1, CommitWrites, SheetEnds DEF TypeOK
<1>3. CASE SheetFail(s)
  <2>1. /\ TakesNothingBack /\ PointerInv' /\ StatusInv'
        /\ sheet' \in [Sheet -> SheetState] /\ SheetHolds(s)' /\ UNCHANGED tables
    BY <1>0, <1>3, TablesKeep, SheetEnds DEF SheetFail
  <2> QED BY <1>0, <1>3, <2>1 DEF TypeOK, tables
<1> QED BY <1>1, <1>2, <1>3 DEF SheetNext

LEMMA AdminStep ==
  ASSUME IInv, NEW a \in Admin, AdminNext(a)
  PROVE  IInv' /\ TakesNothingBack
<1>0. TypeOK /\ GateHolds(a) /\ PointerInv /\ StatusInv
  BY DEF IInv
<1>1. UNCHANGED <<tables, ai, desk, sheet>> /\ \A b \in Admin \ {a} : admin'[b] = admin[b]
  BY <1>0 DEF AdminNext, LockGate, LockGateOver, LockCommit, MoveDelivery, LockFail, TypeOK
<1>2. TakesNothingBack /\ PointerInv' /\ StatusInv'
  BY <1>1, TablesKeep
<1>3. CASE LockGate(a)
  <2>1. Graded => \A r \in Collected \ discarded : isHumanApproved(r)
    <3>1. ASSUME Graded, NEW r \in Collected \ discarded
          PROVE  isHumanApproved(r)
      <4>1. r \in answers /\ r \in present /\ r \in Response
        BY <1>0, <3>1 DEF PointerInv, TypeOK, answers
      <4>2. status[r] \notin {"PENDING", "AI_SUGGESTED"}
        BY <1>3, <3>1, <4>1 DEF LockGate, LockGateOver, Unevaluated
      <4>3. current[r] # 0 /\ ~isAiVersion(r, current[r]) /\ HasVersion(r, current[r])
        BY <1>0, <4>1, <4>2 DEF StatusInv, PointerInv
      <4> QED BY <1>0, <4>1, <4>3, SourceIsKnown DEF isHumanApproved
    <3> QED BY <3>1
  <2>2. /\ admin' \in [Admin -> AdminState] /\ delivery' = delivery
    BY <1>0, <1>3 DEF LockGate, LockGateOver, AdminState, TypeOK
  <2>3. GateHolds(a)'
    BY <1>1, <2>1 DEF GateHolds, tables, isHumanApproved, isHumanVersion
  <2>4. TypeOK'
    BY <1>0, <1>1, <2>2 DEF TypeOK, tables
  <2> QED BY <1>1, <1>2, <2>2, <2>3, <2>4, Reassemble DEF TakesNothingBack
<1>4. CASE LockCommit(a)
  <2>1. /\ admin' \in [Admin -> AdminState] /\ GateHolds(a)'
        /\ delivery' \in [status : DeliveryStatus, version : Nat]
    BY <1>0, <1>4 DEF LockCommit, MoveDelivery, AdminState, TypeOK, GateHolds, idle, DeliveryStatus
  <2>2. LockedIsMarked'
    BY <1>0, <1>1, <1>4 DEF LockCommit, MoveDelivery, GateHolds, LockedIsMarked, tables, isHumanApproved, isHumanVersion
  <2>3. TypeOK'
    BY <1>0, <1>1, <2>1 DEF TypeOK, tables
  <2> QED BY <1>1, <1>2, <2>1, <2>2, <2>3, Reassemble DEF TakesNothingBack
<1>5. CASE LockFail(a)
  <2>1. admin' \in [Admin -> AdminState] /\ GateHolds(a)' /\ delivery' = delivery
    BY <1>0, <1>5 DEF LockFail, AdminState, TypeOK, GateHolds, idle
  <2>2. TypeOK'
    BY <1>0, <1>1, <2>1 DEF TypeOK, tables
  <2> QED BY <1>1, <1>2, <2>1, <2>2, Reassemble DEF TakesNothingBack
<1> QED BY <1>3, <1>4, <1>5 DEF AdminNext

\* A late answer, the two transitions without a gate, and stuttering.
LEMMA OtherStep ==
  ASSUME IInv,
         \/ \E r \in Response : SyncResponse(r) \/ DiscardResponse(r)
         \/ StartEvaluating \/ Unlock
         \/ UNCHANGED vars
  PROVE  IInv' /\ TakesNothingBack
<1>0. TypeOK /\ PointerInv
  BY DEF IInv
<1>1. UNCHANGED <<row, versions, current, status, ai, desk, sheet, admin>>
  BY DEF SyncResponse, DiscardResponse, StartEvaluating, MoveDelivery, Unlock, vars, tables
<1>2. /\ present \subseteq present' /\ present' \in SUBSET Response
      /\ discarded \subseteq discarded' /\ discarded' \in SUBSET Response
      /\ discarded' \subseteq present'
  BY <1>0 DEF SyncResponse, DiscardResponse, answers, StartEvaluating, MoveDelivery, Unlock, vars, tables, TypeOK,
     PointerInv
<1>3. TakesNothingBack /\ PointerInv' /\ StatusInv'
  BY <1>0, <1>1, <1>2, UnchangedGrows, PointersKeep DEF PointerInv
<1>4. /\ delivery' \in [status : DeliveryStatus, version : Nat]
      /\ delivery'.status = "LOCKED" => delivery.status = "LOCKED"
  BY <1>0 DEF SyncResponse, DiscardResponse, StartEvaluating, MoveDelivery, Unlock, vars, TypeOK, DeliveryStatus
<1>5. TypeOK'
  BY <1>0, <1>1, <1>2, <1>4 DEF TypeOK
<1> QED BY <1>1, <1>3, <1>4, <1>5, Reassemble DEF TakesNothingBack

-----------------------------------------------------------------------------
(* Theorems.                                                               *)

LEMMA InitInvariant ==
  ASSUME Init
  PROVE  IInv
<1>1. TypeOK
  <2>1. << >> \in Seq(Version)
    BY EmptySeq
  <2> QED BY <2>1, EvaluationAssumption DEF Init, TypeOK, EvaluationAssumption, EvaluationStatus,
       DeliveryStatus, AiState, DeskState, SheetState, AdminState
<1>2. PointerInv /\ StatusInv /\ LockedIsMarked
  BY EvaluationAssumption DEF Init, PointerInv, StatusInv, LockedIsMarked, EvaluationAssumption, isAiVersion,
     isHumanApproved, isHumanVersion
<1>3. /\ \A e \in Evaluator : AiHolds(e)
      /\ \A d \in Desk : DeskHolds(d)
      /\ \A s \in Sheet : SheetHolds(s)
      /\ \A a \in Admin : GateHolds(a)
  BY DEF Init, AiHolds, DeskHolds, SheetHolds, GateHolds, idle
<1> QED BY <1>1, <1>2, <1>3 DEF IInv

LEMMA StepInvariant ==
  ASSUME IInv, [Next]_vars
  PROVE  IInv' /\ TakesNothingBack
BY AiStep, DeskStep, SheetStep, AdminStep, OtherStep DEF Next

\* Every reachable state satisfies the inductive invariant.
THEOREM Invariance == Spec => []IInv
<1>1. Init => IInv
  BY InitInvariant
<1>2. IInv /\ [Next]_vars => IInv'
  BY StepInvariant
<1> QED BY <1>1, <1>2, PTL DEF Spec

\* Whatever is interleaved, every variable keeps its type.
THEOREM TypeCorrect == Spec => []TypeOK
<1>1. IInv => TypeOK
  BY DEF IInv
<1> QED BY <1>1, Invariance, PTL

\* A graded delivery is LOCKED only over answers a human has marked, for
\* those collected in time, though the gate reads them before it commits.
THEOREM LockIsSound == Spec => []LockedIsMarked
<1>1. IInv => LockedIsMarked
  BY DEF IInv
<1> QED BY <1>1, Invariance, PTL

\* No AI call, and nothing else, ever takes an answer back from a human.
THEOREM HumanMarksAreKept == Spec => AiNeverReplacesHuman
<1>1. IInv /\ [Next]_vars => [\A r \in answers' : isHumanApproved(r) => isHumanApproved(r)']_vars
  <2>1. IInv /\ [Next]_vars => HumanStays /\ answers' \subseteq Response
    BY StepInvariant DEF IInv, TypeOK, TakesNothingBack, answers
  <2> QED BY <2>1 DEF HumanStays
<1> QED BY <1>1, Invariance, PTL DEF Spec, AiNeverReplacesHuman

\* The status the lock gate counts by agrees with the version that counts.
THEOREM StatusIsFaithful == Spec => []StatusTellsSource
<1>1. IInv => StatusTellsSource
  <2> SUFFICES ASSUME IInv, NEW r \in Response, r \in answers
               PROVE  Unevaluated(r) <=> ~isHumanApproved(r)
    BY DEF StatusTellsSource, IInv, TypeOK, answers
  <2>1. TypeOK /\ PointerInv /\ StatusInv
    BY DEF IInv
  <2>2. CASE current[r] = 0
    BY <2>1, <2>2 DEF StatusInv, Unevaluated, isHumanApproved, isHumanVersion
  <2>3. CASE current[r] # 0
    <3>1. r \in row /\ HasVersion(r, current[r])
      BY <2>1, <2>3 DEF PointerInv
    <3>2. isHumanApproved(r) <=> ~isAiVersion(r, current[r])
      BY <2>1, <3>1, SourceIsKnown DEF isHumanApproved
    <3> QED BY <2>1, <3>1, <3>2 DEF StatusInv, Unevaluated
  <2> QED BY <2>2, <2>3
<1> QED BY <1>1, Invariance, PTL
\* A submission that changed marks leaves no answer of its sheet without a
\* human's mark, whatever ran since the sheet was loaded.
THEOREM SubmissionIsWhole == Spec => SubmitMarksWholeSheet
<1> DEFINE Whole == \A s \in Sheet :
             sheet[s].pc = "loaded" /\ sheet'[s].pc = "idle" /\ current' # current
               => \A r \in sheet[s].answers \ discarded : isHumanApproved(r)'
<1>1. ASSUME IInv, [Next]_vars
      PROVE  Whole
  <2> SUFFICES ASSUME NEW s \in Sheet, sheet[s].pc = "loaded", sheet'[s].pc = "idle", current' # current,
                      NEW r \in sheet[s].answers
               PROVE  isHumanApproved(r)'
    OBVIOUS
  <2>0. /\ TypeOK /\ HumanStays /\ SheetHolds(s) /\ r \in Response
    BY <1>1, StepInvariant DEF IInv, TakesNothingBack, TypeOK, SheetHolds
  <2>1. PICK W \in SUBSET Response : SheetCommit(s, W)
    <3>1. sheet' # sheet /\ current' # current
      OBVIOUS
    <3>2. PICK f \in Sheet : SheetNext(f)
      BY <1>1, <3>1 DEF Next, vars, tables, SyncResponse, DiscardResponse, StartEvaluating, MoveDelivery, Unlock,
         AiNext, AiRead, AiOpenRow, AiInsert, AiInsertAfter, AiClaim, AiPublish, AiLoseClaim, AiDiscard, AiScore, AiFail,
         DeskNext, DeskRead, DeskOpenRow, DeskInsert, DeskPoint, DeskPointAs, DeskFail,
         AdminNext, LockGate, LockGateOver, LockCommit, LockFail
    <3>3. PICK W \in SUBSET Response : SheetCommit(f, W)
      BY <3>1, <3>2 DEF SheetNext, SheetLoad, SheetFail, tables
    <3>4. f = s
      BY <2>0, <3>3 DEF SheetCommit, TypeOK
    <3> QED BY <3>3, <3>4
  <2>2. CASE r \in W
    BY <1>1, <2>1, <2>2, CommitWrites
  <2>3. CASE r \notin W
    <3>1. isHumanVersion(r, sheet[s].seen[r])
      BY <2>1, <2>3 DEF SheetCommit, ToWrite, Submittable
    <3> QED BY <2>0, <3>1 DEF SheetHolds, HumanStays
  <2> QED BY <2>2, <2>3
<1>2. IInv /\ [Next]_vars => [Whole]_vars
  BY <1>1
<1> QED BY <1>2, Invariance, PTL DEF Spec, SubmitMarksWholeSheet

-----------------------------------------------------------------------------
(* Evaluation implements MarkLedger.                                       *)

LEMMA StandingKeeps ==
  ASSUME IInv, Grows, NEW r \in Response, r \in present' <=> r \in present,
         r \in discarded' <=> r \in discarded,
         current'[r] = current[r]
  PROVE  standingOf(r)' = standingOf(r)
<1>1. CASE current[r] = 0
  BY <1>1 DEF standingOf, answers, isAiVersion
<1>2. CASE current[r] # 0
  <2>1. PICK n : n = current[r]
    OBVIOUS
  <2>2. HasVersion(r, n)
    BY <1>2, <2>1 DEF IInv, PointerInv
  <2>3. isAiVersion(r, n)' <=> isAiVersion(r, n)
    BY <2>2, GrowsKeeps DEF IInv
  <2> QED BY <1>2, <2>1, <2>3 DEF standingOf, answers, isAiVersion
<1> QED BY <1>1, <1>2

LEMMA QuietStep ==
  ASSUME IInv, Grows, UNCHANGED <<present, discarded, current>>, delivery'.status = "LOCKED" <=> delivery.status = "LOCKED"
  PROVE  UNCHANGED Ledger!ledger
BY StandingKeeps DEF Ledger!ledger
LEMMA AiImplements ==
  ASSUME IInv, NEW e \in Evaluator, AiNext(e)
  PROVE  [Ledger!Next]_Ledger!ledger
<1>1. TakesNothingBack /\ TypeOK /\ AiHolds(e)
  BY AiStep DEF IInv
<1>2. CASE AiClaim(e)
  <2>1. PICK r \in Response, n \in Nat : ai[e].resp = r /\ ai[e].mine = n
    BY <1>1, <1>2 DEF AiClaim, AiPublish, TypeOK, AiState, idle
  <2>2. /\ r \in answers /\ r \in row /\ HasVersion(r, n) /\ isAiVersion(r, n)
        /\ ~isHumanApproved(r)
    BY <1>1, <1>2, <2>1 DEF AiClaim, AiPublish, AiHolds, isHumanApproved
  <2>3. /\ versions' = [versions EXCEPT ![r][n].published = TRUE]
        /\ current' = [current EXCEPT ![r] = n]
        /\ status' = [status EXCEPT ![r] = "AI_SUGGESTED"] /\ UNCHANGED <<present, discarded, row, delivery>>
    BY <1>2, <2>1 DEF AiClaim, AiPublish
  <2>4. current'[r] # 0 /\ isAiVersion(r, current[r])'
    BY <2>2, <2>3, PointerMoves
  <2>5. standingOf(r)' = "suggested"
    BY <2>2, <2>3, <2>4 DEF standingOf, answers
  <2>6. standingOf(r) \in {"unmarked", "suggested"}
    <3>1. CASE current[r] = 0
      BY <2>2, <3>1 DEF standingOf, answers
    <3>2. CASE current[r] # 0
      <4>1. HasVersion(r, current[r])
        BY <3>2 DEF IInv, PointerInv
      <4> QED BY <1>1, <2>2, <3>2, <4>1, SourceIsKnown DEF standingOf, answers, isHumanApproved
    <3> QED BY <3>1, <3>2
  <2>7. \A q \in Response \ {r} : standingOf(q)' = standingOf(q)
    <3>1. \A q \in Response \ {r} : current'[q] = current[q]
      BY <1>1, <2>3 DEF TypeOK
    <3> QED BY <1>1, <2>3, <3>1, StandingKeeps DEF TakesNothingBack
  <2>8. Ledger!Suggest(r)
    BY <2>3, <2>5, <2>6, <2>7 DEF Ledger!Suggest
  <2> QED BY <2>8 DEF Ledger!Next
<1>3. CASE UNCHANGED <<present, discarded, current, delivery>>
  BY <1>1, <1>3, QuietStep DEF TakesNothingBack
<1> QED BY <1>2, <1>3 DEF AiNext, AiRead, AiOpenRow, AiInsert, AiInsertAfter, AiLoseClaim, AiDiscard, AiScore, AiFail, tables

LEMMA DeskImplements ==
  ASSUME IInv, NEW d \in Desk, DeskNext(d)
  PROVE  [Ledger!Next]_Ledger!ledger
<1>1. TakesNothingBack /\ TypeOK /\ DeskHolds(d)
  BY DeskStep DEF IInv
<1>2. CASE DeskPoint(d)
  <2>1. PICK r \in Response, n \in Nat : desk[d].resp = r /\ desk[d].mine = n
    BY <1>1, <1>2 DEF DeskPoint, DeskPointAs, TypeOK, DeskState, idle
  <2>2. r \in answers /\ r \in row /\ HasVersion(r, n) /\ isHumanVersion(r, n)
    BY <1>1, <1>2, <2>1 DEF DeskPoint, DeskPointAs, DeskHolds
  <2>3. PICK k \in {"TEACHER_REVIEWED", "REVIEWER_FINALIZED"} :
          status' = [status EXCEPT ![r] = k]
    BY <1>2, <2>1 DEF DeskPoint, DeskPointAs
  <2>4. /\ versions' = [versions EXCEPT ![r][n].published = TRUE]
        /\ current' = [current EXCEPT ![r] = n] /\ UNCHANGED <<present, discarded, row, delivery>>
    BY <1>2, <2>1 DEF DeskPoint, DeskPointAs
  <2>5. current'[r] # 0 /\ ~isAiVersion(r, current[r])'
    <3>1. ~isAiVersion(r, n)
      BY <1>1, <2>2, SourceIsKnown
    <3> QED BY <2>2, <2>3, <2>4, <3>1, PointerMoves
  <2>6. standingOf(r)' = "approved" /\ standingOf(r) \notin {"absent", "discarded"}
    BY <2>2, <2>4, <2>5 DEF standingOf, answers
  <2>7. \A q \in Response \ {r} : standingOf(q)' = standingOf(q)
    <3>1. \A q \in Response \ {r} : current'[q] = current[q]
      BY <1>1, <2>4 DEF TypeOK
    <3> QED BY <1>1, <2>4, <3>1, StandingKeeps DEF TakesNothingBack
  <2>8. Ledger!Approve({r})
    BY <2>4, <2>6, <2>7 DEF Ledger!Approve, Ledger!exists
  <2> QED BY <2>8 DEF Ledger!Next
<1>3. CASE UNCHANGED <<present, discarded, current, delivery>>
  BY <1>1, <1>3, QuietStep DEF TakesNothingBack
<1> QED BY <1>2, <1>3 DEF DeskNext, DeskRead, DeskOpenRow, DeskInsert, DeskFail, tables

LEMMA SheetImplements ==
  ASSUME IInv, NEW s \in Sheet, SheetNext(s)
  PROVE  [Ledger!Next]_Ledger!ledger
<1>1. TakesNothingBack /\ TypeOK
  BY SheetStep DEF IInv
<1>2. ASSUME NEW W \in SUBSET Response, SheetCommit(s, W)
      PROVE  [Ledger!Next]_Ledger!ledger
  <2>1. /\ W \subseteq answers /\ PointerInv' /\ UNCHANGED <<present, discarded, delivery>>
        /\ \A r \in W : isHumanApproved(r)'
        /\ \A r \in Response \ W : current'[r] = current[r]
    BY <1>2, CommitWrites DEF SheetCommit
  <2>2. \A r \in W : standingOf(r)' = "approved" /\ standingOf(r) \notin {"absent", "discarded"}
    BY <2>1 DEF standingOf, answers, isHumanApproved, isHumanVersion, isAiVersion, HUMAN_SOURCES
  <2>3. \A r \in Response \ W : standingOf(r)' = standingOf(r)
    BY <1>1, <2>1, StandingKeeps DEF TakesNothingBack
  <2>4. CASE W = {}
    BY <2>1, <2>3, <2>4 DEF Ledger!ledger
  <2>5. CASE W # {}
    <3>1. Ledger!Approve(W)
      BY <2>1, <2>2, <2>3, <2>5 DEF Ledger!Approve, Ledger!exists
    <3> QED BY <3>1 DEF Ledger!Next
  <2> QED BY <2>4, <2>5
<1>3. CASE UNCHANGED <<present, discarded, current, delivery>>
  BY <1>1, <1>3, QuietStep DEF TakesNothingBack
<1> QED BY <1>2, <1>3 DEF SheetNext, SheetLoad, SheetFail, tables

LEMMA AdminImplements ==
  ASSUME IInv, NEW a \in Admin, AdminNext(a)
  PROVE  [Ledger!Next]_Ledger!ledger
<1>1. TakesNothingBack /\ TypeOK /\ GateHolds(a) /\ PointerInv
  BY AdminStep DEF IInv
<1>2. UNCHANGED <<present, discarded, current>>
  BY DEF AdminNext, LockGate, LockGateOver, LockCommit, MoveDelivery, LockFail, tables
<1>3. CASE delivery'.status = "LOCKED" <=> delivery.status = "LOCKED"
  BY <1>1, <1>2, <1>3, QuietStep DEF TakesNothingBack
<1>4. CASE ~(delivery'.status = "LOCKED" <=> delivery.status = "LOCKED")
  <2>1. LockCommit(a) /\ delivery.status # "LOCKED" /\ delivery'.status = "LOCKED"
    BY <1>4 DEF AdminNext, LockGate, LockGateOver, LockCommit, MoveDelivery, LockFail
  <2>2. \A r \in Response : standingOf(r)' = standingOf(r)
    BY <1>1, <1>2, StandingKeeps DEF TakesNothingBack
  <2>3. Graded => \A r \in Collected : r \in Response /\ standingOf(r) \in {"approved", "discarded"}
    BY <1>1, <2>1 DEF LockCommit, MoveDelivery, GateHolds, PointerInv, TypeOK, standingOf, answers, isHumanApproved,
       isHumanVersion, isAiVersion, HUMAN_SOURCES
  <2>4. Ledger!Seal
    BY <2>1, <2>2, <2>3 DEF Ledger!Seal
  <2> QED BY <2>4 DEF Ledger!Next
<1> QED BY <1>3, <1>4

LEMMA OtherImplements ==
  ASSUME IInv,
         \/ \E r \in Response : SyncResponse(r) \/ DiscardResponse(r)
         \/ StartEvaluating \/ Unlock
         \/ UNCHANGED vars
  PROVE  [Ledger!Next]_Ledger!ledger
<1>1. TakesNothingBack /\ TypeOK /\ PointerInv
  BY OtherStep DEF IInv
<1>2. ASSUME NEW r \in Response, SyncResponse(r)
      PROVE  Ledger!Arrive(r)
  <2>1. /\ present' = present \cup {r} /\ r \notin present /\ r \notin discarded
        /\ UNCHANGED <<discarded, current, delivery>>
    BY <1>1, <1>2 DEF SyncResponse, PointerInv
  <2>2. current[r] = 0
    BY <1>1, <2>1 DEF PointerInv
  <2>3. standingOf(r) = "absent" /\ standingOf(r)' = "unmarked"
    BY <1>1, <2>1, <2>2 DEF standingOf, answers, isAiVersion
  <2>4. \A q \in Response \ {r} : standingOf(q)' = standingOf(q)
    BY <1>1, <2>1, StandingKeeps DEF TakesNothingBack
  <2> QED BY <2>1, <2>3, <2>4 DEF Ledger!Arrive
<1>3. CASE Unlock
  <2>1. UNCHANGED <<present, discarded, current>> /\ delivery.status = "LOCKED" /\ delivery'.status # "LOCKED"
    BY <1>3 DEF Unlock, MoveDelivery, tables
  <2>2. \A q \in Response : standingOf(q)' = standingOf(q)
    BY <1>1, <2>1, StandingKeeps DEF TakesNothingBack
  <2>3. Ledger!Unseal
    BY <2>1, <2>2 DEF Ledger!Unseal
  <2> QED BY <2>3 DEF Ledger!Next
<1>4. CASE StartEvaluating \/ UNCHANGED vars
  <2>1. UNCHANGED <<present, discarded, current>> /\ (delivery'.status = "LOCKED" <=> delivery.status = "LOCKED")
    BY <1>4 DEF StartEvaluating, MoveDelivery, vars, tables
  <2> QED BY <1>1, <2>1, QuietStep DEF TakesNothingBack
<1>5. ASSUME NEW r \in Response, DiscardResponse(r)
      PROVE  Ledger!Discard(r)
  <2>1. discarded' = discarded \cup {r} /\ r \in answers /\ UNCHANGED <<present, current, delivery>>
    BY <1>5 DEF DiscardResponse
  <2>2. standingOf(r) \notin {"absent", "discarded"} /\ standingOf(r)' = "discarded"
    BY <2>1 DEF standingOf, answers
  <2>3. \A q \in Response \ {r} : standingOf(q)' = standingOf(q)
    BY <1>1, <2>1, StandingKeeps DEF TakesNothingBack
  <2> QED BY <2>1, <2>2, <2>3 DEF Ledger!Discard, Ledger!exists
<1> QED BY <1>2, <1>3, <1>4, <1>5 DEF Ledger!Next

\* Every behaviour of the marking processes is a behaviour of the ledger:
\* suggestions never displace approved marks, and a graded delivery is
\* sealed over approved marks only.
THEOREM Refinement == Spec => ImplementsLedger
<1>1. Init => Ledger!Init
  BY EvaluationAssumption DEF Init, Ledger!Init, standingOf, answers, isAiVersion, EvaluationAssumption
<1>2. IInv /\ [Next]_vars => [Ledger!Next]_Ledger!ledger
  BY AiImplements, DeskImplements, SheetImplements, AdminImplements, OtherImplements DEF Next
<1> QED BY <1>1, <1>2, Invariance, PTL DEF Spec, ImplementsLedger, Ledger!Spec

\* What the ledger promises of an approved mark holds of every interleaving
\* of the handlers, because they implement the ledger.
THEOREM ApprovalsStand == Spec => Ledger!ApprovalStands
<1>1. [Ledger!Next]_Ledger!ledger => [Ledger!KeepsApproved]_Ledger!ledger
  <2> SUFFICES ASSUME Ledger!Next  PROVE Ledger!KeepsApproved
    OBVIOUS
  <2> HIDE DEF standingOf
  <2> QED BY DEF Ledger!Next, Ledger!Arrive, Ledger!Suggest, Ledger!Discard, Ledger!Approve,
                 Ledger!Seal, Ledger!Unseal, Ledger!KeepsApproved
<1> QED BY <1>1, Refinement, PTL DEF ImplementsLedger, Ledger!Spec, Ledger!ApprovalStands

-----------------------------------------------------------------------------
(* The history of an answer.  What was published stays, is continued only  *)
(* by versions whose author had read it as the current one, and a version  *)
(* waiting for its turn belongs to one process.  The second invariant.     *)

Counted(s, n) == n # 0 => n \in 1 .. Len(s) /\ s[n].published
Waiting(s, n) == n \in 1 .. Len(s) /\ ~s[n].published

\* Versions published by a compare-and-swap: the AI's, and all of them if
\* nobody decides or overrides.
IsSwapped(v) == v.source = "AI" \/ Desk = {}

InOrder(s) ==
  \A n \in 1 .. Len(s) :
    /\ s[n].prev < n
    /\ Counted(s, s[n].prev)
    /\ s[n].deleted => s[n].source = "AI" /\ ~s[n].published

\* A swapped version continues a version that was current then and is not
\* now: no other swapped version continues it.
Unforked(s, c) ==
  /\ \A n \in 1 .. Len(s) : s[n].published /\ IsSwapped(s[n]) => s[n].prev # c
  /\ \A m, n \in 1 .. Len(s) :
       /\ s[m].published /\ IsSwapped(s[m])
       /\ s[n].published /\ IsSwapped(s[n])
       /\ m # n
       => s[m].prev # s[n].prev

Sound(s, c) == Counted(s, c) /\ InOrder(s) /\ Unforked(s, c)

AiChained(e) ==
  ai[e].pc # "idle" =>
    LET s == versions[ai[e].resp]
        n == ai[e].mine IN
    /\ Counted(s, ai[e].expected)
    /\ ai[e].pc \in {"claiming", "discarding"} => Waiting(s, n)
    /\ ai[e].pc = "claiming" => ~s[n].deleted /\ s[n].prev = ai[e].expected
    /\ ai[e].pc = "scoring" => Counted(s, n)

DeskChained(d) ==
  desk[d].pc # "idle" =>
    LET s == versions[desk[d].resp] IN
    /\ Counted(s, desk[d].prev)
    /\ desk[d].pc = "pointing" => Waiting(s, desk[d].mine)

SheetChained(s) ==
  sheet[s].pc = "loaded" => \A r \in Response : Counted(versions[r], sheet[s].seen[r])

AiOwns(e, r, n) == ai[e].pc \in {"claiming", "discarding"} /\ ai[e].resp = r /\ ai[e].mine = n
DeskOwns(d, r, n) == desk[d].pc = "pointing" /\ desk[d].resp = r /\ desk[d].mine = n

OneOwner ==
  \A r \in Response : \A n \in 1 .. Len(versions[r]) :
    /\ \A e, f \in Evaluator : AiOwns(e, r, n) /\ AiOwns(f, r, n) => e = f
    /\ \A d, f \in Desk : DeskOwns(d, r, n) /\ DeskOwns(f, r, n) => d = f

ChainInv ==
  /\ \A r \in Response : Sound(versions[r], current[r])
  /\ \A e \in Evaluator : AiChained(e)
  /\ \A d \in Desk : DeskChained(d)
  /\ \A s \in Sheet : SheetChained(s)
  /\ OneOwner

-----------------------------------------------------------------------------
(* One answer's history under the four kinds of update.                    *)

\* What is said of a version by its number survives an update that keeps the
\* versions there are and what they continue, and takes no mark back.
Continues(s, t) ==
  /\ Len(s) <= Len(t)
  /\ \A n \in 1 .. Len(s) :
       t[n].source = s[n].source /\ t[n].prev = s[n].prev /\ (s[n].published => t[n].published)

\* Every version but number n is as it was.
SameBut(s, t, n) == \A k \in 1 .. Len(s) : k # n => t[k] = s[k]

KeepsAll(s, t) == \A k \in 1 .. Len(s) : t[k] = s[k]

\* A version that may become the current one: one that is swapped in
\* continues the one it takes the place of.
MayCount(s, n, c) ==
  Waiting(s, n) /\ ~s[n].deleted /\ (IsSwapped(s[n]) => s[n].prev = c)

\* Recorded, and waiting to be published.
Recorded(s, t, v) ==
  /\ Waiting(t, Len(s) + 1)
  /\ t[Len(s) + 1] = v
  /\ KeepsAll(s, t)

IsNew(v) == ~v.published /\ ~v.deleted
IsSubmitted(v, c) == v.published /\ ~v.deleted /\ v.prev = c

\* A version that counted keeps counting.
LEMMA CountedStays ==
  ASSUME NEW s \in Seq(Version), NEW t \in Seq(Version), Continues(s, t), NEW n, Counted(s, n)
  PROVE  Counted(t, n)
<1>1. Len(s) \in Nat /\ Len(t) \in Nat
  BY LenProperties
<1> QED BY <1>1 DEF Continues, Counted

\* What is known of the fields of a version that is there.
LEMMA PrevIsNat ==
  ASSUME NEW s \in Seq(Version), NEW n \in 1 .. Len(s)
  PROVE  /\ n \in Nat /\ n # 0 /\ s[n] \in Version /\ s[n].prev \in Nat
         /\ s[n].published \in BOOLEAN /\ s[n].deleted \in BOOLEAN
<1>1. s[n] \in Version
  BY ElementOfSeq
<1> QED BY <1>1, LenProperties DEF Version

\* A version that is only recorded so far.
LEMMA SoundAppend ==
  ASSUME NEW s \in Seq(Version), NEW c, Sound(s, c), NEW v \in Version,
         IsNew(v), Counted(s, v.prev), NEW t, t = Append(s, v)
  PROVE  Sound(t, c) /\ Continues(s, t) /\ Recorded(s, t, v)
<1>0. ~v.published /\ ~v.deleted
  BY DEF IsNew
<1>1. /\ t \in Seq(Version) /\ Len(s) \in Nat /\ Len(t) = Len(s) + 1 /\ t[Len(s) + 1] = v
      /\ \A n \in 1 .. Len(s) : t[n] = s[n]
  BY AppendProperties, LenProperties
<1>2. Continues(s, t) /\ Recorded(s, t, v)
  BY <1>0, <1>1 DEF Continues, Waiting, Recorded, KeepsAll
<1>3. Counted(t, c) /\ Counted(t, v.prev)
  BY <1>1, <1>2, CountedStays DEF Sound
<1>4. InOrder(t)
  <2> SUFFICES ASSUME NEW n \in 1 .. Len(t)
               PROVE  /\ t[n].prev < n /\ Counted(t, t[n].prev)
                      /\ t[n].deleted => t[n].source = "AI" /\ ~t[n].published
    BY DEF InOrder
  <2>1. CASE n \in 1 .. Len(s)
    BY <1>1, <1>2, <2>1, CountedStays DEF Sound, InOrder
  <2>2. CASE n = Len(s) + 1
    <3>1. v.prev = 0 \/ v.prev \in 1 .. Len(s)
      BY DEF Counted
    <3> QED BY <1>0, <1>1, <1>3, <2>2, <3>1
  <2> QED BY <1>1, <2>1, <2>2
<1>5. Unforked(t, c)
  <2>1. \A n \in 1 .. Len(t) : t[n].published => n \in 1 .. Len(s) /\ t[n] = s[n]
    BY <1>0, <1>1
  <2> QED BY <2>1 DEF Sound, Unforked
<1> QED BY <1>1, <1>2, <1>3, <1>4, <1>5 DEF Sound

\* A waiting version becomes the current one.
LEMMA SoundPublish ==
  ASSUME NEW s \in Seq(Version), NEW c, Sound(s, c), NEW n, MayCount(s, n, c), NEW t, t = [s EXCEPT ![n].published = TRUE]
  PROVE  t \in Seq(Version) /\ Sound(t, n) /\ Continues(s, t) /\ SameBut(s, t, n)
<1>0. /\ n \in 1 .. Len(s) /\ ~s[n].published /\ s[n] \in Version
      /\ ~s[n].deleted /\ (IsSwapped(s[n]) => s[n].prev = c)
  BY PrevIsNat DEF Waiting, MayCount
<1>1. /\ t \in Seq(Version) /\ Len(t) = Len(s) /\ Len(s) \in Nat
  BY <1>0, FlagVersion, LenProperties
<1>2. /\ \A k \in 1 .. Len(s) : k # n => t[k] = s[k]
      /\ t[n] = [s[n] EXCEPT !.published = TRUE]
  BY <1>0, LenProperties
<1>3. /\ t[n].published /\ t[n].prev = s[n].prev /\ t[n].deleted = s[n].deleted
      /\ t[n].source = s[n].source
  BY <1>0, <1>2 DEF Version
<1>4. Continues(s, t)
  BY <1>1, <1>2, <1>3 DEF Continues
<1>5. Counted(t, n)
  BY <1>0, <1>1, <1>3 DEF Counted
<1>6. InOrder(t)
  <2> SUFFICES ASSUME NEW k \in 1 .. Len(s)
               PROVE  /\ t[k].prev < k /\ Counted(t, t[k].prev)
                      /\ t[k].deleted => t[k].source = "AI" /\ ~t[k].published
    BY <1>1 DEF InOrder
  <2>1. t[k].prev = s[k].prev /\ t[k].source = s[k].source /\ t[k].deleted = s[k].deleted
    BY <1>2, <1>3
  <2>2. t[k].prev < k /\ Counted(t, t[k].prev)
    BY <1>1, <1>4, <2>1, CountedStays DEF Sound, InOrder
  <2>3. t[k].deleted => k # n
    BY <1>0, <1>3
  <2> QED BY <1>2, <2>2, <2>3 DEF Sound, InOrder
<1>7. Unforked(t, n)
  <2>1. \A k \in 1 .. Len(s) : s[k].prev # n
    <3> SUFFICES ASSUME NEW k \in 1 .. Len(s), s[k].prev = n
                 PROVE  FALSE
      OBVIOUS
    <3>1. Counted(s, n)
      BY DEF Sound, InOrder
    <3> QED BY <1>0, <3>1, PrevIsNat DEF Counted
  <2>2. \A k \in 1 .. Len(s) : t[k].prev = s[k].prev /\ (IsSwapped(t[k]) <=> IsSwapped(s[k]))
    BY <1>2, <1>3 DEF IsSwapped
  <2>3. \A k \in 1 .. Len(s) : k # n /\ t[k].published => s[k].published
    BY <1>2
  <2>4. ASSUME NEW j \in 1 .. Len(s), NEW k \in 1 .. Len(s), j # k,
               t[j].published, IsSwapped(t[j]), t[k].published, IsSwapped(t[k])
        PROVE  t[j].prev # t[k].prev
    <3>1. CASE j = n
      BY <1>0, <2>2, <2>3, <2>4, <3>1 DEF Sound, Unforked
    <3>2. CASE k = n
      BY <1>0, <2>2, <2>3, <2>4, <3>2 DEF Sound, Unforked
    <3>3. CASE j # n /\ k # n
      BY <2>2, <2>3, <2>4, <3>3 DEF Sound, Unforked
    <3> QED BY <3>1, <3>2, <3>3
  <2> QED BY <1>1, <2>1, <2>2, <2>4 DEF Unforked
<1> QED BY <1>1, <1>2, <1>4, <1>5, <1>6, <1>7 DEF Sound, SameBut

\* A version is taken out of the history before it was part of it, or gets
\* its criterion scores.
LEMMA SoundFlag ==
  ASSUME NEW s \in Seq(Version), NEW c, Sound(s, c), NEW n \in 1 .. Len(s), s[n].source = "AI",
         NEW t,
         \/ t = [s EXCEPT ![n].deleted = TRUE] /\ Waiting(s, n)
         \/ t = [s EXCEPT ![n].criteria = TRUE]
  PROVE  t \in Seq(Version) /\ Sound(t, c) /\ Continues(s, t) /\ SameBut(s, t, n)
<1>0. s[n] \in Version
  BY PrevIsNat
<1>1. /\ t \in Seq(Version) /\ Len(t) = Len(s) /\ Len(s) \in Nat
  BY <1>0, FlagVersion, LenProperties
<1>2. /\ \A k \in 1 .. Len(s) : k # n => t[k] = s[k]
      /\ \/ t[n] = [s[n] EXCEPT !.deleted = TRUE] /\ ~s[n].published
         \/ t[n] = [s[n] EXCEPT !.criteria = TRUE]
  BY <1>0, LenProperties DEF Waiting
<1>3. /\ t[n].published = s[n].published /\ t[n].prev = s[n].prev /\ t[n].source = s[n].source
      /\ t[n].deleted => s[n].deleted \/ ~s[n].published
  BY <1>0, <1>2 DEF Version
<1>4. \A k \in 1 .. Len(s) :
        /\ t[k].published = s[k].published /\ t[k].prev = s[k].prev /\ t[k].source = s[k].source
        /\ t[k].deleted => s[k].deleted \/ (k = n /\ ~s[n].published)
  BY <1>2, <1>3
<1>5. Continues(s, t)
  BY <1>1, <1>4 DEF Continues
<1>6. Counted(t, c)
  BY <1>1, <1>5, CountedStays DEF Sound
<1>7. InOrder(t)
  <2> SUFFICES ASSUME NEW k \in 1 .. Len(s)
               PROVE  /\ t[k].prev < k /\ Counted(t, t[k].prev)
                      /\ t[k].deleted => t[k].source = "AI" /\ ~t[k].published
    BY <1>1 DEF InOrder
  <2>1. t[k].prev < k /\ Counted(t, t[k].prev)
    BY <1>1, <1>4, <1>5, CountedStays DEF Sound, InOrder
  <2>2. t[k].deleted => t[k].source = "AI" /\ ~t[k].published
    BY <1>4 DEF Sound, InOrder
  <2> QED BY <2>1, <2>2
<1>8. Unforked(t, c)
  BY <1>1, <1>4 DEF Sound, Unforked, IsSwapped
<1> QED BY <1>1, <1>2, <1>5, <1>6, <1>7, <1>8 DEF Sound, SameBut

\* A submission records and publishes in one step.
LEMMA SoundCommit ==
  ASSUME NEW s \in Seq(Version), NEW c, Sound(s, c), NEW v \in Version,
         IsSubmitted(v, c),
         NEW t, t = Append(s, v)
  PROVE  Sound(t, Len(s) + 1) /\ Continues(s, t) /\ KeepsAll(s, t)
<1>1. /\ t \in Seq(Version) /\ Len(s) \in Nat /\ Len(t) = Len(s) + 1 /\ t[Len(s) + 1] = v
      /\ \A n \in 1 .. Len(s) : t[n] = s[n]
  BY AppendProperties, LenProperties
<1>a. v.published /\ ~v.deleted /\ v.prev = c
  BY DEF IsSubmitted
<1>2. Continues(s, t) /\ Counted(t, Len(s) + 1)
  BY <1>a, <1>1 DEF Continues, Counted
<1>3. Counted(t, v.prev) /\ (v.prev = 0 \/ v.prev \in 1 .. Len(s))
  BY <1>a, <1>1, <1>2, CountedStays DEF Sound, Counted
<1>4. InOrder(t)
  <2> SUFFICES ASSUME NEW n \in 1 .. Len(t)
               PROVE  /\ t[n].prev < n /\ Counted(t, t[n].prev)
                      /\ t[n].deleted => t[n].source = "AI" /\ ~t[n].published
    BY DEF InOrder
  <2>1. CASE n \in 1 .. Len(s)
    BY <1>a, <1>1, <1>2, <2>1, CountedStays DEF Sound, InOrder
  <2>2. CASE n = Len(s) + 1
    BY <1>a, <1>1, <1>3, <2>2
  <2> QED BY <1>a, <1>1, <2>1, <2>2
<1>5. Unforked(t, Len(s) + 1)
  <2>1. \A n \in 1 .. Len(s) : s[n].prev < n /\ s[n].prev \in Nat
    BY PrevIsNat DEF Sound, InOrder
  <2>2. \A n \in 1 .. Len(t) : t[n].prev # Len(s) + 1
    BY <1>a, <1>1, <1>3, <2>1
  <2>3. \A m, n \in 1 .. Len(s) :
          /\ s[m].published /\ IsSwapped(s[m])
          /\ s[n].published /\ IsSwapped(s[n])
          /\ m # n
          => t[m].prev # t[n].prev
    BY <1>a, <1>1 DEF Sound, Unforked
  <2>4. \A m \in 1 .. Len(s) : s[m].published /\ IsSwapped(s[m]) => t[m].prev # t[Len(s) + 1].prev
    BY <1>a, <1>1 DEF Sound, Unforked
  <2>5. \A n \in 1 .. Len(t) : n \in 1 .. Len(s) \/ n = Len(s) + 1
    BY <1>a, <1>1
  <2> QED BY <1>a, <1>1, <2>2, <2>3, <2>4, <2>5 DEF Unforked
<1> QED BY <1>1, <1>2, <1>4, <1>5 DEF Sound, KeepsAll

-----------------------------------------------------------------------------
(* What the second invariant says of the processes that do not move.       *)

Evolve ==
  /\ versions' \in [Response -> Seq(Version)]
  /\ \A r \in Response : Continues(versions[r], versions'[r])

SoundAfter == \A r \in Response : Sound(versions'[r], current'[r])

\* The versions of one answer change, and its pointer at most.
LEMMA OneAnswerEvolves ==
  ASSUME TypeOK, ChainInv, NEW r \in Response, NEW t \in Seq(Version), NEW c,
         Continues(versions[r], t), Sound(t, c),
         versions' = [versions EXCEPT ![r] = t], current' = [current EXCEPT ![r] = c]
  PROVE  Evolve /\ SoundAfter
<1>1. \A q \in Response : Len(versions[q]) \in Nat
  BY LenProperties DEF TypeOK
<1>2. \A q \in Response : Continues(versions[q], versions[q])
  BY <1>1 DEF Continues
<1>3. \A q \in Response \ {r} : versions'[q] = versions[q] /\ current'[q] = current[q]
  BY DEF TypeOK
<1>4. versions'[r] = t /\ current'[r] = c /\ versions' \in [Response -> Seq(Version)]
  BY DEF TypeOK
<1> QED BY <1>2, <1>3, <1>4 DEF Evolve, SoundAfter, ChainInv

\* Nor do the histories, when no table of marks changes.
LEMMA NothingEvolves ==
  ASSUME TypeOK, ChainInv, UNCHANGED <<versions, current>>
  PROVE  Evolve /\ SoundAfter
<1>1. \A q \in Response : Len(versions[q]) \in Nat
  BY LenProperties DEF TypeOK
<1>2. \A q \in Response : Continues(versions[q], versions[q])
  BY <1>1 DEF Continues
<1> QED BY <1>2 DEF Evolve, SoundAfter, ChainInv, TypeOK

\* What was known to have counted is still known to, after a step.
LEMMA CountedLasts ==
  ASSUME TypeOK, Evolve, NEW r \in Response, NEW n, Counted(versions[r], n)
  PROVE  Counted(versions'[r], n)
BY CountedStays DEF TypeOK, Evolve

\* A version nobody touched is still waiting.
LEMMA WaitingLasts ==
  ASSUME TypeOK, Evolve, NEW r \in Response, NEW n, Waiting(versions[r], n),
         versions'[r][n] = versions[r][n]
  PROVE  Waiting(versions'[r], n)
<1>1. Len(versions[r]) \in Nat /\ Len(versions'[r]) \in Nat
  BY LenProperties DEF TypeOK, Evolve
<1> QED BY <1>1 DEF Evolve, Continues, Waiting

\* The version a call waits with is one of the AI's, that of a request a
\* human's, and either is there.
LEMMA OwnedIsThere ==
  ASSUME IInv, ChainInv, NEW r, NEW n
  PROVE  /\ \A e \in Evaluator : AiOwns(e, r, n) =>
              r \in Response /\ HasVersion(r, n) /\ isAiVersion(r, n)
         /\ \A d \in Desk : DeskOwns(d, r, n) =>
              r \in Response /\ HasVersion(r, n) /\ isHumanVersion(r, n)
BY DEF IInv, TypeOK, AiOwns, DeskOwns, AiHolds, DeskHolds, AiState, DeskState, idle

AiSpared(e) == \A r, n : AiOwns(e, r, n) => versions'[r][n] = versions[r][n]
DeskSpared(d) == \A r, n : DeskOwns(d, r, n) => versions'[r][n] = versions[r][n]

\* What is known of a call, a request and a submission that do not move.
LEMMA AiChainKeeps ==
  ASSUME TypeOK, Evolve, NEW e \in Evaluator, AiChained(e), ai'[e] = ai[e], AiSpared(e)
  PROVE  AiChained(e)'
<1> SUFFICES ASSUME ai[e].pc # "idle"
             PROVE  AiChained(e)'
  BY DEF AiChained
<1> DEFINE r == ai[e].resp
           n == ai[e].mine
<1>1. r \in Response
  BY DEF TypeOK, AiState, idle
<1>2. Counted(versions'[r], ai[e].expected)
  BY <1>1, CountedLasts DEF AiChained
<1>3. ai[e].pc \in {"claiming", "discarding"} =>
        Waiting(versions[r], n) /\ versions'[r][n] = versions[r][n]
  BY DEF AiChained, AiSpared, AiOwns
<1>4. ai[e].pc \in {"claiming", "discarding"} => Waiting(versions'[r], n)
  BY <1>1, <1>3, WaitingLasts
<1>5. ai[e].pc = "scoring" => Counted(versions'[r], n)
  BY <1>1, CountedLasts DEF AiChained
<1> QED BY <1>2, <1>3, <1>4, <1>5 DEF AiChained

LEMMA DeskChainKeeps ==
  ASSUME TypeOK, Evolve, NEW d \in Desk, DeskChained(d), desk'[d] = desk[d], DeskSpared(d)
  PROVE  DeskChained(d)'
<1> SUFFICES ASSUME desk[d].pc # "idle"
             PROVE  DeskChained(d)'
  BY DEF DeskChained
<1> DEFINE r == desk[d].resp
           n == desk[d].mine
<1>1. r \in Response
  BY DEF TypeOK, DeskState, idle
<1>2. Counted(versions'[r], desk[d].prev)
  BY <1>1, CountedLasts DEF DeskChained
<1>3. desk[d].pc = "pointing" => Waiting(versions[r], n) /\ versions'[r][n] = versions[r][n]
  BY DEF DeskChained, DeskSpared, DeskOwns
<1>4. desk[d].pc = "pointing" => Waiting(versions'[r], n)
  BY <1>1, <1>3, WaitingLasts
<1> QED BY <1>2, <1>4 DEF DeskChained

LEMMA SheetChainKeeps ==
  ASSUME TypeOK, Evolve, NEW s \in Sheet, SheetChained(s), sheet'[s] = sheet[s]
  PROVE  SheetChained(s)'
BY CountedLasts DEF SheetChained

\* A waiting version has one owner as long as at most one call or request
\* moves, to a version of its own or to one that was not there.
LEMMA OwnersKeep ==
  ASSUME IInv, ChainInv,
         NEW a, \A e \in Evaluator \ {a} : ai'[e] = ai[e],
         NEW b, \A d \in Desk \ {b} : desk'[d] = desk[d],
         \A r, n : AiOwns(a, r, n)' => AiOwns(a, r, n) \/ ~HasVersion(r, n),
         \A r, n : DeskOwns(b, r, n)' => DeskOwns(b, r, n) \/ ~HasVersion(r, n)
  PROVE  OneOwner'
<1> SUFFICES ASSUME NEW r \in Response, NEW n \in 1 .. Len(versions'[r])
             PROVE  /\ \A e, f \in Evaluator : AiOwns(e, r, n)' /\ AiOwns(f, r, n)' => e = f
                    /\ \A d, f \in Desk : DeskOwns(d, r, n)' /\ DeskOwns(f, r, n)' => d = f
  BY DEF OneOwner, AiOwns, DeskOwns
<1>1. /\ \A e \in Evaluator : AiOwns(e, r, n) => HasVersion(r, n)
      /\ \A d \in Desk : DeskOwns(d, r, n) => HasVersion(r, n)
  BY OwnedIsThere
<1>2. /\ \A e, f \in Evaluator : AiOwns(e, r, n) /\ AiOwns(f, r, n) => e = f
      /\ \A d, f \in Desk : DeskOwns(d, r, n) /\ DeskOwns(f, r, n) => d = f
  BY <1>1 DEF ChainInv, OneOwner, HasVersion
<1>3. /\ \A e \in Evaluator \ {a} : AiOwns(e, r, n)' => AiOwns(e, r, n)
      /\ \A d \in Desk \ {b} : DeskOwns(d, r, n)' => DeskOwns(d, r, n)
  BY DEF AiOwns, DeskOwns
<1> QED BY <1>1, <1>2, <1>3

\* The second invariant after a step, from what the step does to the
\* histories and to the processes that moved.
LEMMA ChainReassemble ==
  ASSUME IInv, ChainInv, Evolve, SoundAfter, OneOwner',
         \A e \in Evaluator : (ai'[e] = ai[e] /\ AiSpared(e)) \/ AiChained(e)',
         \A d \in Desk : (desk'[d] = desk[d] /\ DeskSpared(d)) \/ DeskChained(d)',
         \A s \in Sheet : sheet'[s] = sheet[s] \/ SheetChained(s)'
  PROVE  ChainInv'
<1>0. TypeOK
  BY DEF IInv
<1>1. \A e \in Evaluator : AiChained(e)'
  BY <1>0, AiChainKeeps DEF ChainInv
<1>2. \A d \in Desk : DeskChained(d)'
  BY <1>0, DeskChainKeeps DEF ChainInv
<1>3. \A s \in Sheet : SheetChained(s)'
  BY <1>0, SheetChainKeeps DEF ChainInv
<1> QED BY <1>1, <1>2, <1>3 DEF ChainInv, SoundAfter

\* The versions of the processes a step does not speak of are left alone,
\* if the one version it marks is nobody else's.
LEMMA OthersSpared ==
  ASSUME IInv, ChainInv, NEW r, NEW n,
         \A q \in Response : \A k :
           HasVersion(q, k) /\ ~(q = r /\ k = n) => versions'[q][k] = versions[q][k]
  PROVE  /\ \A e \in Evaluator : AiOwns(e, r, n) \/ AiSpared(e)
         /\ \A d \in Desk : DeskOwns(d, r, n) \/ DeskSpared(d)
<1>1. ASSUME NEW e \in Evaluator, ~AiOwns(e, r, n), NEW q, NEW k, AiOwns(e, q, k)
      PROVE  versions'[q][k] = versions[q][k]
  BY <1>1, OwnedIsThere
<1>2. ASSUME NEW d \in Desk, ~DeskOwns(d, r, n), NEW q, NEW k, DeskOwns(d, q, k)
      PROVE  versions'[q][k] = versions[q][k]
  BY <1>2, OwnedIsThere
<1> QED BY <1>1, <1>2 DEF AiSpared, DeskSpared

\* A step that writes no version touches nobody's.
LEMMA SparedByIdle ==
  ASSUME UNCHANGED versions
  PROVE  (\A e \in Evaluator : AiSpared(e)) /\ (\A d \in Desk : DeskSpared(d))
BY DEF AiSpared, DeskSpared

\* A call or a request inserts version v of answer r, as number m.
IsInserted(r, m, v) ==
  /\ Evolve /\ SoundAfter
  /\ Waiting(versions'[r], m) /\ versions'[r][m] = v /\ ~HasVersion(r, m)
  /\ \A e \in Evaluator : AiSpared(e)
  /\ \A d \in Desk : DeskSpared(d)

LEMMA Inserts ==
  ASSUME IInv, ChainInv, NEW r \in Response, NEW v \in Version,
         IsNew(v), Counted(versions[r], v.prev), NEW m, m = Len(versions[r]) + 1,
         versions' = [versions EXCEPT ![r] = Append(versions[r], v)], UNCHANGED current
  PROVE  IsInserted(r, m, v)
<1>1. PICK s \in Seq(Version), c \in Nat : s = versions[r] /\ c = current[r] /\ Sound(s, c)
  BY DEF IInv, TypeOK, ChainInv
<1>2. PICK t : t = Append(s, v)
  OBVIOUS
<1>3. Counted(s, v.prev) /\ m = Len(s) + 1
  BY <1>1
<1>4. Sound(t, c) /\ Continues(s, t) /\ Recorded(s, t, v)
  BY <1>1, <1>2, <1>3, SoundAppend
<1>5. t \in Seq(Version) /\ Len(s) \in Nat
  BY <1>2, AppendVersion, LenProperties
<1>6. versions' = [versions EXCEPT ![r] = t] /\ current' = [current EXCEPT ![r] = c]
  BY <1>1, <1>2 DEF IInv, TypeOK
<1>7. versions'[r] = t
  BY <1>6 DEF IInv, TypeOK
<1>8. Evolve /\ SoundAfter
  BY <1>1, <1>4, <1>5, <1>6, OneAnswerEvolves DEF IInv
<1>9. Waiting(versions'[r], m) /\ versions'[r][m] = v
  BY <1>3, <1>4, <1>7 DEF Recorded
<1>10. ~HasVersion(r, m)
  BY <1>1, <1>3, <1>5 DEF HasVersion
<1>11. (\A e \in Evaluator : AiSpared(e)) /\ (\A d \in Desk : DeskSpared(d))
  <2>1. \A q \in Response : \A k : HasVersion(q, k) => versions'[q][k] = versions[q][k]
    BY <1>1, <1>4, <1>6 DEF HasVersion, IInv, TypeOK, Recorded, KeepsAll
  <2> QED BY <2>1, OwnedIsThere DEF AiSpared, DeskSpared
<1> QED BY <1>8, <1>9, <1>10, <1>11 DEF IsInserted

\* A call or a request publishes a version that waits for it.
LEMMA Publishes ==
  ASSUME IInv, ChainInv, NEW r \in Response, NEW n,
         MayCount(versions[r], n, current[r]),
         versions' = [versions EXCEPT ![r][n].published = TRUE],
         current' = [current EXCEPT ![r] = n]
  PROVE  /\ Evolve /\ SoundAfter /\ Counted(versions'[r], n)
         /\ \A e \in Evaluator : AiOwns(e, r, n) \/ AiSpared(e)
         /\ \A d \in Desk : DeskOwns(d, r, n) \/ DeskSpared(d)
<1>1. PICK s \in Seq(Version), c \in Nat : s = versions[r] /\ c = current[r] /\ Sound(s, c)
  BY DEF IInv, TypeOK, ChainInv
<1>2. PICK t : t = [s EXCEPT ![n].published = TRUE]
  OBVIOUS
<1>3. MayCount(s, n, c)
  BY <1>1
<1>4. t \in Seq(Version) /\ Sound(t, n) /\ Continues(s, t) /\ SameBut(s, t, n)
  BY <1>1, <1>2, <1>3, SoundPublish
<1>5. versions' = [versions EXCEPT ![r] = t]
  BY <1>1, <1>2 DEF IInv, TypeOK
<1>6. Evolve /\ SoundAfter
  BY <1>1, <1>4, <1>5, OneAnswerEvolves DEF IInv
<1>7. Counted(versions'[r], n)
  BY <1>4, <1>5 DEF Sound, IInv, TypeOK
<1>8. \A q \in Response : \A k :
        HasVersion(q, k) /\ ~(q = r /\ k = n) => versions'[q][k] = versions[q][k]
  BY <1>1, <1>4, <1>5 DEF HasVersion, SameBut, IInv, TypeOK
<1> QED BY <1>6, <1>7, <1>8, OthersSpared

\* A call takes the version it lost with out of the history, or scores the
\* one it won with.
LEMMA Flags ==
  ASSUME IInv, ChainInv, NEW r \in Response, NEW n, HasVersion(r, n), isAiVersion(r, n),
         \/ versions' = [versions EXCEPT ![r][n].deleted = TRUE] /\ Waiting(versions[r], n)
         \/ versions' = [versions EXCEPT ![r][n].criteria = TRUE],
         UNCHANGED current
  PROVE  /\ Evolve /\ SoundAfter
         /\ \A e \in Evaluator : AiOwns(e, r, n) \/ AiSpared(e)
         /\ \A d \in Desk : DeskOwns(d, r, n) \/ DeskSpared(d)
<1>1. PICK s \in Seq(Version), c \in Nat : s = versions[r] /\ c = current[r] /\ Sound(s, c)
  BY DEF IInv, TypeOK, ChainInv
<1>2. PICK t : /\ versions' = [versions EXCEPT ![r] = t]
               /\ \/ t = [s EXCEPT ![n].deleted = TRUE] /\ Waiting(s, n)
                  \/ t = [s EXCEPT ![n].criteria = TRUE]
  BY <1>1 DEF IInv, TypeOK
<1>3. n \in 1 .. Len(s) /\ s[n].source = "AI"
  BY <1>1 DEF HasVersion, isAiVersion
<1>4. t \in Seq(Version) /\ Sound(t, c) /\ Continues(s, t) /\ SameBut(s, t, n)
  BY <1>1, <1>2, <1>3, SoundFlag
<1>5. current' = [current EXCEPT ![r] = c]
  BY <1>1 DEF IInv, TypeOK
<1>6. Evolve /\ SoundAfter
  BY <1>1, <1>2, <1>4, <1>5, OneAnswerEvolves DEF IInv
<1>7. \A q \in Response : \A k :
        HasVersion(q, k) /\ ~(q = r /\ k = n) => versions'[q][k] = versions[q][k]
  BY <1>1, <1>2, <1>4 DEF HasVersion, SameBut, IInv, TypeOK
<1> QED BY <1>6, <1>7, OthersSpared

\* The call that moves: what it holds after its step.
LEMMA AiChainMoves ==
  ASSUME NEW e, NEW q \in AiPc, NEW r, NEW x, NEW m,
         ai'[e] = AiBusy(q, r, x, m),
         Counted(versions'[r], x),
         q \in {"claiming", "discarding"} => Waiting(versions'[r], m),
         q = "claiming" => ~versions'[r][m].deleted /\ versions'[r][m].prev = x,
         q = "scoring" => Counted(versions'[r], m)
  PROVE  AiChained(e)'
BY DEF AiChained, AiBusy

\* Every step of an AI call keeps the second invariant.
LEMMA AiChainStep ==
  ASSUME IInv, ChainInv, NEW e \in Evaluator, AiNext(e)
  PROVE  ChainInv'
<1>0. TypeOK /\ AiHolds(e) /\ AiChained(e)
  BY DEF IInv, ChainInv
<1>a. /\ \A f \in Evaluator \ {e} : ai'[f] = ai[f]
      /\ UNCHANGED <<desk, sheet>>
  BY <1>0 DEF AiNext, AiRead, AiOpenRow, AiInsert, AiInsertAfter, AiClaim, AiPublish, AiLoseClaim, AiDiscard, AiScore,
     AiFail, TypeOK
<1> SUFFICES
      /\ Evolve /\ SoundAfter /\ AiChained(e)'
      /\ \A f \in Evaluator \ {e} : AiSpared(f)
      /\ \A d \in Desk : DeskSpared(d)
      /\ \A r, n : AiOwns(e, r, n)' => AiOwns(e, r, n) \/ ~HasVersion(r, n)
  <2>1. \A r, n : DeskOwns(e, r, n)' => DeskOwns(e, r, n)
    BY <1>a DEF DeskOwns
  <2>2. OneOwner'
    BY <1>a, <2>1, OwnersKeep
  <2> QED BY <1>a, <2>2, ChainReassemble
<1>1. ASSUME NEW q \in Response, AiRead(e, q)
      PROVE  /\ UNCHANGED <<versions, current>> /\ AiChained(e)'
             /\ \A r, n : ~AiOwns(e, r, n)'
  <2> DEFINE p == IF q \in row THEN "writing" ELSE "opening"
  <2>1. /\ ai'[e] = AiBusy(p, q, current[q], 0) /\ UNCHANGED <<versions, current>>
    BY <1>0, <1>1 DEF AiRead, AiBusy, TypeOK, tables
  <2>2. Counted(versions[q], current[q])
    BY DEF ChainInv, Sound
  <2> QED BY <2>1, <2>2 DEF AiChained, AiBusy, AiOwns
<1>2. ASSUME ~\E q \in Response : AiRead(e, q)
      PROVE  /\ Evolve /\ SoundAfter /\ AiChained(e)'
             /\ \A f \in Evaluator \ {e} : AiSpared(f)
             /\ \A d \in Desk : DeskSpared(d)
             /\ \A r, n : AiOwns(e, r, n)' => AiOwns(e, r, n) \/ ~HasVersion(r, n)
  <2>i. ai[e].pc # "idle"
    BY <1>2 DEF AiNext, AiOpenRow, AiInsert, AiInsertAfter, AiClaim, AiPublish, AiLoseClaim, AiDiscard, AiScore, AiFail
  <2>0. PICK p \in AiPc, r \in Response, x \in Nat, n \in Nat : ai[e] = AiBusy(p, r, x, n)
    <3>1. ai[e].pc \in AiPc
      BY <1>0, <2>i DEF TypeOK, AiState, idle, AiPc
    <3> QED BY <1>0, <2>i, <3>1, AiIsBusy
  <2>a. ai[e].resp = r /\ ai[e].expected = x /\ ai[e].mine = n /\ Counted(versions[r], x)
    BY <1>0, <2>i, <2>0 DEF AiBusy, AiChained
  <2>c. ASSUME ai[e].pc \in {"claiming", "discarding", "scoring"}
        PROVE  /\ HasVersion(r, n) /\ isAiVersion(r, n)
               /\ \A d \in Desk : ~DeskOwns(d, r, n)
               /\ \A f \in Evaluator \ {e} : ~AiOwns(f, r, n)
    <3>1. HasVersion(r, n) /\ isAiVersion(r, n)
      BY <1>0, <2>a, <2>c DEF AiHolds
    <3>2. \A d \in Desk : ~DeskOwns(d, r, n)
      BY <3>1, OwnedIsThere DEF isAiVersion, isHumanVersion, HUMAN_SOURCES
    <3>3. CASE ai[e].pc = "scoring"
      <4>1. Counted(versions[r], n) /\ n # 0
        BY <1>0, <2>a, <3>1, <3>3 DEF AiChained, isAiVersion
      <4> QED BY <3>1, <3>2, <4>1 DEF Counted, Waiting, ChainInv, AiChained, AiOwns
    <3>4. CASE ai[e].pc \in {"claiming", "discarding"}
      BY <2>a, <3>1, <3>2, <3>4 DEF ChainInv, OneOwner, AiOwns, HasVersion
    <3> QED BY <2>c, <3>3, <3>4
  <2>1. CASE AiOpenRow(e)
    <3>1. UNCHANGED <<versions, current>> /\ ai'[e] = AiBusy("writing", r, x, n)
      <4>1. ai' = [ai EXCEPT ![e].pc = "writing"] /\ UNCHANGED <<versions, current>>
        BY <2>1 DEF AiOpenRow
      <4> QED BY <1>0, <2>0, <4>1 DEF AiBusy, TypeOK
    <3>2. AiChained(e)' /\ \A q, k : ~AiOwns(e, q, k)'
      BY <2>a, <3>1, AiChainMoves DEF AiPc, AiOwns, AiBusy
    <3> QED BY <1>0, <3>1, <3>2, NothingEvolves, SparedByIdle
  <2>2. CASE AiInsert(e)
    <3>0. PICK m : m = Len(versions[r]) + 1
      OBVIOUS
    <3>1. PICK v \in Version : v = NewVersion("AI", x, FALSE) /\ IsNew(v) /\ v.prev = x
      <4>1. NewVersion("AI", x, FALSE) \in Version
        BY NewVersionType DEF Source
      <4> QED BY <4>1 DEF NewVersion, IsNew
    <3>2. versions' = [versions EXCEPT ![r] = Append(versions[r], v)] /\ UNCHANGED current
      BY <2>2, <2>a, <3>1 DEF AiInsert, AiInsertAfter
    <3>3. ai'[e] = AiBusy("claiming", r, x, m)
      BY <1>0, <2>2, <2>0, <2>a, <3>0 DEF AiInsert, AiInsertAfter, AiBusy, TypeOK
    <3>4. Counted(versions[r], v.prev)
      BY <2>a, <3>1
    <3>5. /\ Evolve /\ SoundAfter
          /\ Waiting(versions'[r], m) /\ versions'[r][m] = v /\ ~HasVersion(r, m)
          /\ (\A f \in Evaluator : AiSpared(f)) /\ (\A d \in Desk : DeskSpared(d))
      <4>1. IsInserted(r, m, v)
        BY <3>0, <3>1, <3>2, <3>4, Inserts
      <4> QED BY <4>1 DEF IsInserted
    <3>6. AiChained(e)'
      <4>1. Counted(versions'[r], x)
        BY <1>0, <2>a, <3>5, CountedLasts
      <4>2. ~versions'[r][m].deleted /\ versions'[r][m].prev = x
        BY <3>1, <3>5 DEF IsNew
      <4> QED BY <3>3, <3>5, <4>1, <4>2, AiChainMoves DEF AiPc
    <3>7. \A q, k : AiOwns(e, q, k)' => ~HasVersion(q, k)
      BY <3>3, <3>5 DEF AiOwns, AiBusy
    <3> QED BY <3>5, <3>6, <3>7
  <2>3. CASE AiClaim(e)
    <3>1. /\ versions' = [versions EXCEPT ![r][n].published = TRUE]
          /\ current' = [current EXCEPT ![r] = n] /\ current[r] = x
          /\ ai[e].pc = "claiming"
      BY <2>3, <2>a DEF AiClaim, AiPublish
    <3>2. ai'[e] = AiBusy("scoring", r, x, n)
      BY <1>0, <2>3, <2>0 DEF AiClaim, AiPublish, AiBusy, TypeOK
    <3>3. MayCount(versions[r], n, current[r])
      BY <1>0, <2>a, <3>1 DEF AiChained, MayCount
    <3>4. /\ Evolve /\ SoundAfter /\ Counted(versions'[r], n)
          /\ \A f \in Evaluator : AiOwns(f, r, n) \/ AiSpared(f)
          /\ \A d \in Desk : DeskOwns(d, r, n) \/ DeskSpared(d)
      BY <3>1, <3>3, Publishes
    <3>5. AiChained(e)'
      <4>1. Counted(versions'[r], x)
        BY <1>0, <2>a, <3>4, CountedLasts
      <4> QED BY <3>2, <3>4, <4>1, AiChainMoves DEF AiPc
    <3>6. \A q, k : ~AiOwns(e, q, k)'
      BY <3>2 DEF AiOwns, AiBusy
    <3> QED BY <2>c, <3>1, <3>4, <3>5, <3>6
  <2>4. CASE AiLoseClaim(e)
    <3>1. /\ UNCHANGED <<versions, current>> /\ ai[e].pc = "claiming"
          /\ ai'[e] = AiBusy("discarding", r, x, n)
      <4>1. ai' = [ai EXCEPT ![e].pc = "discarding"] /\ UNCHANGED <<versions, current>> /\ ai[e].pc = "claiming"
        BY <2>4 DEF AiLoseClaim, tables
      <4>2. ai'[e] = [ai[e] EXCEPT !.pc = "discarding"]
        BY <1>0, <4>1 DEF TypeOK
      <4>3. ai'[e] = AiBusy("discarding", r, x, n)
        BY <2>0, <4>2 DEF AiBusy
      <4> QED BY <4>1, <4>3
    <3>2. Waiting(versions'[r], n) /\ Counted(versions'[r], x)
      BY <1>0, <2>a, <3>1 DEF AiChained
    <3>3. AiChained(e)'
      BY <3>1, <3>2, AiChainMoves DEF AiPc
    <3>4. \A q, k : AiOwns(e, q, k)' => AiOwns(e, q, k)
      BY <2>a, <3>1 DEF AiOwns, AiBusy
    <3> QED BY <1>0, <3>1, <3>3, <3>4, NothingEvolves, SparedByIdle
  <2>5. CASE AiDiscard(e) \/ AiScore(e)
    <3>1. HasVersion(r, n) /\ isAiVersion(r, n) /\ ai[e].pc \in {"discarding", "scoring"}
      BY <2>5, <2>a, <2>c DEF AiDiscard, AiScore
    <3>2. /\ \/ versions' = [versions EXCEPT ![r][n].deleted = TRUE] /\ Waiting(versions[r], n)
             \/ versions' = [versions EXCEPT ![r][n].criteria = TRUE]
          /\ UNCHANGED current /\ ai'[e] = idle
      BY <1>0, <2>5, <2>a DEF AiDiscard, AiScore, TypeOK, AiChained
    <3>3. /\ Evolve /\ SoundAfter
          /\ \A f \in Evaluator : AiOwns(f, r, n) \/ AiSpared(f)
          /\ \A d \in Desk : DeskOwns(d, r, n) \/ DeskSpared(d)
      BY <3>1, <3>2, Flags
    <3>4. AiChained(e)' /\ \A q, k : ~AiOwns(e, q, k)'
      BY <3>2 DEF AiChained, AiOwns, idle
    <3> QED BY <2>c, <3>1, <3>3, <3>4
  <2>6. CASE AiFail(e)
    <3>1. UNCHANGED <<versions, current>> /\ ai'[e] = idle
      BY <1>0, <2>6 DEF AiFail, TypeOK, tables
    <3>2. AiChained(e)' /\ \A q, k : ~AiOwns(e, q, k)'
      BY <3>1 DEF AiChained, AiOwns, idle
    <3> QED BY <1>0, <3>1, <3>2, NothingEvolves, SparedByIdle
  <2> QED BY <1>2, <2>1, <2>2, <2>3, <2>4, <2>5, <2>6 DEF AiNext
<1>3. CASE \E q \in Response : AiRead(e, q)
  BY <1>0, <1>1, <1>3, NothingEvolves, SparedByIdle
<1>4. CASE ~\E q \in Response : AiRead(e, q)
  BY <1>2, <1>4
<1> QED BY <1>3, <1>4

\* A human's request publishes without looking at the pointer, so what it
\* publishes is not a swapped version.
LEMMA DeskChainStep ==
  ASSUME IInv, ChainInv, NEW d \in Desk, DeskNext(d)
  PROVE  ChainInv'
<1>0. TypeOK /\ DeskHolds(d) /\ DeskChained(d)
  BY DEF IInv, ChainInv
<1>a. /\ \A f \in Desk \ {d} : desk'[f] = desk[f]
      /\ UNCHANGED <<ai, sheet>>
  BY <1>0 DEF DeskNext, DeskRead, DeskOpenRow, DeskInsert, DeskPoint, DeskPointAs, DeskFail, TypeOK
<1> SUFFICES
      /\ Evolve /\ SoundAfter /\ DeskChained(d)'
      /\ \A e \in Evaluator : AiSpared(e)
      /\ \A f \in Desk \ {d} : DeskSpared(f)
      /\ \A r, n : DeskOwns(d, r, n)' => DeskOwns(d, r, n) \/ ~HasVersion(r, n)
  <2>1. \A r, n : AiOwns(d, r, n)' => AiOwns(d, r, n)
    BY <1>a DEF AiOwns
  <2>2. OneOwner'
    BY <1>a, <2>1, OwnersKeep
  <2> QED BY <1>a, <2>2, ChainReassemble
<1>1. ASSUME NEW q \in Response, NEW kind \in {"ACCEPT_AI", "SCORE", "OVERRIDE"},
             DeskRead(d, q, kind)
      PROVE  /\ UNCHANGED <<versions, current>> /\ DeskChained(d)'
             /\ \A r, n : ~DeskOwns(d, r, n)'
  <2>1. /\ desk'[d].pc \in {"opening", "writing"} /\ desk'[d].resp = q /\ desk'[d].prev = current[q]
        /\ UNCHANGED <<versions, current>>
    BY <1>0, <1>1 DEF DeskRead, TypeOK, tables
  <2>2. Counted(versions[q], current[q])
    BY DEF ChainInv, Sound
  <2> QED BY <2>1, <2>2 DEF DeskChained, DeskOwns
<1>2. ASSUME desk[d].pc # "idle", DeskOpenRow(d) \/ DeskInsert(d) \/ DeskPoint(d) \/ DeskFail(d)
      PROVE  /\ Evolve /\ SoundAfter /\ DeskChained(d)'
             /\ \A e \in Evaluator : AiSpared(e)
             /\ \A f \in Desk \ {d} : DeskSpared(f)
             /\ \A r, n : DeskOwns(d, r, n)' => DeskOwns(d, r, n) \/ ~HasVersion(r, n)
  <2>0. PICK r \in Response, x \in Nat, n \in Nat, w \in DeskCalls :
          desk[d] = w /\ w.resp = r /\ w.prev = x /\ w.mine = n
    BY <1>0, <1>2, DeskIsBusy DEF DeskCalls
  <2>a. Counted(versions[r], x) /\ desk[d].resp = r /\ desk[d].prev = x /\ desk[d].mine = n
    BY <1>0, <1>2, <2>0 DEF DeskChained
  <2>1. CASE DeskOpenRow(d) \/ DeskFail(d)
    <3>1. UNCHANGED <<versions, current>> /\ (desk'[d] = idle \/ desk'[d] = [w EXCEPT !.pc = "writing"])
      BY <1>0, <2>0, <2>1 DEF DeskOpenRow, DeskFail, TypeOK, tables
    <3>2. CASE desk'[d] = idle
      <4>1. DeskChained(d)' /\ \A q, k : ~DeskOwns(d, q, k)'
        BY <3>2 DEF DeskChained, DeskOwns, idle
      <4> QED BY <1>0, <3>1, <4>1, NothingEvolves, SparedByIdle
    <3>3. CASE desk'[d] = [w EXCEPT !.pc = "writing"]
      <4>1. desk'[d].pc = "writing" /\ desk'[d].resp = r /\ desk'[d].prev = x
        BY <2>0, <3>3 DEF DeskCalls
      <4>2. DeskChained(d)' /\ \A q, k : ~DeskOwns(d, q, k)'
        BY <2>a, <3>1, <4>1 DEF DeskChained, DeskOwns
      <4> QED BY <1>0, <3>1, <4>2, NothingEvolves, SparedByIdle
    <3> QED BY <3>1, <3>2, <3>3
  <2>2. CASE DeskInsert(d)
    <3>0. PICK m : m = Len(versions[r]) + 1
      OBVIOUS
    <3>1. PICK source \in HUMAN_SOURCES, criteria \in BOOLEAN :
            versions' = [versions EXCEPT ![r] = Append(versions[r], NewVersion(source, x, criteria))]
      BY <2>0, <2>2 DEF DeskInsert, HUMAN_SOURCES, DeskCalls
    <3>2. PICK v \in Version : v = NewVersion(source, x, criteria) /\ IsNew(v) /\ v.prev = x
      <4>1. NewVersion(source, x, criteria) \in Version
        BY NewVersionType DEF Source, HUMAN_SOURCES
      <4> QED BY <4>1 DEF NewVersion, IsNew
    <3>3. versions' = [versions EXCEPT ![r] = Append(versions[r], v)] /\ UNCHANGED current
      BY <2>2, <3>1, <3>2 DEF DeskInsert
    <3>4. Counted(versions[r], v.prev)
      BY <2>a, <3>2
    <3>5. IsInserted(r, m, v)
      BY <3>0, <3>2, <3>3, <3>4, Inserts
    <3>6. desk'[d].pc = "pointing" /\ desk'[d].resp = r /\ desk'[d].prev = x /\ desk'[d].mine = m
      <4>1. desk' = [desk EXCEPT ![d].pc = "pointing", ![d].mine = m]
        BY <2>2, <2>a, <3>0 DEF DeskInsert
      <4>2. desk'[d] = [w EXCEPT !.pc = "pointing", !.mine = m]
        BY <1>0, <2>0, <4>1 DEF TypeOK
      <4> QED BY <2>0, <4>2 DEF DeskCalls
    <3>7. Counted(versions'[r], x)
      BY <1>0, <2>a, <3>5, CountedLasts DEF IsInserted
    <3>8. DeskChained(d)' /\ \A q, k : DeskOwns(d, q, k)' => ~HasVersion(q, k)
      BY <3>5, <3>6, <3>7 DEF DeskChained, DeskOwns, IsInserted
    <3> QED BY <3>5, <3>8 DEF IsInserted
  <2>3. CASE DeskPoint(d)
    <3>1. /\ versions' = [versions EXCEPT ![r][n].published = TRUE]
          /\ current' = [current EXCEPT ![r] = n]
          /\ desk'[d] = idle /\ desk[d].pc = "pointing"
      BY <1>0, <2>a, <2>3 DEF DeskPoint, DeskPointAs, TypeOK
    <3>2. HasVersion(r, n) /\ isHumanVersion(r, n) /\ DeskOwns(d, r, n)
      BY <1>0, <2>a, <3>1 DEF DeskHolds, DeskOwns
    <3>3. MayCount(versions[r], n, current[r])
      <4>1. Waiting(versions[r], n)
        BY <1>0, <2>a, <3>1 DEF DeskChained
      <4>2. versions[r][n].source # "AI"
        BY <3>2 DEF isHumanVersion, HUMAN_SOURCES
      <4>3. ~versions[r][n].deleted
        BY <3>2, <4>2 DEF ChainInv, Sound, InOrder, HasVersion
      <4> QED BY <4>1, <4>2, <4>3 DEF MayCount, IsSwapped
    <3>4. /\ Evolve /\ SoundAfter /\ Counted(versions'[r], n)
          /\ \A e \in Evaluator : AiOwns(e, r, n) \/ AiSpared(e)
          /\ \A f \in Desk : DeskOwns(f, r, n) \/ DeskSpared(f)
      BY <3>1, <3>3, Publishes
    <3>5. /\ \A e \in Evaluator : ~AiOwns(e, r, n)
          /\ \A f \in Desk \ {d} : ~DeskOwns(f, r, n)
      <4>1. \A e \in Evaluator : ~AiOwns(e, r, n)
        BY <3>2, OwnedIsThere DEF isAiVersion, isHumanVersion, HUMAN_SOURCES
      <4> QED BY <3>2, <4>1 DEF ChainInv, OneOwner, HasVersion
    <3>6. DeskChained(d)' /\ \A q, k : ~DeskOwns(d, q, k)'
      BY <3>1 DEF DeskChained, DeskOwns, idle
    <3> QED BY <3>4, <3>5, <3>6
  <2> QED BY <1>2, <2>1, <2>2, <2>3
<1>3. CASE \E q \in Response, kind \in {"ACCEPT_AI", "SCORE", "OVERRIDE"} : DeskRead(d, q, kind)
  BY <1>0, <1>1, <1>3, NothingEvolves, SparedByIdle
<1>4. CASE DeskOpenRow(d) \/ DeskInsert(d) \/ DeskPoint(d) \/ DeskFail(d)
  <2>1. desk[d].pc # "idle"
    BY <1>4 DEF DeskOpenRow, DeskInsert, DeskPoint, DeskPointAs, DeskFail
  <2> QED BY <1>2, <1>4, <2>1
<1> QED BY <1>3, <1>4 DEF DeskNext

\* A submission changes many answers at once, each by a version of its own.
LEMMA CommitEvolves ==
  ASSUME IInv, ChainInv, NEW s \in Sheet, NEW W \in SUBSET Response, SheetCommit(s, W)
  PROVE  /\ Evolve /\ SoundAfter
         /\ \A r \in Response : \A n : HasVersion(r, n) => versions'[r][n] = versions[r][n]
<1>0. sheet[s].seen \in [Response -> Nat]
  BY DEF IInv, TypeOK, SheetCommit, SheetState, idle
<1>1. ASSUME NEW r \in Response
      PROVE  /\ versions'[r] \in Seq(Version) /\ Sound(versions'[r], current'[r])
             /\ Continues(versions[r], versions'[r])
             /\ \A n : HasVersion(r, n) => versions'[r][n] = versions[r][n]
  <2>1. PICK t \in Seq(Version), c \in Nat : t = versions[r] /\ c = current[r] /\ Sound(t, c)
    BY DEF IInv, TypeOK, ChainInv
  <2>2. CASE r \in W
    <3>1. PICK v \in Version : /\ v.published /\ ~v.deleted /\ v.prev = sheet[s].seen[r]
                               /\ v = [NewVersion("TEACHER", sheet[s].seen[r], TRUE) EXCEPT !.published = TRUE]
      BY <1>0 DEF NewVersion, Version, Source
    <3>2. /\ versions'[r] = Append(t, v) /\ current'[r] = Len(t) + 1
          /\ current[r] = sheet[s].seen[r]
      BY <2>1, <2>2, <3>1 DEF SheetCommit, Unmoved
    <3>3. IsSubmitted(v, c)
      BY <2>1, <3>1, <3>2 DEF IsSubmitted
    <3>4. PICK u : u = Append(t, v)
      OBVIOUS
    <3>5. Sound(u, Len(t) + 1) /\ Continues(t, u) /\ KeepsAll(t, u)
      BY <2>1, <3>1, <3>3, <3>4, SoundCommit
    <3>6. u \in Seq(Version)
      BY <3>4, AppendProperties
    <3> QED BY <2>1, <3>2, <3>4, <3>5, <3>6 DEF HasVersion, KeepsAll
  <2>3. CASE r \notin W
    <3>1. versions'[r] = versions[r] /\ current'[r] = current[r]
      BY <2>3 DEF SheetCommit
    <3>2. Continues(t, t)
      BY LenProperties DEF Continues
    <3> QED BY <2>1, <3>1, <3>2
  <2> QED BY <2>2, <2>3
<1>2. versions' \in [Response -> Seq(Version)]
  BY <1>1 DEF SheetCommit
<1> QED BY <1>1, <1>2 DEF Evolve, SoundAfter

\* So does every step of a submission.
LEMMA SheetChainStep ==
  ASSUME IInv, ChainInv, NEW s \in Sheet, SheetNext(s)
  PROVE  ChainInv'
<1>0. TypeOK
  BY DEF IInv
<1>a. (\A f \in Sheet \ {s} : sheet'[f] = sheet[f]) /\ UNCHANGED <<ai, desk>>
  BY <1>0 DEF SheetNext, SheetLoad, SheetCommit, SheetFail, TypeOK
<1>b. OneOwner'
  <2>1. PICK a : a \notin Evaluator
    BY NoSetContainsEverything
  <2>2. PICK b : b \notin Desk
    BY NoSetContainsEverything
  <2>3. \A r, n : AiOwns(a, r, n)' => AiOwns(a, r, n)
    BY <1>a DEF AiOwns
  <2>4. \A r, n : DeskOwns(b, r, n)' => DeskOwns(b, r, n)
    BY <1>a DEF DeskOwns
  <2> QED BY <1>a, <2>3, <2>4, OwnersKeep
<1>1. CASE SheetLoad(s)
  <2>1. UNCHANGED <<versions, current>> /\ sheet'[s].seen = current
    BY <1>0, <1>1 DEF SheetLoad, TypeOK, tables
  <2>2. SheetChained(s)'
    BY <2>1 DEF SheetChained, ChainInv, Sound
  <2> QED BY <1>0, <1>a, <1>b, <2>1, <2>2, NothingEvolves, SparedByIdle, ChainReassemble
<1>2. CASE SheetFail(s)
  <2>1. UNCHANGED <<versions, current>> /\ sheet'[s] = idle
    BY <1>0, <1>2 DEF SheetFail, TypeOK, tables
  <2>2. SheetChained(s)'
    BY <2>1 DEF SheetChained, idle
  <2> QED BY <1>0, <1>a, <1>b, <2>1, <2>2, NothingEvolves, SparedByIdle, ChainReassemble
<1>3. ASSUME NEW W \in SUBSET Response, SheetCommit(s, W)
      PROVE  ChainInv'
  <2>1. /\ Evolve /\ SoundAfter
        /\ \A r \in Response : \A n : HasVersion(r, n) => versions'[r][n] = versions[r][n]
    BY <1>3, CommitEvolves
  <2>2. (\A e \in Evaluator : AiSpared(e)) /\ (\A d \in Desk : DeskSpared(d))
    BY <2>1, OwnedIsThere DEF AiSpared, DeskSpared
  <2>3. SheetChained(s)'
    <3>1. sheet'[s] = idle
      BY <1>0, <1>3 DEF SheetCommit, TypeOK
    <3> QED BY <3>1 DEF SheetChained, idle
  <2> QED BY <1>a, <1>b, <2>1, <2>2, <2>3, ChainReassemble
<1> QED BY <1>1, <1>2, <1>3 DEF SheetNext

\* The steps of administrators and of the sync touch none of this.
LEMMA ChainQuiet ==
  ASSUME ChainInv, UNCHANGED <<versions, current, ai, desk, sheet>>
  PROVE  ChainInv'
BY DEF ChainInv, Sound, InOrder, Unforked, Counted, Waiting, AiChained, DeskChained, SheetChained,
       OneOwner, AiOwns, DeskOwns

LEMMA ChainInit ==
  ASSUME Init
  PROVE  ChainInv
<1>1. ASSUME NEW r \in Response
      PROVE  Sound(versions[r], current[r])
  <2>1. versions[r] = << >> /\ current[r] = 0 /\ 1 .. Len(<< >>) = {}
    BY DEF Init
  <2> QED BY <2>1 DEF Sound, InOrder, Unforked, Counted
<1>2. /\ \A e \in Evaluator : AiChained(e)
      /\ \A d \in Desk : DeskChained(d)
      /\ \A s \in Sheet : SheetChained(s)
      /\ OneOwner
  BY DEF Init, idle, AiChained, DeskChained, SheetChained, OneOwner
<1> QED BY <1>1, <1>2 DEF ChainInv

LEMMA ChainStep ==
  ASSUME IInv, ChainInv, [Next]_vars
  PROVE  ChainInv'
<1>1. CASE \E e \in Evaluator : AiNext(e)
  BY <1>1, AiChainStep
<1>2. CASE \E d \in Desk : DeskNext(d)
  BY <1>2, DeskChainStep
<1>3. CASE \E s \in Sheet : SheetNext(s)
  BY <1>3, SheetChainStep
<1>4. CASE \E r \in Response : SyncResponse(r) \/ DiscardResponse(r)
  BY <1>4, ChainQuiet DEF SyncResponse, DiscardResponse
<1>5. CASE (\E a \in Admin : AdminNext(a)) \/ StartEvaluating \/ Unlock \/ UNCHANGED vars
  BY <1>5, ChainQuiet DEF AdminNext, LockGate, LockGateOver, LockCommit, LockFail, StartEvaluating,
     Unlock, vars, tables
<1> QED BY <1>1, <1>2, <1>3, <1>4, <1>5 DEF Next

\* The chain invariant holds in every reachable state, beside the first.
THEOREM ChainInvariance == Spec => []ChainInv
<1>1. Spec => []IInv
  BY Invariance
<1>2. Init => ChainInv
  BY ChainInit
<1>3. IInv /\ ChainInv /\ [Next]_vars => ChainInv'
  BY ChainStep
<1> QED BY <1>1, <1>2, <1>3, PTL DEF Spec

\* However AI calls, decisions, overrides and submissions interleave, and
\* wherever any of them dies, the current version of an answer exists and so
\* does the whole history before it.
THEOREM HistoryIsSound == Spec => []ChainIsSound
<1>1. IInv /\ ChainInv => ChainIsSound
  <2> SUFFICES ASSUME IInv, ChainInv, NEW r \in Response
               PROVE  /\ current[r] # 0 => /\ current[r] \in DOMAIN versions[r]
                                           /\ versions[r][current[r]].published
                      /\ \A n \in DOMAIN versions[r] : versions[r][n].published =>
                           LET prev == versions[r][n].prev IN
                           /\ ~versions[r][n].deleted
                           /\ prev < n
                           /\ prev # 0 => versions[r][prev].published
    BY DEF ChainIsSound
  <2>1. DOMAIN versions[r] = 1 .. Len(versions[r])
    BY LenProperties DEF IInv, TypeOK
  <2>2. Sound(versions[r], current[r])
    BY DEF ChainInv
  <2> QED BY <2>1, <2>2 DEF Sound, InOrder, Counted
<1> QED BY <1>1, Invariance, ChainInvariance, PTL

\* The compare-and-swap of the AI worker and the one of a submission are
\* enough to keep a history linear: it forks only by decide() and override().
THEOREM HistoryIsLinear ==
  ASSUME Desk = {}
  PROVE  Spec => []HistoryNeverForks
<1>1. IInv /\ ChainInv => HistoryNeverForks
  <2>1. ASSUME IInv, NEW r \in Response
        PROVE  DOMAIN versions[r] = 1 .. Len(versions[r])
    BY <2>1, LenProperties DEF IInv, TypeOK
  <2> QED BY <2>1 DEF ChainInv, Sound, Unforked, IsSwapped, HistoryNeverForks
<1> QED BY <1>1, Invariance, ChainInvariance, PTL

\* Whatever the desks do, no two suggestions that counted continue the same
\* version: of two AI calls that read the same mark, one publishes at most.
SuggestionsNeverFork ==
  \A r \in Response : \A m, n \in DOMAIN versions[r] :
    /\ versions[r][m].published /\ versions[r][m].source = "AI"
    /\ versions[r][n].published /\ versions[r][n].source = "AI"
    /\ m # n
    => versions[r][m].prev # versions[r][n].prev

THEOREM SuggestionsAreLinear == Spec => []SuggestionsNeverFork
<1>1. IInv /\ ChainInv => SuggestionsNeverFork
  <2>1. ASSUME IInv, NEW r \in Response
        PROVE  DOMAIN versions[r] = 1 .. Len(versions[r])
    BY <2>1, LenProperties DEF IInv, TypeOK
  <2> QED BY <2>1 DEF ChainInv, Sound, Unforked, IsSwapped, SuggestionsNeverFork
<1> QED BY <1>1, Invariance, ChainInvariance, PTL

-----------------------------------------------------------------------------
(* Mastery                                                                 *)

\* The calculations that are at one of these steps, and the claims so far.
Busy(steps) == {r \in Run : run[r].at \in steps}
Step == {"reading", "writing", "choosing", "claiming", "done"} \cup Kind
claims == cleared + (IF mastery.claimed THEN 1 ELSE 0)
Rows(w) == rows[w] + Cardinality(Busy({w}))

\* Every record is made for a claim, after the record before it.
RecordsFollowClaims ==
  /\ Rows("assignment") <= claims
  /\ Rows("intervention") <= rows["assignment"]
  /\ Rows("notice") <= rows["intervention"]
  /\ Rows("delivery") <= rows["notice"]

ClaimsCounted == IsFiniteSet(Busy(Step)) /\ RecordsFollowClaims /\ ClaimsAreAnswered

MasteryInv == MasteryTypeOK /\ (\A k \in Key : JobSound(job[k])) /\ ClaimsCounted

\* The four records, in their order.
LEMMA Kinds ==
  /\ Kind = {"assignment", "intervention", "notice", "delivery"}
  /\ After["assignment"] = "intervention" /\ After["intervention"] = "notice"
  /\ After["notice"] = "delivery" /\ After["delivery"] = "done"
  BY DEF Kind, After

\* The null request, the null run and the null evidence are well typed.
LEMMA NothingYet ==
  /\ NoMarks \in Evidence /\ NoRun \in Execution /\ NoRun.at = "idle"
  /\ NoRequest \in [at : {"idle"} \cup Enqueuing, key : Key]
<1>1. (CHOOSE k \in Key : TRUE) \in Key
  BY MasteryAssumption DEF MasteryAssumption
<1>2. NoMarks \in Evidence
  BY MasteryAssumption DEF MasteryAssumption, NoMarks, Evidence
<1> QED BY <1>1, <1>2 DEF NoRun, Execution, NoRequest

\* Where a run that moves goes, no other does: the steps gain or lose it.
LEMMA Moving ==
  ASSUME NEW r \in Run, NEW steps \in SUBSET Step, IsFiniteSet(Busy(Step)),
         \A u \in Run \ {r} : run'[u].at = run[u].at
  PROVE  /\ IsFiniteSet(Busy(Step)')
         /\ Cardinality(Busy(steps)) \in Nat /\ Cardinality(Busy(steps)') \in Nat
         /\ Cardinality(Busy(steps)') + (IF run[r].at \in steps THEN 1 ELSE 0) =
              Cardinality(Busy(steps)) + (IF run'[r].at \in steps THEN 1 ELSE 0)
<1>1. IsFiniteSet(Busy(steps))
  BY FS_Subset DEF Busy
<1>2. Cardinality(Busy(steps)) \in Nat
  BY <1>1, FS_CardinalityType
<1>3. Busy(Step)' \subseteq Busy(Step) \cup {r}
  BY DEF Busy
<1>4. IsFiniteSet(Busy(Step)')
  BY <1>3, FS_AddElement, FS_Subset
<1>5. CASE run'[r].at \in steps
  <2>1. Busy(steps)' = Busy(steps) \cup {r}
    BY <1>5 DEF Busy
  <2>2. r \in Busy(steps) <=> run[r].at \in steps
    BY DEF Busy
  <2>3. Cardinality(Busy(steps)') =
          IF run[r].at \in steps THEN Cardinality(Busy(steps)) ELSE Cardinality(Busy(steps)) + 1
    BY <1>1, <2>1, <2>2, FS_AddElement
  <2> QED BY <1>2, <1>4, <1>5, <2>3
<1>6. CASE run'[r].at \notin steps
  <2>1. Busy(steps)' = Busy(steps) \ {r}
    BY <1>6 DEF Busy
  <2>2. r \in Busy(steps) <=> run[r].at \in steps
    BY DEF Busy
  <2>3. r \in Busy(steps) => Cardinality(Busy(steps)) # 0
    BY <1>1, FS_EmptySet
  <2>4. Cardinality(Busy(steps)') =
          IF run[r].at \in steps THEN Cardinality(Busy(steps)) - 1 ELSE Cardinality(Busy(steps))
    BY <1>1, <2>1, <2>2, FS_RemoveElement
  <2> QED BY <1>2, <1>4, <1>6, <2>2, <2>3, <2>4
<1> QED BY <1>5, <1>6

\* The initial state satisfies the invariant.
LEMMA MasteryInitInv == MasteryInit => MasteryInv
<1> SUFFICES ASSUME MasteryInit PROVE MasteryInv
  OBVIOUS
<1>1. MasteryTypeOK
  BY NothingYet, NewJobs DEF MasteryInit, MasteryTypeOK
<1>2. \A k \in Key : JobSound(job[k])
  BY NewJobs DEF MasteryInit
<1>3. "idle" \notin Step
  BY Kinds DEF Step
<1>4. \A steps \in SUBSET Step : Busy(steps) = {}
  BY <1>3, NothingYet DEF MasteryInit, Busy
<1>5. \A steps \in SUBSET Step : IsFiniteSet(Busy(steps)) /\ Cardinality(Busy(steps)) = 0
  BY <1>4, FS_EmptySet
<1>6. Kind \in SUBSET Step /\ \A w \in Kind : {w} \in SUBSET Step /\ rows[w] = 0
  BY DEF Step, MasteryInit
<1>7. cleared = 0 /\ ~mastery.claimed
  BY DEF MasteryInit
<1>8. RecordsFollowClaims
  BY <1>5, <1>6, <1>7, Kinds DEF RecordsFollowClaims, Rows, claims
<1>9. ClaimsAreAnswered
  BY <1>5, <1>6, <1>7, Kinds DEF ClaimsAreAnswered, Busy
<1> QED BY <1>1, <1>2, <1>5, <1>8, <1>9 DEF MasteryInv, ClaimsCounted

\* A step that is not about the records, and spends or clears no claim
\* without the other, keeps the count.
LEMMA CountAside ==
  ASSUME MasteryTypeOK, ClaimsCounted, NEW r \in Run,
         \A u \in Run \ {r} : run'[u].at = run[u].at,
         run[r].at \notin Kind, run'[r].at \notin Kind,
         claims' = claims, UNCHANGED rows, lost \subseteq lost'
  PROVE  ClaimsCounted'
<1> USE DEF ClaimsCounted
<1>0. Kind \in SUBSET Step
  BY DEF Step
<1>1. /\ IsFiniteSet(Busy(Step)')
      /\ Cardinality(Busy(Kind)') = Cardinality(Busy(Kind))
  BY <1>0, Moving
<1>2. ASSUME NEW w \in Kind PROVE Rows(w)' = Rows(w)
  <2>1. {w} \in SUBSET Step /\ run[r].at \notin {w} /\ run'[r].at \notin {w}
    BY DEF Step
  <2>2. Cardinality(Busy({w})') = Cardinality(Busy({w}))
    BY <2>1, Moving
  <2> QED BY <2>2 DEF Rows
<1>3. RecordsFollowClaims'
  BY <1>2, Kinds DEF RecordsFollowClaims
<1>4. ClaimsAreAnswered'
  BY <1>1 DEF ClaimsAreAnswered, claims, Busy
<1> QED BY <1>1, <1>3, <1>4

\* A calculation that claims goes on to the records.
LEMMA CountClaim ==
  ASSUME MasteryTypeOK, ClaimsCounted, NEW r \in Run, Claim(r)
  PROVE  ClaimsCounted'
<1> USE DEF ClaimsCounted
<1>0. /\ run[r] \in Execution /\ cleared \in Nat /\ mastery.claimed \in BOOLEAN
      /\ \A u \in Run \ {r} : run'[u].at = run[u].at
      /\ run[r].at = "claiming" /\ run[r].at \notin Kind
      /\ run'[r].at = IF mastery.claimed THEN "done" ELSE "assignment"
      /\ mastery'.claimed = TRUE
  BY Kinds DEF MasteryTypeOK, Claim, Goes, Execution
<1>1. CASE mastery.claimed
  <2>1. run'[r].at \notin Kind /\ claims' = claims
    BY <1>0, <1>1, Kinds DEF claims, Claim
  <2> QED BY <1>0, <2>1, CountAside DEF Claim
<1>2. CASE ~mastery.claimed
  <2>1. claims' = claims + 1 /\ claims \in Nat /\ run'[r].at = "assignment"
    BY <1>0, <1>2 DEF claims, Claim
  <2>2. Kind \in SUBSET Step /\ \A w \in Kind : {w} \in SUBSET Step
    BY DEF Step
  <2>3. /\ IsFiniteSet(Busy(Step)')
        /\ Cardinality(Busy(Kind)') = Cardinality(Busy(Kind)) + 1
        /\ Cardinality(Busy(Kind)) \in Nat
    BY <1>0, <2>1, <2>2, Moving, Kinds
  <2>4. ASSUME NEW w \in Kind
        PROVE  Rows(w)' = Rows(w) + (IF w = "assignment" THEN 1 ELSE 0) /\ Rows(w) \in Nat
    <3>1. /\ Cardinality(Busy({w})') =
               Cardinality(Busy({w})) + (IF w = "assignment" THEN 1 ELSE 0)
          /\ Cardinality(Busy({w})) \in Nat
      <4>1. {w} \in SUBSET Step /\ run[r].at \notin {w} /\ (run'[r].at \in {w} <=> w = "assignment")
        BY <1>0, <2>1, <2>2
      <4> QED BY <1>0, <4>1, Moving
    <3>2. rows' = rows /\ rows[w] \in Nat
      BY DEF Claim, MasteryTypeOK
    <3> QED BY <3>1, <3>2 DEF Rows
  <2>5. rows' = rows /\ lost' = lost
    BY DEF Claim
  <2>6. RecordsFollowClaims'
    BY <2>1, <2>4, <2>5, Kinds DEF RecordsFollowClaims
  <2>7. ClaimsAreAnswered'
    <3>1. "intervention" \notin lost => claims = rows["delivery"] + Cardinality(Busy(Kind))
      BY DEF ClaimsAreAnswered, claims, Busy
    <3>2. "intervention" \notin lost => claims' = rows'["delivery"] + Cardinality(Busy(Kind)')
      <4>1. rows["delivery"] \in Nat
        BY Kinds DEF MasteryTypeOK
      <4> QED BY <2>1, <2>3, <2>5, <3>1, <4>1
    <3> QED BY <2>5, <3>2 DEF ClaimsAreAnswered, claims, Busy
  <2> QED BY <2>3, <2>6, <2>7
<1> QED BY <1>1, <1>2

\* A record that is made is counted, and its run goes on to the next.
LEMMA CountCreate ==
  ASSUME MasteryTypeOK, ClaimsCounted, NEW r \in Run, Create(r)
  PROVE  ClaimsCounted'
<1> USE DEF ClaimsCounted
<1>1. PICK w \in Kind : w = run[r].at
  BY DEF Create
<1>2. /\ \A u \in Run \ {r} : run'[u].at = run[u].at
      /\ run'[r].at = After[w]
      /\ rows' = [rows EXCEPT ![w] = rows[w] + 1]
  BY <1>1 DEF Create, Goes, MasteryTypeOK, Execution
<1>3. claims' = claims /\ lost' = lost /\ rows \in [Kind -> Nat]
  BY DEF Create, claims, MasteryTypeOK
<1>4. Kind \in SUBSET Step /\ \A x \in Kind : {x} \in SUBSET Step
  BY DEF Step
<1>5. ASSUME NEW x \in Kind
      PROVE  /\ Rows(x)' = Rows(x) + (IF x = After[w] THEN 1 ELSE 0)
             /\ rows'[x] = rows[x] + (IF x = w THEN 1 ELSE 0)
             /\ Rows(x) \in Nat /\ rows[x] \in Nat
  <2>1. /\ Cardinality(Busy({x})') + (IF x = w THEN 1 ELSE 0) =
             Cardinality(Busy({x})) + (IF x = After[w] THEN 1 ELSE 0)
        /\ Cardinality(Busy({x})) \in Nat /\ Cardinality(Busy({x})') \in Nat
    <3>1. /\ {x} \in SUBSET Step /\ (run[r].at \in {x} <=> x = w)
          /\ (run'[r].at \in {x} <=> x = After[w])
      BY <1>1, <1>2, <1>4
    <3> QED BY <1>2, <3>1, Moving
  <2>2. rows'[x] = rows[x] + (IF x = w THEN 1 ELSE 0) /\ rows[x] \in Nat
    BY <1>2, <1>3
  <2> QED BY <2>1, <2>2 DEF Rows
<1>6. RecordsFollowClaims'
  BY <1>3, <1>5, Kinds DEF RecordsFollowClaims
<1>7. /\ IsFiniteSet(Busy(Step)')
      /\ Cardinality(Busy(Kind)') + 1 =
           Cardinality(Busy(Kind)) + (IF After[w] \in Kind THEN 1 ELSE 0)
      /\ Cardinality(Busy(Kind)) \in Nat /\ Cardinality(Busy(Kind)') \in Nat
  BY <1>1, <1>2, <1>4, Moving
<1>8. ClaimsAreAnswered'
  <2>1. "intervention" \notin lost => claims = rows["delivery"] + Cardinality(Busy(Kind))
    BY DEF ClaimsAreAnswered, claims, Busy
  <2>2. rows'["delivery"] = rows["delivery"] + (IF w = "delivery" THEN 1 ELSE 0)
        /\ rows["delivery"] \in Nat
    BY <1>5, Kinds
  <2>3. After[w] \in Kind <=> w # "delivery"
    BY Kinds
  <2>4. "intervention" \notin lost => claims' = rows'["delivery"] + Cardinality(Busy(Kind)')
    BY <1>3, <1>7, <2>1, <2>2, <2>3
  <2> QED BY <1>3, <2>4 DEF ClaimsAreAnswered, claims, Busy
<1> QED BY <1>6, <1>7, <1>8

\* A run that breaks off on a record is written down as lost.
LEMMA CountLoss ==
  ASSUME MasteryTypeOK, ClaimsCounted, NEW r \in Run,
         \A u \in Run \ {r} : run'[u].at = run[u].at,
         run[r].at \in Kind, run'[r].at \notin Kind,
         claims' = claims, UNCHANGED rows, "intervention" \in lost'
  PROVE  ClaimsCounted'
<1> USE DEF ClaimsCounted
<1>1. Kind \in SUBSET Step
  BY DEF Step
<1>2. IsFiniteSet(Busy(Step)')
  BY <1>1, Moving
<1>3. ASSUME NEW w \in Kind
      PROVE  Rows(w)' <= Rows(w) /\ Rows(w) \in Nat /\ Rows(w)' \in Nat /\ rows[w] \in Nat
  <2>1. {w} \in SUBSET Step /\ run'[r].at \notin {w}
    BY <1>1
  <2>2. /\ Cardinality(Busy({w})') <= Cardinality(Busy({w}))
        /\ Cardinality(Busy({w})') \in Nat /\ Cardinality(Busy({w})) \in Nat
    BY <2>1, Moving
  <2>3. rows[w] \in Nat /\ rows' = rows
    BY DEF MasteryTypeOK
  <2> QED BY <2>2, <2>3 DEF Rows
<1>4. claims \in Nat
  BY DEF claims, MasteryTypeOK
<1>5. RecordsFollowClaims'
  BY <1>3, <1>4, Kinds DEF RecordsFollowClaims
<1>6. ClaimsAreAnswered'
  BY DEF ClaimsAreAnswered
<1> QED BY <1>2, <1>5, <1>6

\* Whoever does not move a calculation leaves the count alone.
LEMMA CountAlone ==
  ASSUME ClaimsCounted, UNCHANGED <<run, rows, cleared, mastery, lost>>
  PROVE  ClaimsCounted'
  BY DEF ClaimsCounted, RecordsFollowClaims, ClaimsAreAnswered, Rows, claims, Busy

\* Every step of a calculation keeps the count.
LEMMA CountRun ==
  ASSUME MasteryTypeOK, ClaimsCounted, NEW r \in Run,
         StartRun(r) \/ RunStep(r) \/ PassOver(r) \/ FailRun(r) \/ TimeOut(r)
  PROVE  ClaimsCounted'
<1>0. /\ run \in [Run -> Execution] /\ run[r] \in Execution
      /\ cleared \in Nat /\ mastery.claimed \in BOOLEAN /\ lost \in SUBSET {"recalculation", "intervention"}
  BY DEF MasteryTypeOK
<1>1. CASE StartRun(r)
  <2>1. /\ \A u \in Run \ {r} : run'[u].at = run[u].at
        /\ run[r].at = "idle" /\ run'[r].at = "reading"
    BY <1>0, <1>1 DEF StartRun, Execution
  <2> QED BY <1>1, <2>1, CountAside, Kinds DEF StartRun, claims
<1>2. CASE ReadResponses(r)
  <2>1. /\ \A u \in Run \ {r} : run'[u].at = run[u].at
        /\ run[r].at = "reading" /\ run'[r].at = "writing"
    BY <1>0, <1>2 DEF ReadResponses, Execution
  <2>2. run[r].at \notin Kind /\ run'[r].at \notin Kind
    BY <2>1, Kinds
  <2> QED BY <1>2, <2>1, <2>2, CountAside DEF ReadResponses, claims
<1>3. CASE WriteMastery(r)
  <2>1. /\ \A u \in Run \ {r} : run'[u].at = run[u].at
        /\ run[r].at = "writing" /\ run'[r].at \in {"choosing", "done"}
    BY <1>0, <1>3 DEF WriteMastery, Goes, Execution
  <2>2. claims' = claims
    <3>1. mastery'.claimed = (mastery.claimed /\ run[r].read.weak)
      BY <1>3 DEF WriteMastery
    <3>2. CASE mastery.claimed /\ ~run[r].read.weak
      <4>1. cleared' = cleared + 1 /\ ~mastery'.claimed
        BY <1>3, <3>1, <3>2 DEF WriteMastery
      <4> QED BY <1>0, <3>2, <4>1 DEF claims
    <3>3. CASE ~(mastery.claimed /\ ~run[r].read.weak)
      <4>1. cleared' = cleared /\ (mastery'.claimed <=> mastery.claimed)
        BY <1>3, <3>1, <3>3 DEF WriteMastery
      <4> QED BY <1>0, <4>1 DEF claims
    <3> QED BY <3>2, <3>3
  <2> QED BY <1>3, <2>1, <2>2, CountAside, Kinds DEF WriteMastery
<1>4. CASE Choose(r)
  <2>1. /\ \A u \in Run \ {r} : run'[u].at = run[u].at
        /\ run[r].at = "choosing" /\ run'[r].at \in {"claiming", "done"}
    BY <1>0, <1>4 DEF Choose, Goes, Execution
  <2> QED BY <1>4, <2>1, CountAside, Kinds DEF Choose, claims
<1>5. CASE Return(r)
  <2>1. /\ \A u \in Run \ {r} : run'[u].at = run[u].at
        /\ run[r].at = "done" /\ run'[r].at = "idle"
    BY <1>0, <1>5, NothingYet DEF Return, Ends
  <2> QED BY <1>5, <2>1, CountAside, Kinds DEF Return, claims
<1>6. CASE PassOver(r)
  <2>1. /\ \A u \in Run \ {r} : run'[u].at = run[u].at
        /\ run'[r].at = "done" /\ "done" \notin Kind
    BY <1>0, <1>6, Kinds DEF PassOver, Goes, Execution
  <2>2. CASE run[r].at \in Kind
    <3>1. Losing(r) = {"intervention"}
      BY <2>2, Kinds DEF Losing
    <3> QED BY <1>6, <2>1, <2>2, <3>1, CountLoss DEF PassOver, claims
  <2>3. CASE run[r].at \notin Kind
    BY <1>6, <2>1, <2>3, CountAside DEF PassOver, claims
  <2> QED BY <2>2, <2>3
<1>7. CASE FailRun(r)
  <2>1. /\ \A u \in Run \ {r} : run'[u].at = run[u].at
        /\ run'[r].at = "idle" /\ "idle" \notin Kind
    BY <1>0, <1>7, Kinds, NothingYet DEF FailRun, Ends
  <2>2. CASE run[r].at \in Kind
    <3>1. Losing(r) = {"intervention"}
      BY <2>2, Kinds DEF Losing
    <3> QED BY <1>7, <2>1, <2>2, <3>1, CountLoss DEF FailRun, claims
  <2>3. CASE run[r].at \notin Kind
    BY <1>7, <2>1, <2>3, CountAside DEF FailRun, claims
  <2> QED BY <2>2, <2>3
<1>8. CASE TimeOut(r)
  BY <1>8, CountAlone DEF TimeOut
<1> QED BY <1>1, <1>2, <1>3, <1>4, <1>5, <1>6, <1>7, <1>8, CountClaim, CountCreate DEF RunStep

\* What a calculation that goes on becomes is well typed.
LEMMA GoesType ==
  ASSUME MasteryTypeOK, NEW r \in Run, NEW to \in Step, Goes(r, to)
  PROVE  run' \in [Run -> Execution]
<1>1. run[r] \in Execution /\ NoMarks \in Evidence
  BY NothingYet DEF MasteryTypeOK
<1>2. [run[r] EXCEPT !.at = to, !.read = NoMarks] \in Execution
  BY <1>1 DEF Execution, Step
<1>3. run' = [run EXCEPT ![r] = [run[r] EXCEPT !.at = to, !.read = NoMarks]]
  BY DEF Goes, MasteryTypeOK
<1> QED BY <1>2, <1>3 DEF MasteryTypeOK

\* The jobs are sound jobs.
Jobs == job \in [Key -> Job] /\ \A k \in Key : JobSound(job[k])

\* One job changes, and becomes another sound job.
LEMMA JobsKept ==
  ASSUME Jobs, NEW k \in Key, NEW j \in Job, JobSound(j), job' = [job EXCEPT ![k] = j]
  PROVE  Jobs'
<1>1. job' \in [Key -> Job]
  BY DEF Jobs
<1>2. ASSUME NEW i \in Key PROVE JobSound(job'[i])
  <2>1. job'[i] = IF i = k THEN j ELSE job[i]
    BY DEF Jobs
  <2> QED BY <2>1 DEF Jobs
<1> QED BY <1>1, <1>2 DEF Jobs, JobSound

\* A request keeps the types.
LEMMA MasteryRequestType ==
  ASSUME MasteryTypeOK, Jobs, NEW q \in Request,
         CommitMarks(q) \/ EnqueueMasteryRecalc(q) \/ GiveUp(q)
  PROVE  MasteryTypeOK' /\ Jobs'
<1> USE DEF MasteryTypeOK
<1>1. CASE CommitMarks(q)
  <2>1. PICK weak \in BOOLEAN : evidence' = [marks |-> evidence.marks + 1, weak |-> weak]
    BY <1>1 DEF CommitMarks
  <2>2. evidence' \in Evidence
    BY <1>1, <2>1, MasteryAssumption DEF CommitMarks, Evidence, MasteryAssumption
  <2>3. PICK k \in Key : request' = [request EXCEPT ![q] = [at |-> "checking", key |-> k]]
    BY <1>1 DEF CommitMarks
  <2> QED BY <1>1, <2>2, <2>3 DEF CommitMarks, Enqueuing, Jobs, JobSound
<1>2. CASE EnqueueMasteryRecalc(q)
  <2>1. PICK k \in Key : k = request[q].key
    OBVIOUS
  <2>2. PICK at \in Enqueuing : at = request[q].at
    BY <1>2 DEF EnqueueMasteryRecalc
  <2>3. Jobs'
    <3>1. job' = [job EXCEPT ![k] = EnqueueSends(at, job[k])]
      BY <1>2, <2>1, <2>2 DEF EnqueueMasteryRecalc
    <3>2. job[k] \in Job /\ JobSound(job[k])
      BY DEF Jobs
    <3> QED BY <3>1, <3>2, Enqueueing, JobsKept
  <2>4. request' = [request EXCEPT ![q] =
          IF at = "adding" THEN NoRequest ELSE [request[q] EXCEPT !.at = EnqueueMoves(at, job[k])]]
    <3>1. request' = [request EXCEPT ![q] =
            IF request[q].at = "adding" THEN NoRequest
            ELSE [request[q] EXCEPT !.at = EnqueueMoves(request[q].at, job[request[q].key])]]
      BY <1>2 DEF EnqueueMasteryRecalc
    <3> QED BY <2>1, <2>2, <3>1
  <2>5. at # "adding" => EnqueueMoves(at, job[k]) \in Enqueuing
    BY EnqueueReturns
  <2>6. request' \in [Request -> [at : {"idle"} \cup Enqueuing, key : Key]]
    BY <2>4, <2>5, NothingYet
  <2> QED BY <1>2, <2>3, <2>6 DEF EnqueueMasteryRecalc, Jobs
<1>3. CASE GiveUp(q)
  BY <1>3, NothingYet DEF GiveUp, Jobs, JobSound
<1> QED BY <1>1, <1>2, <1>3

\* A calculation keeps the types.
LEMMA MasteryRunType ==
  ASSUME MasteryTypeOK, Jobs, NEW r \in Run,
         StartRun(r) \/ RunStep(r) \/ PassOver(r) \/ FailRun(r) \/ TimeOut(r)
  PROVE  MasteryTypeOK' /\ Jobs'
<1>0. /\ run \in [Run -> Execution] /\ run[r] \in Execution /\ run[r].key \in Key
      /\ run[r].read \in Evidence /\ evidence \in Evidence /\ mastery.claimed \in BOOLEAN
      /\ \A k \in Key : job[k] \in Job /\ JobSound(job[k])
  BY DEF MasteryTypeOK, Execution, Jobs
<1>1. CASE StartRun(r)
  <2>1. PICK k \in Key :
          /\ job[k].state = "waiting"
          /\ job' = [job EXCEPT ![k] = Taken(job[k], r)]
          /\ run' = [run EXCEPT ![r] = [run[r] EXCEPT !.at = "reading", !.key = k]]
    BY <1>1 DEF StartRun
  <2>2. Jobs'
    BY <1>0, <2>1, Taking, JobsKept
  <2>3. run' \in [Run -> Execution]
    BY <1>0, <2>1 DEF Execution
  <2> QED BY <1>1, <2>2, <2>3 DEF StartRun, MasteryTypeOK, Jobs
<1>2. CASE ReadResponses(r)
  <2>1. run' \in [Run -> Execution]
    BY <1>0, <1>2 DEF ReadResponses, Execution
  <2> QED BY <1>2, <2>1 DEF ReadResponses, MasteryTypeOK, Jobs, JobSound
<1>3. CASE WriteMastery(r)
  <2>1. run' \in [Run -> Execution]
    BY <1>3, GoesType DEF WriteMastery, Step
  <2>2. run[r].read.weak \in BOOLEAN
    BY <1>0 DEF Evidence
  <2> QED BY <1>0, <1>3, <2>1, <2>2 DEF WriteMastery, MasteryTypeOK, Jobs, JobSound
<1>4. CASE Choose(r)
  <2>1. run' \in [Run -> Execution]
    BY <1>4, GoesType DEF Choose, Step
  <2> QED BY <1>4, <2>1 DEF Choose, MasteryTypeOK, Jobs, JobSound
<1>5. CASE Claim(r)
  <2>1. run' \in [Run -> Execution]
    BY <1>5, GoesType, Kinds DEF Claim, Step
  <2> QED BY <1>0, <1>5, <2>1 DEF Claim, MasteryTypeOK, Jobs, JobSound
<1>6. CASE Create(r)
  <2>1. After[run[r].at] \in Step
    BY <1>6, Kinds DEF Create, Step
  <2>2. run' \in [Run -> Execution]
    BY <1>6, <2>1, GoesType DEF Create
  <2> QED BY <1>6, <2>2 DEF Create, MasteryTypeOK, Jobs, JobSound
<1>7. CASE Return(r)
  <2>1. job' = [job EXCEPT ![run[r].key] = Completed(job[run[r].key], r)]
    BY <1>7 DEF Return
  <2>2. Jobs'
    BY <1>0, <2>1, Reporting, JobsKept
  <2> QED BY <1>0, <1>7, <2>2, NothingYet DEF Return, Ends, MasteryTypeOK, Jobs
<1>8. CASE PassOver(r)
  <2>1. run' \in [Run -> Execution]
    BY <1>8, GoesType DEF PassOver, Step
  <2>2. Losing(r) \subseteq {"recalculation", "intervention"}
    BY DEF Losing
  <2> QED BY <1>8, <2>1, <2>2 DEF PassOver, MasteryTypeOK, Jobs, JobSound
<1>9. CASE FailRun(r)
  <2>1. job' = [job EXCEPT ![run[r].key] = Thrown(job[run[r].key], r)]
    BY <1>9 DEF FailRun
  <2>2. Jobs'
    BY <1>0, <2>1, Reporting, JobsKept
  <2> QED BY <1>0, <1>9, <2>2, NothingYet DEF FailRun, Ends, MasteryTypeOK, Jobs
<1>10. CASE TimeOut(r)
  <2>1. PICK k \in Key : job' = [job EXCEPT ![k] = Thrown(job[k], r)]
    BY <1>10 DEF TimeOut
  <2>2. Jobs'
    BY <1>0, <2>1, Reporting, JobsKept
  <2> QED BY <1>10, <2>2 DEF TimeOut, MasteryTypeOK, Jobs
<1> QED BY <1>1, <1>2, <1>3, <1>4, <1>5, <1>6, <1>7, <1>8, <1>9, <1>10 DEF RunStep

\* The invariant is inductive.
LEMMA MasteryStepInv == MasteryInv /\ [MasteryNext]_masteryVars => MasteryInv'
<1> SUFFICES ASSUME MasteryInv, [MasteryNext]_masteryVars PROVE MasteryInv'
  OBVIOUS
<1>0. MasteryTypeOK /\ Jobs /\ ClaimsCounted
  BY DEF MasteryInv, MasteryTypeOK, Jobs
<1>1. CASE UNCHANGED masteryVars
  <2>1. ClaimsCounted'
    BY <1>0, <1>1, CountAlone DEF masteryVars
  <2> QED BY <1>0, <1>1, <2>1 DEF masteryVars, MasteryInv, MasteryTypeOK, JobSound
<1>2. ASSUME NEW q \in Request, CommitMarks(q) \/ EnqueueMasteryRecalc(q) \/ GiveUp(q)
      PROVE  MasteryInv'
  <2>1. MasteryTypeOK' /\ Jobs'
    BY <1>0, <1>2, MasteryRequestType
  <2>2. ClaimsCounted'
    BY <1>0, <1>2, CountAlone DEF CommitMarks, EnqueueMasteryRecalc, GiveUp
  <2> QED BY <2>1, <2>2 DEF MasteryInv, Jobs
<1>3. ASSUME NEW r \in Run, StartRun(r) \/ RunStep(r) \/ PassOver(r) \/ FailRun(r) \/ TimeOut(r)
      PROVE  MasteryInv'
  BY <1>0, <1>3, MasteryRunType, CountRun DEF MasteryInv, Jobs
<1>4. ASSUME NEW k \in Key, PromoteJob(k) PROVE MasteryInv'
  <2>1. job' = [job EXCEPT ![k] = Promoted(job[k])] /\ job[k].state = "delayed"
    BY <1>4 DEF PromoteJob
  <2>2. job[k] \in Job /\ JobSound(job[k])
    BY <1>0 DEF Jobs
  <2>3. Jobs'
    BY <1>0, <2>1, <2>2, Promoting, JobsKept
  <2>4. ClaimsCounted'
    BY <1>0, <1>4, CountAlone DEF PromoteJob
  <2> QED BY <1>0, <1>4, <2>3, <2>4 DEF PromoteJob, MasteryInv, MasteryTypeOK, Jobs
<1> QED BY <1>1, <1>2, <1>3, <1>4 DEF MasteryNext

\* The invariant holds in every reachable state.
THEOREM MasteryInvariance == MasterySpec => []MasteryInv
  BY MasteryInitInv, MasteryStepInv, PTL DEF MasterySpec

\* The job of each set, its calculations and the score keep their types; no
\* job is tried more often than its attempts.
THEOREM MasteryTypeCorrect == MasterySpec => []MasteryTypeOK
<1>1. MasteryInv => MasteryTypeOK
  BY DEF MasteryInv
<1> QED BY <1>1, MasteryInvariance, PTL

\* Between two recoveries a weak topic gets one of each record, however many
\* calculations overlap, time out and are tried again.
THEOREM WeaknessIsAnsweredOnce == MasterySpec => []OneInterventionPerEpisode
<1>1. MasteryInv => OneInterventionPerEpisode
  <2> SUFFICES ASSUME MasteryInv PROVE OneInterventionPerEpisode
    OBVIOUS
  <2>1. ASSUME NEW w \in Kind PROVE rows[w] \in Nat /\ rows[w] <= Rows(w) /\ Rows(w) \in Nat
    <3>1. {w} \in SUBSET Step
      BY DEF Step
    <3>2. IsFiniteSet(Busy({w}))
      BY <3>1, FS_Subset DEF Busy, MasteryInv, ClaimsCounted
    <3>3. Cardinality(Busy({w})) \in Nat /\ rows[w] \in Nat
      BY <3>2, FS_CardinalityType DEF MasteryInv, MasteryTypeOK
    <3> QED BY <3>3 DEF Rows
  <2>2. claims <= cleared + 1 /\ cleared \in Nat /\ claims \in Nat
    BY DEF MasteryInv, MasteryTypeOK, claims
  <2> QED BY <2>1, <2>2, Kinds
          DEF MasteryInv, ClaimsCounted, RecordsFollowClaims, OneInterventionPerEpisode
<1> QED BY <1>1, MasteryInvariance, PTL

\* No claim is left without an intervention that was announced or is on its
\* way, unless an error or a crash came between.
THEOREM ClaimsAreKept == MasterySpec => []ClaimsAreAnswered
<1>1. MasteryInv => ClaimsAreAnswered
  BY DEF MasteryInv, ClaimsCounted
<1> QED BY <1>1, MasteryInvariance, PTL
=============================================================================
