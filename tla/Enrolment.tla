----------------------------- MODULE Enrolment -----------------------------
(***************************************************************************)
(* The people of one institute: the students its admins enrol under the    *)
(* limit of its plan, move between batches and archive, and the users that *)
(* signing in with Google provisions from the allow-list.                  *)
(*                                                                         *)
(* Requests await the database between their checks and their writes; two  *)
(* transactions that count the students at the same time do not see what   *)
(* the other one inserts (READ COMMITTED, the default of PostgreSQL).      *)
(* Teachers are hired the same way, under a limit of their own.            *)
(***************************************************************************)
EXTENDS Naturals, FiniteSets

CONSTANTS
  Person,    \* who they are, by email address
  Batch,
  Request,   \* concurrent requests of admins
  Limit      \* maxStudents of the plans there are; 0 for a trial that ended,
             \* more than there are people for a plan without a limit (null)

ASSUME EnrolmentAssumption ==
  /\ IsFiniteSet(Request) /\ Request # {}
  /\ IsFiniteSet(Person)
  /\ Limit \subseteq Nat

VARIABLES
  user,      \* the users row and the student_profiles row of each person
  listed,    \* the role each has in the allow-list
  limit,     \* that of the institute's plan
  granted,   \* history: the largest limit there was
  told,      \* the batch the last BATCH_TRANSFER entry, or the admission, says
  barred,    \* history: archived or suspended, and not made ACTIVE by an admin since
  request,   \* where each request is, and what it has read
  login      \* the sign-in that is under way

vars == <<user, listed, limit, granted, told, barred, request, login>>

Role == {"STUDENT", "TEACHER"}
User == [sub : {"none", "local", "google"}, role : Role \cup {"none"}, active : BOOLEAN,
         enrolled : BOOLEAN, batch : Batch \cup {"nowhere"}]
NoUser == [sub |-> "none", role |-> "none", active |-> FALSE,
           enrolled |-> FALSE, batch |-> "nowhere"]

Asked == [at : {"idle", "checked", "limited", "counted", "moving"}, who : Person \cup {"nobody"},
          to : Batch \cup {"nowhere"}, limit : Nat]
Nothing == [at |-> "idle", who |-> "nobody", to |-> "nowhere", limit |-> 0]
SignIn == [at : {"idle", "listed", "known"}, who : Person \cup {"nobody"},
           role : Role \cup {"none"}]
NoSignIn == [at |-> "idle", who |-> "nobody", role |-> "none"]

exists(p) == user[p].sub # "none"
students == {p \in Person : user[p].role = "STUDENT"}
enrolled == {p \in Person : user[p].enrolled}

TypeOK ==
  /\ user \in [Person -> User]
  /\ \A p \in enrolled : user[p].sub = "local" /\ user[p].role = "STUDENT"
  /\ listed \in [Person -> Role \cup {"none"}]
  /\ limit \in Limit /\ granted \in Nat
  /\ told \in [Person -> Batch \cup {"nowhere"}]
  /\ barred \subseteq Person
  /\ request \in [Request -> Asked]
  /\ \A q \in Request :
       /\ request[q].at # "idle" => request[q].who \in Person
       /\ request[q].at = "moving" => request[q].who \in enrolled /\ request[q].to \in Batch
  /\ login \in SignIn /\ (login.at # "idle" => login.who \in Person)

Init ==
  /\ user = [p \in Person |-> NoUser]
  /\ listed = [p \in Person |-> "none"]
  /\ limit \in Limit /\ granted = limit
  /\ told = [p \in Person |-> "nowhere"]
  /\ barred = {}
  /\ request = [q \in Request |-> Nothing]
  /\ login = NoSignIn

-----------------------------------------------------------------------------
(* StudentsService.create()                                                *)

\* The batch is one of the institute's, and nobody has this address yet.
CheckEmail(q) ==
  /\ request[q].at = "idle"
  /\ \E p \in Person, b \in Batch \cup {"nowhere"} :
       /\ ~exists(p)
       /\ request' = [request EXCEPT ![q] = [Nothing EXCEPT !.at = "checked", !.who = p, !.to = b]]
  /\ UNCHANGED <<user, listed, limit, granted, told, barred, login>>

\* assertCanCreate(), inside the transaction: the limit of the plan, ...
ReadLimit(q) ==
  /\ request[q].at = "checked"
  /\ request' = [request EXCEPT ![q] = [@ EXCEPT !.at = "limited", !.limit = limit]]
  /\ UNCHANGED <<user, listed, limit, granted, told, barred, login>>

\* Mutant: the plan is exceeded by one.
CountUpTo(q) ==
  /\ request[q].at = "limited"
  /\ request' = [request EXCEPT ![q] =
       IF Cardinality(students) <= @.limit THEN [@ EXCEPT !.at = "counted"] ELSE Nothing]
  /\ UNCHANGED <<user, listed, limit, granted, told, barred, login>>

\* ... and the students that are committed.
CountStudents(q) ==
  /\ request[q].at = "limited"
  /\ request' = [request EXCEPT ![q] =
       IF Cardinality(students) < @.limit THEN [@ EXCEPT !.at = "counted"] ELSE Nothing]
  /\ UNCHANGED <<user, listed, limit, granted, told, barred, login>>

\* The two inserts.  @@unique([instituteId, email]) refuses a second user;
\* googleSub is made up, a placeholder until Google login.
CreateStudent(q) ==
  LET p == request[q].who
      b == request[q].to
  IN
  /\ request[q].at = "counted"
  /\ IF exists(p) THEN UNCHANGED <<user, told>>
     ELSE /\ user' = [user EXCEPT ![p] = [sub |-> "local", role |-> "STUDENT", active |-> TRUE,
                                          enrolled |-> TRUE, batch |-> b]]
          /\ told' = [told EXCEPT ![p] = b]
  /\ request' = [request EXCEPT ![q] = Nothing]
  /\ UNCHANGED <<listed, limit, granted, barred, login>>

-----------------------------------------------------------------------------
(* transferBatch(), archive(), UsersService.updateStatus()                 *)

\* Mutant: the history is written with the check, before the transaction.
ReadAndRecord(q) ==
  /\ request[q].at = "idle"
  /\ \E p \in enrolled, b \in Batch :
       /\ user[p].batch # b
       /\ told' = [told EXCEPT ![p] = b]
       /\ request' = [request EXCEPT ![q] = [Nothing EXCEPT !.at = "moving", !.who = p, !.to = b]]
  /\ UNCHANGED <<user, listed, limit, granted, barred, login>>

ReadProfile(q) ==
  /\ request[q].at = "idle"
  /\ \E p \in enrolled, b \in Batch :
       /\ user[p].batch # b
       /\ request' = [request EXCEPT ![q] = [Nothing EXCEPT !.at = "moving", !.who = p, !.to = b]]
  /\ UNCHANGED <<user, listed, limit, granted, told, barred, login>>

\* The profile and its history entry, in one transaction: whoever updates the
\* row last also writes the last entry.
CommitTransfer(q) ==
  LET p == request[q].who
      b == request[q].to
  IN
  /\ request[q].at = "moving"
  /\ user' = [user EXCEPT ![p].batch = b]
  /\ told' = [told EXCEPT ![p] = b]
  /\ request' = [request EXCEPT ![q] = Nothing]
  /\ UNCHANGED <<listed, limit, granted, barred, login>>

Archive(p) ==
  /\ user[p].enrolled
  /\ user' = [user EXCEPT ![p].active = FALSE]
  /\ barred' = barred \cup {p}
  /\ UNCHANGED <<listed, limit, granted, told, request, login>>

UpdateStatus(p) ==
  /\ exists(p)
  /\ \E active \in BOOLEAN :
       /\ user' = [user EXCEPT ![p].active = active]
       /\ barred' = IF active THEN barred \ {p} ELSE barred \cup {p}
  /\ UNCHANGED <<listed, limit, granted, told, request, login>>

-----------------------------------------------------------------------------
(* The allow-list and the plan                                             *)

AddAllowListEntry(p) ==
  /\ listed[p] = "none"
  /\ \E role \in Role : listed' = [listed EXCEPT ![p] = role]
  /\ UNCHANGED <<user, limit, granted, told, barred, request, login>>

\* "Does NOT delete the user if they exist."
RemoveAllowListEntry(p) ==
  /\ listed[p] # "none"
  /\ listed' = [listed EXCEPT ![p] = "none"]
  /\ UNCHANGED <<user, limit, granted, told, barred, request, login>>

\* FounderService.updatePlan() and updatePlanDefinition(); a trial ends.
UpdatePlan ==
  /\ limit' \in Limit \ {limit}
  /\ granted' = IF limit' > granted THEN limit' ELSE granted
  /\ UNCHANGED <<user, listed, told, barred, request, login>>

-----------------------------------------------------------------------------
(* loginWithGoogle()                                                       *)

FindAllowListEntry(p) ==
  /\ login.at = "idle" /\ listed[p] # "none"
  /\ login' = [at |-> "listed", who |-> p, role |-> listed[p]]
  /\ UNCHANGED <<user, listed, limit, granted, told, barred, request>>

\* The upsert goes by the Google subject; a user with this address that has
\* another subject makes its create violate the unique key.
UpsertAs(active) ==
  LET p == login.who IN
  CASE user[p].sub = "none" ->
         user' = [user EXCEPT ![p] = [NoUser EXCEPT !.sub = "google", !.role = login.role,
                                                    !.active = TRUE]]
    [] user[p].sub = "google" -> user' = [user EXCEPT ![p].active = active]
    [] user[p].sub = "local" -> UNCHANGED user

\* Mutant: the upsert goes by the address.
UpsertByEmail ==
  /\ login.at = "listed"
  /\ IF exists(login.who) THEN user' = [user EXCEPT ![login.who].sub = "google"] ELSE UpsertAs(TRUE)
  /\ login' = [login EXCEPT !.at = "known"]
  /\ UNCHANGED <<listed, limit, granted, told, barred, request>>

\* Mutant: what the code once did, signing in makes the user ACTIVE.
UpsertActive ==
  /\ login.at = "listed"
  /\ UpsertAs(TRUE)
  /\ login' = IF user[login.who].sub = "local" THEN NoSignIn ELSE [login EXCEPT !.at = "known"]
  /\ UNCHANGED <<listed, limit, granted, told, barred, request>>

\* The status is left alone.  A conflict of the keys is answered with a 409.
UpsertUser ==
  /\ login.at = "listed"
  /\ UpsertAs(user[login.who].active)
  /\ login' = IF user[login.who].sub = "local" THEN NoSignIn ELSE [login EXCEPT !.at = "known"]
  /\ UNCHANGED <<listed, limit, granted, told, barred, request>>

\* The role follows the allow-list.  The status guard and the session that
\* follow write nothing of what is here: see Sessions.
SyncRole ==
  /\ login.at = "known"
  /\ user' = [user EXCEPT ![login.who].role = login.role]
  /\ login' = NoSignIn
  /\ UNCHANGED <<listed, limit, granted, told, barred, request>>

-----------------------------------------------------------------------------

RequestNext(q) ==
  \/ CheckEmail(q) \/ ReadLimit(q) \/ CountStudents(q) \/ CreateStudent(q)
  \/ ReadProfile(q) \/ CommitTransfer(q)

PersonNext(p) ==
  \/ Archive(p) \/ UpdateStatus(p) \/ AddAllowListEntry(p) \/ RemoveAllowListEntry(p)
  \/ FindAllowListEntry(p)

Next ==
  \/ \E q \in Request : RequestNext(q)
  \/ \E p \in Person : PersonNext(p)
  \/ UpsertUser \/ SyncRole
  \/ UpdatePlan

Spec == Init /\ [][Next]_vars
-----------------------------------------------------------------------------
(* Properties *)

\* students.service.ts:56: the count and the create are not one atomic
\* decision, but what requests at the boundary of the plan can overshoot is
\* less than their number, however plans change, students are provisioned by
\* signing in, and requests interleave.
OverbookingIsBounded == Cardinality(enrolled) < granted + Cardinality(Request)

\* students.service.ts:410: the last entry of the immutable history says which
\* batch a student is in, whatever transfers raced.
HistoryTellsBatch == \A p \in enrolled : told[p] = user[p].batch

\* auth.service.ts:109: archiving is not undone by signing in again: the status
\* in the users row, which every request and every refresh is checked against,
\* stays what the last admin made it.
BarredStayOut == \A p \in barred : ~user[p].active

-----------------------------------------------------------------------------
(* Stated by the repository, and refuted by TLC: see README.md *)

\* students.service.ts:56: no enrolment takes the institute past its plan.
PlanLimitHolds == Cardinality(enrolled) <= granted
=============================================================================
