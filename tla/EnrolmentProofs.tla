-------------------------- MODULE EnrolmentProofs --------------------------
(***************************************************************************)
(* For any institute, any plans and any number of concurrent requests: the *)
(* plan is overshot by less than the number of requests, because each seat *)
(* taken beyond it is taken by a request that had counted, and a request   *)
(* counts only while there is a seat left.                                 *)
(***************************************************************************)
EXTENDS Enrolment, FiniteSetTheorems, TLAPS

Counted == {q \in Request : request[q].at = "counted"}

\* No limit a request goes by is larger than the largest there was.
LimitsGranted ==
  /\ limit <= granted
  /\ \A q \in Request : request[q].limit <= granted

\* The seats taken, with those about to be.
SeatsBounded == Cardinality(enrolled) + Cardinality(Counted) < granted + Cardinality(Request)

BarredExist == \A p \in barred : exists(p)

\* Whose role is about to be synchronised is a user that signed in.
KnownSignedIn == login.at = "known" => user[login.who].sub = "google"

IInv ==
  /\ TypeOK /\ LimitsGranted /\ SeatsBounded /\ KnownSignedIn
  /\ HistoryTellsBatch /\ BarredExist /\ BarredStayOut

\* The null records are records.
LEMMA NullTypes == NoUser \in User /\ Nothing \in Asked /\ NoSignIn \in SignIn
  BY DEF NoUser, User, Nothing, Asked, NoSignIn, SignIn

\* The seats are finite sets, and their number is a natural number.
LEMMA SeatsAreNumbers ==
  ASSUME EnrolmentAssumption
  PROVE  /\ IsFiniteSet(enrolled) /\ Cardinality(enrolled) \in Nat
         /\ IsFiniteSet(students) /\ Cardinality(students) \in Nat
         /\ IsFiniteSet(Counted) /\ Cardinality(Counted) \in Nat
         /\ Cardinality(Counted) <= Cardinality(Request)
         /\ Cardinality(Request) \in Nat \ {0}
<1>1. enrolled \subseteq Person /\ students \subseteq Person /\ Counted \subseteq Request
  BY DEF enrolled, students, Counted
<1> QED BY <1>1, FS_Subset, FS_CardinalityType, FS_EmptySet DEF EnrolmentAssumption

\* The initial state satisfies the inductive invariant.
LEMMA InitIInv == Init => IInv
<1> SUFFICES ASSUME Init PROVE IInv
  OBVIOUS
<1>1. enrolled = {} /\ Counted = {}
  BY DEF Init, enrolled, Counted, NoUser, Nothing
<1>2. TypeOK
  BY <1>1, NullTypes, EnrolmentAssumption DEF Init, TypeOK, EnrolmentAssumption, NoSignIn, Nothing
<1>3. LimitsGranted
  BY EnrolmentAssumption DEF Init, LimitsGranted, Nothing, EnrolmentAssumption
<1>4. SeatsBounded
  BY <1>1, <1>2, SeatsAreNumbers, EnrolmentAssumption, FS_EmptySet DEF SeatsBounded, TypeOK
<1>5. HistoryTellsBatch /\ BarredExist /\ BarredStayOut /\ KnownSignedIn
  BY <1>1 DEF Init, KnownSignedIn, NoSignIn, HistoryTellsBatch, BarredExist, BarredStayOut
<1> QED BY <1>2, <1>3, <1>4, <1>5 DEF IInv

-----------------------------------------------------------------------------
(* Steps of requests that write no user.                                   *)

\* Only request q changes; it does not become one that has counted.
LEMMA ReadingKeeps ==
  ASSUME IInv, NEW q \in Request, NEW r \in Asked,
         request' = [request EXCEPT ![q] = r],
         UNCHANGED <<user, listed, limit, granted, told, barred, login>>,
         r.at # "counted", r.limit <= granted,
         r.at # "idle" => r.who \in Person,
         r.at = "moving" => r.who \in enrolled /\ r.to \in Batch
  PROVE  IInv'
<1>1. enrolled' = enrolled
  BY DEF enrolled
<1>2. TypeOK'
  BY <1>1 DEF IInv, TypeOK
<1>3. LimitsGranted'
  BY DEF IInv, TypeOK, LimitsGranted
<1>4. Counted' \subseteq Counted
  BY DEF IInv, TypeOK, Counted
<1>5. Cardinality(Counted') \in Nat /\ Cardinality(Counted') <= Cardinality(Counted)
  BY <1>4, SeatsAreNumbers, EnrolmentAssumption, FS_Subset, FS_CardinalityType
<1>6. SeatsBounded'
  BY <1>1, <1>5, SeatsAreNumbers, EnrolmentAssumption DEF IInv, TypeOK, SeatsBounded
<1>7. HistoryTellsBatch' /\ BarredExist' /\ BarredStayOut' /\ KnownSignedIn'
  BY <1>1 DEF IInv, KnownSignedIn, HistoryTellsBatch, BarredExist, BarredStayOut, exists
<1> QED BY <1>2, <1>3, <1>6, <1>7 DEF IInv

\* The checks before the transactions, and the read of the limit.
LEMMA ReadingStep ==
  ASSUME IInv, NEW q \in Request, CheckEmail(q) \/ ReadLimit(q) \/ ReadProfile(q)
  PROVE  IInv'
<1>0. request[q] \in Asked /\ (request[q].at # "idle" => request[q].who \in Person)
  BY DEF IInv, TypeOK
<1>1. CASE CheckEmail(q)
  <2>1. PICK p \in Person, b \in Batch \cup {"nowhere"} :
          request' = [request EXCEPT ![q] = [Nothing EXCEPT !.at = "checked", !.who = p, !.to = b]]
    BY <1>1 DEF CheckEmail
  <2> DEFINE r == [Nothing EXCEPT !.at = "checked", !.who = p, !.to = b]
  <2>2. r \in Asked /\ r.at = "checked" /\ r.limit = 0 /\ r.who = p
    BY DEF Nothing, Asked
  <2>3. 0 <= granted
    BY DEF IInv, TypeOK
  <2> QED BY <1>1, <2>1, <2>2, <2>3, ReadingKeeps DEF CheckEmail
<1>2. CASE ReadLimit(q)
  <2> DEFINE r == [request[q] EXCEPT !.at = "limited", !.limit = limit]
  <2>1. r \in Asked /\ r.at = "limited" /\ r.limit = limit
    BY <1>0, <1>2, EnrolmentAssumption DEF ReadLimit, Asked, IInv, TypeOK, EnrolmentAssumption
  <2>2. r.who \in Person /\ limit <= granted
    BY <1>0, <1>2 DEF ReadLimit, Asked, IInv, LimitsGranted
  <2>3. request' = [request EXCEPT ![q] = r]
    BY <1>2 DEF ReadLimit, IInv, TypeOK
  <2> QED BY <1>2, <2>1, <2>2, <2>3, ReadingKeeps DEF ReadLimit
<1>3. CASE ReadProfile(q)
  <2>1. PICK p \in enrolled, b \in Batch :
          request' = [request EXCEPT ![q] = [Nothing EXCEPT !.at = "moving", !.who = p, !.to = b]]
    BY <1>3 DEF ReadProfile
  <2> DEFINE r == [Nothing EXCEPT !.at = "moving", !.who = p, !.to = b]
  <2>2. p \in Person
    BY DEF enrolled
  <2>3. r \in Asked /\ r.at = "moving" /\ r.limit = 0 /\ r.who = p /\ r.to = b
    BY <2>2 DEF Nothing, Asked
  <2>4. 0 <= granted
    BY DEF IInv, TypeOK
  <2> QED BY <1>3, <2>1, <2>2, <2>3, <2>4, ReadingKeeps DEF ReadProfile
<1> QED BY <1>1, <1>2, <1>3

\* A request counts only while there is a seat left: with all the others that
\* have counted it takes the plan past its limit by less than their number.
LEMMA CountStep ==
  ASSUME IInv, NEW q \in Request, CountStudents(q)
  PROVE  IInv'
<1>0. request[q] \in Asked /\ request[q].who \in Person
  BY DEF IInv, TypeOK, CountStudents
<1>1. CASE ~(Cardinality(students) < request[q].limit)
  <2>1. request' = [request EXCEPT ![q] = Nothing]
    BY <1>1 DEF CountStudents
  <2>2. Nothing.at = "idle" /\ Nothing.limit <= granted
    BY DEF Nothing, IInv, TypeOK
  <2> QED BY <2>1, <2>2, NullTypes, ReadingKeeps DEF CountStudents
<1>2. CASE Cardinality(students) < request[q].limit
  <2> DEFINE r == [request[q] EXCEPT !.at = "counted"]
  <2>1. request' = [request EXCEPT ![q] = r]
    BY <1>2 DEF CountStudents
  <2>2. r \in Asked /\ r.at = "counted" /\ r.who \in Person /\ r.limit = request[q].limit
    BY <1>0 DEF Asked
  <2>3. enrolled' = enrolled /\ granted' = granted
    BY DEF CountStudents, enrolled
  <2>4. TypeOK'
    BY <2>1, <2>2, <2>3 DEF CountStudents, IInv, TypeOK
  <2> HIDE DEF r
  <2>5. LimitsGranted'
    BY <2>1, <2>2, <2>3 DEF CountStudents, IInv, TypeOK, LimitsGranted
  <2>6. enrolled \subseteq students
    BY DEF IInv, TypeOK, enrolled, students
  <2>7. Cardinality(enrolled) <= Cardinality(students)
    BY <2>6, SeatsAreNumbers, EnrolmentAssumption, FS_Subset
  <2>8. request[q].limit \in Nat /\ request[q].limit <= granted
    BY <1>0 DEF Asked, IInv, LimitsGranted
  <2>9. Counted' \subseteq Request
    BY DEF Counted
  <2>10. Cardinality(Counted') \in Nat /\ Cardinality(Counted') <= Cardinality(Request)
    BY <2>9, FS_Subset, FS_CardinalityType, EnrolmentAssumption DEF EnrolmentAssumption
  <2>11. SeatsBounded'
    BY <1>2, <2>3, <2>7, <2>8, <2>10, SeatsAreNumbers, EnrolmentAssumption DEF IInv, TypeOK, SeatsBounded
  <2>12. HistoryTellsBatch' /\ BarredExist' /\ BarredStayOut' /\ KnownSignedIn'
    BY <2>3 DEF CountStudents, KnownSignedIn, IInv, HistoryTellsBatch, BarredExist, BarredStayOut, exists
  <2> QED BY <2>4, <2>5, <2>11, <2>12 DEF IInv
<1> QED BY <1>1, <1>2

-----------------------------------------------------------------------------
(* Steps that write users.                                                 *)

\* Who counted and what is granted stays; nobody else is enrolled.
LEMMA SeatsKept ==
  ASSUME IInv, enrolled' = enrolled, UNCHANGED <<request, limit, granted>>
  PROVE  LimitsGranted' /\ SeatsBounded'
<1>1. Counted' = Counted
  BY DEF Counted
<1> QED BY <1>1 DEF IInv, LimitsGranted, SeatsBounded

\* A seat that a request had counted is taken; the others stay.
LEMMA CreateStep ==
  ASSUME IInv, NEW q \in Request, CreateStudent(q)
  PROVE  IInv'
<1> DEFINE p == request[q].who
           u == [sub |-> "local", role |-> "STUDENT", active |-> TRUE,
                 enrolled |-> TRUE, batch |-> request[q].to]
<1>0. p \in Person /\ request[q].to \in Batch \cup {"nowhere"} /\ q \in Counted /\ u \in User
  BY DEF IInv, TypeOK, CreateStudent, Asked, Counted, User, Role
<1>a. \A x \in Person :
        /\ user'[x] = IF x = p /\ ~exists(p) THEN u ELSE user[x]
        /\ told'[x] = IF x = p /\ ~exists(p) THEN u.batch ELSE told[x]
  BY DEF CreateStudent, IInv, TypeOK
<1>b. u.sub = "local" /\ u.role = "STUDENT" /\ u.active /\ u.enrolled
  OBVIOUS
<1> HIDE DEF u
<1>1. enrolled' \subseteq enrolled \cup {p} /\ enrolled \subseteq enrolled'
  BY <1>a, <1>b DEF enrolled
<1>2. Counted' = Counted \ {q}
  BY <1>0 DEF CreateStudent, Counted, IInv, TypeOK, Nothing
<1>3. TypeOK'
  <2>1. user' \in [Person -> User] /\ told' \in [Person -> Batch \cup {"nowhere"}]
    BY <1>0 DEF u, CreateStudent, IInv, TypeOK
  <2>2. \A x \in enrolled' : user'[x].sub = "local" /\ user'[x].role = "STUDENT"
    BY <1>a, <1>b DEF enrolled, IInv, TypeOK
  <2>3. request' \in [Request -> Asked]
    BY NullTypes DEF CreateStudent, IInv, TypeOK
  <2>4. \A x \in Request :
          /\ request'[x].at # "idle" => request'[x].who \in Person
          /\ request'[x].at = "moving" => request'[x].who \in enrolled' /\ request'[x].to \in Batch
    BY <1>1 DEF CreateStudent, IInv, TypeOK, Nothing
  <2> QED BY <2>1, <2>2, <2>3, <2>4 DEF CreateStudent, IInv, TypeOK
<1>4. LimitsGranted'
  <2>1. Nothing.limit <= granted
    BY DEF Nothing, IInv, TypeOK
  <2> QED BY <2>1 DEF CreateStudent, LimitsGranted, IInv, TypeOK
<1>5. SeatsBounded'
  <2>1. Cardinality(enrolled') \in Nat /\ Cardinality(enrolled') <= Cardinality(enrolled) + 1
    <3>1. IsFiniteSet(enrolled \cup {p}) /\ Cardinality(enrolled \cup {p}) <= Cardinality(enrolled) + 1
      <4>1. IsFiniteSet(enrolled) /\ Cardinality(enrolled) \in Nat
        BY SeatsAreNumbers, EnrolmentAssumption
      <4>2. /\ IsFiniteSet(enrolled \cup {p})
            /\ Cardinality(enrolled \cup {p})
                 = IF p \in enrolled THEN Cardinality(enrolled) ELSE Cardinality(enrolled) + 1
        BY <4>1, FS_AddElement, Zenon
      <4> QED BY <4>1, <4>2
    <3>2. Cardinality(enrolled \cup {p}) \in Nat
      BY <3>1, FS_CardinalityType
    <3> QED BY <3>1, <3>2, <1>1, SeatsAreNumbers, EnrolmentAssumption, FS_Subset, FS_CardinalityType
  <2>2. Cardinality(Counted') = Cardinality(Counted) - 1
    BY <1>0, <1>2, SeatsAreNumbers, EnrolmentAssumption, FS_RemoveElement
  <2>3. granted' = granted
    BY DEF CreateStudent
  <2> QED BY <2>1, <2>2, <2>3, SeatsAreNumbers, EnrolmentAssumption DEF SeatsBounded, IInv, TypeOK
<1>6. HistoryTellsBatch'
  BY <1>a, <1>b DEF HistoryTellsBatch, enrolled, IInv, TypeOK
<1>8. KnownSignedIn'
  BY <1>a DEF CreateStudent, KnownSignedIn, exists, IInv, TypeOK
<1>7. BarredExist' /\ BarredStayOut'
  BY <1>0 DEF CreateStudent, BarredExist, BarredStayOut, exists, IInv, TypeOK
<1> QED BY <1>3, <1>4, <1>5, <1>6, <1>7, <1>8 DEF IInv

\* A transfer writes the batch and the history entry in one transaction.
LEMMA TransferStep ==
  ASSUME IInv, NEW q \in Request, CommitTransfer(q)
  PROVE  IInv'
<1> DEFINE p == request[q].who
           b == request[q].to
<1>0. p \in enrolled /\ p \in Person /\ b \in Batch
  BY DEF IInv, TypeOK, CommitTransfer
<1>1. user' \in [Person -> User]
  BY <1>0 DEF CommitTransfer, IInv, TypeOK, User
<1>2. \A x \in Person : /\ user'[x].sub = user[x].sub /\ user'[x].role = user[x].role
                        /\ user'[x].active = user[x].active /\ user'[x].enrolled = user[x].enrolled
                        /\ user'[x].batch = IF x = p THEN b ELSE user[x].batch
  BY <1>0 DEF CommitTransfer, IInv, TypeOK, User
<1>3. enrolled' = enrolled
  BY <1>2 DEF enrolled
<1>4. request' \in [Request -> Asked]
  BY NullTypes DEF CommitTransfer, IInv, TypeOK
<1>5. \A x \in Request : request'[x] = IF x = q THEN Nothing ELSE request[x]
  BY DEF CommitTransfer, IInv, TypeOK
<1>6. Nothing.at = "idle" /\ Nothing.limit = 0
  BY DEF Nothing
<1>7. TypeOK'
  BY <1>0, <1>1, <1>2, <1>3, <1>4, <1>5, <1>6 DEF CommitTransfer, IInv, TypeOK, enrolled
<1>8. LimitsGranted' /\ SeatsBounded'
  <2>1. Counted' = Counted
    BY <1>5, <1>6 DEF Counted, CommitTransfer
  <2> QED BY <2>1, <1>3, <1>5, <1>6 DEF CommitTransfer, LimitsGranted, SeatsBounded, IInv, TypeOK
<1>9. HistoryTellsBatch'
  BY <1>0, <1>2, <1>3 DEF CommitTransfer, HistoryTellsBatch, enrolled, IInv, TypeOK
<1>10. BarredExist' /\ BarredStayOut' /\ KnownSignedIn'
  BY <1>2 DEF CommitTransfer, KnownSignedIn, BarredExist, BarredStayOut, exists, IInv, TypeOK
<1> QED BY <1>7, <1>8, <1>9, <1>10 DEF IInv

\* A step that enrols nobody, and changes the subject, the role and the batch
\* of nobody who is enrolled.
LEMMA AccountKeeps ==
  ASSUME IInv, UNCHANGED <<limit, granted, told, request>>,
         user' \in [Person -> User], barred' \subseteq Person,
         listed' \in [Person -> Role \cup {"none"}],
         login' \in SignIn, login'.at # "idle" => login'.who \in Person,
         KnownSignedIn',
         \A p \in Person :
           /\ user'[p].enrolled = user[p].enrolled
           /\ user[p].enrolled => /\ user'[p].sub = user[p].sub /\ user'[p].role = user[p].role
                                  /\ user'[p].batch = user[p].batch
           /\ p \in barred' => exists(p)' /\ ~user'[p].active
  PROVE  IInv'
<1>1. enrolled' = enrolled
  BY DEF enrolled
<1>2. TypeOK'
  BY <1>1 DEF IInv, TypeOK, enrolled
<1>3. LimitsGranted' /\ SeatsBounded'
  BY <1>1, SeatsKept
<1>4. HistoryTellsBatch'
  BY <1>1 DEF IInv, HistoryTellsBatch, enrolled
<1>5. BarredExist' /\ BarredStayOut'
  BY DEF BarredExist, BarredStayOut
<1> QED BY <1>2, <1>3, <1>4, <1>5 DEF IInv

\* Administrators archive, suspend and activate, and edit the allow-list.
LEMMA PersonStep ==
  ASSUME IInv, NEW p \in Person, PersonNext(p)
  PROVE  IInv'
<1> USE DEF IInv, TypeOK, KnownSignedIn, exists, BarredExist, BarredStayOut
<1>0. user[p] \in User /\ listed[p] \in Role \cup {"none"}
  OBVIOUS
<1>1. CASE Archive(p)
  <2>1. user' \in [Person -> User] /\ barred' = barred \cup {p}
    BY <1>0, <1>1 DEF Archive, User
  <2>2. \A x \in Person : user'[x] = IF x = p THEN [user[x] EXCEPT !.active = FALSE] ELSE user[x]
    BY <1>1 DEF Archive
  <2>3. \A x \in Person : user[x] \in User /\ (user[x].enrolled => exists(x))
    BY DEF enrolled
  <2>4. KnownSignedIn'
    BY <1>1, <2>2, <2>3 DEF Archive, User
  <2> QED BY <1>1, <2>1, <2>2, <2>3, <2>4, AccountKeeps DEF Archive, User
<1>2. CASE UpdateStatus(p)
  <2>1. PICK active \in BOOLEAN :
          /\ user' = [user EXCEPT ![p].active = active]
          /\ barred' = IF active THEN barred \ {p} ELSE barred \cup {p}
    BY <1>2 DEF UpdateStatus
  <2>2. user' \in [Person -> User] /\ barred' \subseteq Person
    BY <1>0, <2>1 DEF User
  <2>3. \A x \in Person : user'[x] = IF x = p THEN [user[x] EXCEPT !.active = active] ELSE user[x]
    BY <2>1
  <2>4. \A x \in Person : user[x] \in User
    OBVIOUS
  <2>5. KnownSignedIn'
    BY <1>2, <2>3, <2>4 DEF UpdateStatus, User
  <2> QED BY <1>2, <2>1, <2>2, <2>3, <2>4, <2>5, AccountKeeps DEF UpdateStatus, User
<1>3. CASE AddAllowListEntry(p)
  BY <1>3, AccountKeeps DEF AddAllowListEntry
<1>4. CASE RemoveAllowListEntry(p)
  BY <1>4, AccountKeeps DEF RemoveAllowListEntry
<1>5. CASE FindAllowListEntry(p)
  BY <1>0, <1>5, AccountKeeps DEF FindAllowListEntry, SignIn
<1> QED BY <1>1, <1>2, <1>3, <1>4, <1>5 DEF PersonNext

\* Signing in makes new users, ACTIVE ones, and leaves the status of the others.
LEMMA SignInStep ==
  ASSUME IInv, UpsertUser \/ SyncRole
  PROVE  IInv'
<1> DEFINE p == login.who
<1> USE DEF IInv, TypeOK, KnownSignedIn, exists, BarredExist, BarredStayOut
<1>0. /\ p \in Person /\ user[p] \in User /\ login.role \in Role \cup {"none"}
      /\ user[p].enrolled => user[p].sub = "local"
  BY DEF UpsertUser, SyncRole, enrolled, SignIn
<1>1. \A x \in Person : user[x] \in User /\ (x \in barred => ~user[x].active)
  OBVIOUS
<1>2. login' \in SignIn /\ (login'.at # "idle" => login'.who \in Person)
  BY <1>0, NullTypes DEF UpsertUser, SyncRole, SignIn, NoSignIn
<1>3. CASE UpsertUser /\ user[p].sub = "none"
  <2> DEFINE u == [NoUser EXCEPT !.sub = "google", !.role = login.role, !.active = TRUE]
  <2>1. u \in User /\ u.sub = "google" /\ ~u.enrolled
    BY <1>0 DEF User, NoUser
  <2>2. user' = [user EXCEPT ![p] = u]
    BY <1>3 DEF UpsertUser, UpsertAs
  <2>3. ~user[p].enrolled /\ p \notin barred
    BY <1>0, <1>3
  <2> HIDE DEF u
  <2>4. \A x \in Person : user'[x] = IF x = p THEN u ELSE user[x]
    BY <2>2
  <2>5. KnownSignedIn'
    BY <1>0, <1>3, <2>1, <2>4 DEF UpsertUser
  <2>6. /\ user' \in [Person -> User] /\ barred' \subseteq Person
        /\ listed' \in [Person -> Role \cup {"none"}]
        /\ UNCHANGED <<limit, granted, told, request>>
    BY <1>3, <2>1, <2>2 DEF UpsertUser
  <2>7. \A x \in Person :
          /\ user'[x].enrolled = user[x].enrolled
          /\ user[x].enrolled => user'[x] = user[x]
          /\ x \in barred' => x \in barred /\ user'[x] = user[x]
    BY <1>0, <1>1, <1>3, <2>1, <2>3, <2>4 DEF UpsertUser, User
  <2>8. \A x \in barred' : exists(x)' /\ ~user'[x].active
    BY <1>1, <2>6, <2>7
  <2> QED BY <1>2, <2>5, <2>6, <2>7, <2>8, AccountKeeps
<1>4. CASE UpsertUser /\ user[p].sub = "google"
  <2>1. user' = [user EXCEPT ![p].active = user[p].active]
    BY <1>4 DEF UpsertUser, UpsertAs
  <2>2. user' = user
    BY <2>1, <1>0 DEF User
  <2>3. KnownSignedIn'
    BY <1>4, <2>2 DEF UpsertUser
  <2> QED BY <1>2, <1>4, <2>2, <2>3, AccountKeeps DEF UpsertUser
<1>5. CASE UpsertUser /\ user[p].sub = "local"
  <2>1. user' = user
    BY <1>5 DEF UpsertUser, UpsertAs
  <2>2. KnownSignedIn'
    BY <1>5, <2>1 DEF UpsertUser, NoSignIn
  <2> QED BY <1>2, <1>5, <2>1, <2>2, AccountKeeps DEF UpsertUser
<1>6. CASE SyncRole
  <2>1. \A x \in Person :
          user'[x] = IF x = p THEN [user[x] EXCEPT !.role = login.role] ELSE user[x]
    BY <1>6 DEF SyncRole
  <2>2. ~user[p].enrolled /\ user' \in [Person -> User] /\ login' = NoSignIn /\ NoSignIn.at = "idle"
    BY <1>0, <1>6 DEF SyncRole, User, NoSignIn
  <2> QED BY <1>0, <1>1, <1>2, <1>6, <2>1, <2>2, AccountKeeps DEF SyncRole, User
<1>7. user[p].sub \in {"none", "google", "local"}
  BY <1>0 DEF User
<1> QED BY <1>3, <1>4, <1>5, <1>6, <1>7

-----------------------------------------------------------------------------
(* The theorems.                                                           *)

\* Every step preserves the inductive invariant.
LEMMA NextIInv == IInv /\ [Next]_vars => IInv'
<1> SUFFICES ASSUME IInv, [Next]_vars PROVE IInv'
  OBVIOUS
<1>1. CASE \E q \in Request : RequestNext(q)
  BY <1>1, ReadingStep, CountStep, CreateStep, TransferStep DEF RequestNext
<1>2. CASE \E p \in Person : PersonNext(p)
  BY <1>2, PersonStep
<1>3. CASE UpsertUser \/ SyncRole
  BY <1>3, SignInStep
<1>4. CASE UpdatePlan
  <2>1. limit' \in Nat /\ limit' \in Limit /\ granted' \in Nat /\ limit' <= granted' /\ granted <= granted'
    <3>1. limit' \in Nat /\ limit' \in Limit /\ limit \in Nat /\ granted \in Nat
      BY <1>4, EnrolmentAssumption DEF UpdatePlan, IInv, TypeOK, EnrolmentAssumption
    <3>2. granted' = IF limit' > granted THEN limit' ELSE granted
      BY <1>4 DEF UpdatePlan
    <3> QED BY <3>1, <3>2
  <2>2. enrolled' = enrolled /\ Counted' = Counted
    BY <1>4 DEF UpdatePlan, enrolled, Counted
  <2>3. TypeOK'
    BY <1>4, <2>1, <2>2 DEF UpdatePlan, IInv, TypeOK
  <2>4. \A q \in Request : request[q].limit \in Nat /\ request[q].limit <= granted
    BY DEF IInv, TypeOK, LimitsGranted, Asked
  <2>5. granted \in Nat
    BY DEF IInv, TypeOK
  <2>6. LimitsGranted'
    BY <1>4, <2>1, <2>4, <2>5 DEF UpdatePlan, LimitsGranted
  <2>7. SeatsBounded'
    BY <2>1, <2>2, <2>5, SeatsAreNumbers, EnrolmentAssumption DEF IInv, SeatsBounded
  <2>8. HistoryTellsBatch' /\ BarredExist' /\ BarredStayOut' /\ KnownSignedIn'
    BY <1>4, <2>2 DEF UpdatePlan, IInv, HistoryTellsBatch, BarredExist, BarredStayOut, KnownSignedIn, exists
  <2> QED BY <2>3, <2>6, <2>7, <2>8 DEF IInv
<1>5. CASE UNCHANGED vars
  <2>1. enrolled' = enrolled /\ Counted' = Counted
    BY <1>5 DEF vars, enrolled, Counted
  <2>2. TypeOK'
    BY <1>5, <2>1 DEF vars, IInv, TypeOK
  <2> QED BY <1>5, <2>1, <2>2 DEF vars, IInv, LimitsGranted, SeatsBounded, HistoryTellsBatch,
                               BarredExist, BarredStayOut, KnownSignedIn, exists
<1> QED BY <1>1, <1>2, <1>3, <1>4, <1>5 DEF Next

\* The inductive invariant holds in every reachable state.
LEMMA IInvHolds == Spec => []IInv
<1> QED BY InitIInv, NextIInv, PTL DEF Spec

\* The tables keep their form, however requests, sign-ins and administrators
\* interleave: whoever has a profile is a student made up by an admin.
THEOREM TypeCorrect == Spec => []TypeOK
<1>1. IInv => TypeOK
  BY DEF IInv
<1> QED BY <1>1, IInvHolds, PTL

\* Requests that count the students at the same time overshoot the largest
\* plan there was by less than their number (students.service.ts:56).
THEOREM OverbookingBound == Spec => []OverbookingIsBounded
<1>1. IInv => OverbookingIsBounded
  BY SeatsAreNumbers, EnrolmentAssumption DEF IInv, TypeOK, SeatsBounded, OverbookingIsBounded
<1> QED BY <1>1, IInvHolds, PTL

\* The last entry of the history is the batch (students.service.ts:410).
THEOREM HistoryCorrect == Spec => []HistoryTellsBatch
<1>1. IInv => HistoryTellsBatch
  BY DEF IInv
<1> QED BY <1>1, IInvHolds, PTL

\* Signing in does not undo an archive (auth.service.ts:109).
THEOREM ArchiveHolds == Spec => []BarredStayOut
<1>1. IInv => BarredStayOut
  BY DEF IInv
<1> QED BY <1>1, IInvHolds, PTL
=============================================================================
