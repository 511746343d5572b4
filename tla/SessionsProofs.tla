--------------------------- MODULE SessionsProofs ---------------------------
(***************************************************************************)
(* A session has at most one live refresh token, for any number of tabs    *)
(* and tokens, whatever times out, fails or is lost: a rotation holds the  *)
(* lock of the row it has claimed, so nobody else claims or revokes it,    *)
(* until the successor takes the row's place.  And if no answer is lost,   *)
(* the tabs of an honest browser are never taken for a copied token.       *)
(***************************************************************************)
EXTENDS Sessions, TLAPS

\* The row a family is named after exists.
RootsExist == \A t \in Token : exists(t) => row[t].family \in Token /\ exists(row[t].family)

\* What a rotation has claimed is live, and claimed by nobody else.
ClaimsLive == \A b \in Tab : call[b].at = "claimed" => call[b].token \in Token /\ isLive(call[b].token)
ClaimsAlone ==
  \A b, c \in Tab :
    call[b].at = "claimed" /\ call[c].at = "claimed" /\ call[b].token = call[c].token => b = c

\* What a rotation has looked up and found good is a token.
ReadsToken == \A b \in Tab : call[b].at = "read" => call[b].token \in Token

IInv == TypeOK /\ ReadsToken /\ RootsExist /\ ClaimsLive /\ ClaimsAlone /\ OneLiveTokenPerSession

\* The null records are records, and 0 is no token.
LEMMA NullTypes == NoRow \in Row /\ NoCall \in Call /\ 0 \notin Token /\ Token \subseteq Nat
  BY SessionsAssumption DEF NoRow, Row, NoCall, Call, SessionsAssumption

\* A token just issued is a row, a live one.
LEMMA IssuedType ==
  ASSUME NEW f \in Token
  PROVE  /\ Issued(f) \in Row /\ Issued(f).family = f /\ f # 0
         /\ ~Issued(f).rotated /\ ~Issued(f).revoked
<1>1. 0 \in 0 .. Grace + 1
  BY SessionsAssumption DEF SessionsAssumption
<1> QED BY <1>1, NullTypes DEF Issued, NoRow, Row

\* The initial state satisfies the inductive invariant.
LEMMA InitIInv == Init => IInv
<1> SUFFICES ASSUME Init PROVE IInv
  OBVIOUS
<1>1. \A t \in Token : ~exists(t)
  BY DEF Init, exists, NoRow
<1>2. TypeOK
  BY NullTypes, SessionsAssumption DEF Init, TypeOK, NoCall, SessionsAssumption
<1>3. ReadsToken /\ RootsExist /\ ClaimsLive /\ ClaimsAlone /\ OneLiveTokenPerSession
  BY <1>1 DEF Init, ReadsToken, RootsExist, ClaimsLive, ClaimsAlone, OneLiveTokenPerSession, isLive, NoCall
<1> QED BY <1>2, <1>3 DEF IInv

-----------------------------------------------------------------------------
(* The types                                                               *)

\* A call that is changed to another one keeps the type of the calls.
LEMMA CallType ==
  ASSUME TypeOK, NEW b \in Tab, NEW q \in Call, call' = [call EXCEPT ![b] = q],
         q.at \in {"rotated", "minted"} => q.next # 0
  PROVE  /\ call' \in [Tab -> Call]
         /\ \A c \in Tab : call'[c].at \in {"rotated", "minted"} => call'[c].next # 0
  BY DEF TypeOK

\* An answer is typed.
LEMMA AnsweredType ==
  ASSUME TypeOK, NEW b \in Tab, NEW how, Answered(b, how),
         how \in {"sent", "read", "claimed", "sweeping", "closing", "sweep", "retry", "over", "leaving", "left"}
  PROVE  /\ call' \in [Tab -> Call]
         /\ \A c \in Tab : call'[c].at \in {"rotated", "minted"} => call'[c].next # 0
<1> DEFINE q == [call[b] EXCEPT !.at = how]
<1>1. q \in Call /\ q.at = how
  BY DEF TypeOK, Call
<1>2. call' = [call EXCEPT ![b] = q]
  BY DEF Answered
<1> QED BY <1>1, <1>2, CallType

\* Steps of the browser keep the types.
LEMMA BrowserType ==
  ASSUME IInv, NEW b \in Tab, BrowserNext(b)
  PROVE  TypeOK'
<1> USE DEF IInv, TypeOK
<1>0. call[b] \in Call
  OBVIOUS
<1>1. CASE Login(b)
  <2>1. PICK t \in Token : row' = [row EXCEPT ![t] = Issued(t)] /\ cookie' = t
    BY <1>1 DEF Login
  <2>2. Issued(t) \in Row
    BY <2>1, IssuedType
  <2>3. access' \in 0 .. MaxVersion
    BY <1>1, SessionsAssumption DEF Login, SessionsAssumption
  <2> QED BY <1>1, <2>1, <2>2, <2>3 DEF Login
<1>2. CASE Reload(b)
  BY <1>2 DEF Reload
<1>3. CASE SendRefresh(b)
  <2>1. [NoCall EXCEPT !.at = "sent", !.token = cookie] \in Call
    BY NullTypes DEF NoCall, Call
  <2> QED BY <1>3, <2>1 DEF SendRefresh
<1>4. CASE SendLogout(b)
  <2>1. [NoCall EXCEPT !.at = "leaving", !.token = cookie] \in Call
    BY NullTypes DEF NoCall, Call
  <2> QED BY <1>4, <2>1 DEF SendLogout
<1>5. CASE ReceiveSession(b)
  <2>1. [NoCall EXCEPT !.at = "retried", !.version = call[b].version] \in Call
    BY <1>0, NullTypes DEF NoCall, Call
  <2> QED BY <1>0, <1>5, <2>1 DEF ReceiveSession, Call
<1>7. CASE ReceiveRetried(b)
  BY <1>7, NullTypes DEF ReceiveRetried, NoCall
<1>6. CASE ReceiveRetry(b) \/ ReceiveOver(b) \/ ReceiveRefusal(b)
  <2>1. PICK c \in Token \cup {0} : SignOut(b, c)
    BY <1>6 DEF ReceiveRetry, ReceiveOver, ReceiveRefusal
  <2>2. 0 \in 0 .. MaxVersion
    BY SessionsAssumption DEF SessionsAssumption
  <2> QED BY <2>1, <2>2, NullTypes DEF SignOut, NoCall
<1> QED BY <1>1, <1>2, <1>3, <1>4, <1>5, <1>6, <1>7 DEF BrowserNext

\* Revoking keeps the rows rows.
LEMMA RevokeType ==
  ASSUME TypeOK, NEW T, Revoke(T)
  PROVE  row' \in [Token -> Row]
<1>1. row \in [Token -> Row]
  BY DEF TypeOK
<1>2. ASSUME NEW t \in Token PROVE [row[t] EXCEPT !.revoked = TRUE] \in Row
  BY <1>1 DEF Row
<1> QED BY <1>1, <1>2 DEF Revoke

\* Steps of the server keep the types.
LEMMA ServerType ==
  ASSUME IInv, NEW b \in Tab, ServerNext(b)
  PROVE  TypeOK'
<1> USE DEF IInv, TypeOK
<1>0. call[b] \in Call /\ \A t : Verdict(t) \in {"over", "retry", "sweeping", "read"}
  BY DEF Verdict
<1>1. CASE LookUp(b)
  BY <1>0, <1>1, AnsweredType DEF LookUp
<1>2. CASE Claim(b)
  BY <1>2, AnsweredType DEF Claim
<1>3. CASE CommitRotation(b)
  <2> DEFINE t == call[b].token
  <2>1. PICK n \in Token :
          /\ row' = [row EXCEPT ![t].rotated = TRUE, ![t].age = 0, ![n] = Issued(row[t].family)]
          /\ call' = [call EXCEPT ![b].at = "rotated", ![b].next = n]
    BY <1>3 DEF CommitRotation
  <2>2. t \in Token /\ row[t] \in Row /\ row[t].family \in Token
    BY <1>3 DEF CommitRotation, ClaimsLive, isLive, RootsExist
  <2>3. Issued(row[t].family) \in Row
    BY <2>2, IssuedType
  <2>4. [row[t] EXCEPT !.rotated = TRUE, !.age = 0] \in Row
    <3>1. 0 \in 0 .. Grace + 1
      BY SessionsAssumption DEF SessionsAssumption
    <3> QED BY <2>2, <3>1 DEF Row
  <2>5. row' \in [Token -> Row]
    BY <2>1, <2>2, <2>3, <2>4
  <2> DEFINE q == [call[b] EXCEPT !.at = "rotated", !.next = n]
  <2>6. q \in Call /\ q.next = n
    BY <1>0 DEF Call
  <2>7. call' = [call EXCEPT ![b] = q]
    BY <2>1
  <2> QED BY <1>3, <2>5, <2>6, <2>7, NullTypes, CallType DEF CommitRotation
<1>4. CASE FailRotation(b)
  BY <1>4, AnsweredType DEF FailRotation
<1>5. CASE ReadUser(b)
  <2> DEFINE q == [call[b] EXCEPT !.at = IF user.active THEN "minted" ELSE "closing",
                                  !.version = user.version]
  <2>1. call' = [call EXCEPT ![b] = q] /\ call[b].next # 0
    BY <1>5 DEF ReadUser
  <2>2. q \in Call /\ q.next = call[b].next
    <3>1. user.version \in 0 .. MaxVersion
      BY SessionsAssumption DEF SessionsAssumption
    <3> QED BY <1>0, <3>1 DEF Call
  <2> QED BY <1>5, <2>1, <2>2, CallType DEF ReadUser
<1>6. CASE FailCall(b)
  BY <1>6, AnsweredType DEF FailCall
<1>7. CASE SweepFamily(b)
  <2> DEFINE q == [call[b] EXCEPT !.at = "sweep", !.rows = Unrevoked(row[call[b].token].family)]
  <2>1. q \in Call /\ q.at = "sweep"
    BY <1>0 DEF Call, Unrevoked
  <2>2. call' = [call EXCEPT ![b] = q]
    BY <1>7 DEF SweepFamily
  <2> QED BY <1>7, <2>1, <2>2, CallType DEF SweepFamily
<1>8. CASE RevokeFamily(b)
  BY <1>8, AnsweredType, RevokeType DEF RevokeFamily
<1>9. CASE RevokePresented(b)
  BY <1>9, AnsweredType, RevokeType DEF RevokePresented
<1> QED BY <1>1, <1>2, <1>3, <1>4, <1>5, <1>6, <1>7, <1>8, <1>9 DEF ServerNext

\* Steps of administrators, and the clock, keep the types.
LEMMA OtherType ==
  ASSUME IInv, LapseAccess \/ BumpVersion \/ SweepUser \/ RevokeUser \/ UpdateStatus \/ Tick
  PROVE  TypeOK'
<1> USE DEF IInv, TypeOK
<1>1. CASE LapseAccess
  BY <1>1, SessionsAssumption DEF LapseAccess, SessionsAssumption
<1>2. CASE BumpVersion
  <2>1. user' \in [version : 1 .. MaxVersion, active : BOOLEAN]
    BY <1>2, SessionsAssumption DEF BumpVersion, SessionsAssumption
  <2> QED BY <1>2, <2>1 DEF BumpVersion
<1>3. CASE SweepUser
  BY <1>3 DEF SweepUser, Unrevoked
<1>4. CASE RevokeUser
  BY <1>4, RevokeType DEF RevokeUser
<1>5. CASE UpdateStatus
  BY <1>5 DEF UpdateStatus
<1>6. CASE Tick
  <2>1. \A b \in Tab : call'[b] \in Call /\ call'[b].at = call[b].at /\ call'[b].next = call[b].next
    BY <1>6, SessionsAssumption DEF Tick, Call, SessionsAssumption
  <2>2. \A t \in Token : row'[t] \in Row
    BY <1>6, SessionsAssumption DEF Tick, Row, SessionsAssumption
  <2>3. DOMAIN call' = Tab /\ DOMAIN row' = Token
    BY <1>6 DEF Tick
  <2>4. call' \in [Tab -> Call] /\ row' \in [Token -> Row]
    BY <1>6, <2>1, <2>2 DEF Tick
  <2> QED BY <1>6, <2>1, <2>4 DEF Tick
<1> QED BY <1>1, <1>2, <1>3, <1>4, <1>5, <1>6

-----------------------------------------------------------------------------
(* The chain of a session                                                  *)

\* A step that issues, claims and rotates nothing, and leaves what is locked alone.
LEMMA ChainKeeps ==
  ASSUME IInv, TypeOK', ReadsToken',
         \A b \in Tab : call'[b].at = "claimed" =>
                        call[b].at = "claimed" /\ call'[b].token = call[b].token,
         \A t \in Token : /\ row'[t].family = row[t].family
                          /\ isLive(t)' => isLive(t)
                          /\ locked(t) /\ isLive(t) => isLive(t)'
  PROVE  IInv'
<1>1. RootsExist'
  BY DEF IInv, RootsExist, exists
<1>2. ClaimsLive'
  BY DEF IInv, ClaimsLive, locked
<1>3. ClaimsAlone'
  BY DEF IInv, ClaimsAlone
<1>4. OneLiveTokenPerSession'
  BY DEF IInv, OneLiveTokenPerSession
<1> QED BY <1>1, <1>2, <1>3, <1>4 DEF IInv

\* Revoking neither revives a row nor touches a locked one.
LEMMA RevokeKeeps ==
  ASSUME IInv, NEW T, Revoke(T)
  PROVE  \A t \in Token : /\ row'[t].family = row[t].family
                          /\ isLive(t)' => isLive(t)
                          /\ locked(t) /\ isLive(t) => isLive(t)'
  BY DEF IInv, TypeOK, Revoke, isLive, exists, Row

\* The login starts a family of its own.
LEMMA LoginStep ==
  ASSUME IInv, NEW b \in Tab, Login(b)
  PROVE  IInv'
<1>1. PICK t \in Token : fresh(t) /\ row' = [row EXCEPT ![t] = Issued(t)]
  BY DEF Login
<1>2. ~exists(t) /\ call' = call
  BY <1>1 DEF fresh, Login
<1>3. \A u \in Token : row'[u] = IF u = t THEN Issued(t) ELSE row[u]
  BY <1>1 DEF IInv, TypeOK
<1>4. RootsExist'
  BY <1>2, <1>3, IssuedType DEF IInv, RootsExist, exists
<1>5. \A u \in Token : u # t => isLive(u)' = isLive(u) /\ (exists(u) => row'[u].family # t)
  BY <1>2, <1>3 DEF IInv, RootsExist, isLive, exists
<1>6. ClaimsLive' /\ ClaimsAlone' /\ ReadsToken'
  BY <1>2, <1>5 DEF IInv, ReadsToken, ClaimsLive, ClaimsAlone, isLive
<1>7. OneLiveTokenPerSession'
  BY <1>3, <1>5, IssuedType DEF IInv, OneLiveTokenPerSession, isLive
<1>8. TypeOK'
  BY BrowserType DEF BrowserNext
<1> QED BY <1>4, <1>6, <1>7, <1>8 DEF IInv

\* The conditional update claims a live row that nobody else has claimed.
LEMMA ClaimStep ==
  ASSUME IInv, NEW b \in Tab, Claim(b)
  PROVE  IInv'
<1> DEFINE t == call[b].token
<1>0. TypeOK'
  BY ServerType DEF ServerNext
<1>1. \A c \in Tab : /\ call'[c].token = call[c].token
                     /\ c # b => call'[c].at = call[c].at
                     /\ call'[b].at = "claimed" => isLive(t)
  BY DEF Claim, Answered, IInv, TypeOK, Call
<1>2. row' = row /\ ~locked(t)
  BY DEF Claim
<1>3. t \in Token
  BY DEF IInv, ReadsToken, Claim
<1>4. ClaimsLive'
  BY <1>1, <1>2, <1>3 DEF IInv, ClaimsLive, isLive, exists
<1>5. ClaimsAlone'
  BY <1>1, <1>2 DEF IInv, ClaimsAlone, locked
<1>7. ReadsToken'
  BY <1>1 DEF IInv, ReadsToken, Claim, Answered, TypeOK, Call
<1>6. RootsExist' /\ OneLiveTokenPerSession'
  BY <1>2 DEF IInv, RootsExist, OneLiveTokenPerSession, isLive, exists
<1> QED BY <1>0, <1>4, <1>5, <1>6, <1>7 DEF IInv

\* The successor is the only live row of the family: the claimed one was.
LEMMA RotationStep ==
  ASSUME IInv, NEW b \in Tab, CommitRotation(b)
  PROVE  IInv'
<1> DEFINE t == call[b].token
           f == row[t].family
<1>0. TypeOK'
  BY ServerType DEF ServerNext
<1>1. t \in Token /\ isLive(t) /\ exists(t) /\ f \in Token /\ exists(f)
  BY DEF CommitRotation, IInv, ClaimsLive, RootsExist, isLive
<1>2. PICK n \in Token :
        /\ fresh(n)
        /\ row' = [row EXCEPT ![t].rotated = TRUE, ![t].age = 0, ![n] = Issued(f)]
        /\ call' = [call EXCEPT ![b].at = "rotated", ![b].next = n]
  BY DEF CommitRotation
<1>3. ~exists(n) /\ n # t
  BY <1>1, <1>2 DEF fresh
<1>4. /\ row'[n] = Issued(f)
      /\ row'[t].rotated /\ row'[t].family = f
      /\ \A u \in Token \ {n, t} : row'[u] = row[u]
  BY <1>1, <1>2, <1>3 DEF IInv, TypeOK, Row
<1>5. \A c \in Tab : c # b => call'[c] = call[c]
  BY <1>2 DEF IInv, TypeOK
<1>6. call'[b].at = "rotated"
  BY <1>2 DEF IInv, TypeOK, Call
<1>7. RootsExist'
  BY <1>1, <1>3, <1>4, IssuedType DEF IInv, RootsExist, exists
<1>8. \A u \in Token : isLive(u)' => u = n \/ (isLive(u) /\ u # t /\ row'[u].family = row[u].family)
  BY <1>4 DEF isLive, exists
<1>9. OneLiveTokenPerSession'
  <2>1. row'[n].family = f /\ f = row[t].family
    BY <1>1, <1>4, IssuedType
  <2>2. \A u \in Token : isLive(u) /\ row[u].family = f => u = t
    BY <1>1 DEF IInv, OneLiveTokenPerSession
  <2> QED BY <1>8, <2>1, <2>2 DEF IInv, OneLiveTokenPerSession
<1>10. \A c \in Tab : call'[c].at = "claimed" => c # b /\ call[c].token \in Token \ {n, t} /\ isLive(call[c].token)
  BY <1>3, <1>5, <1>6 DEF IInv, ClaimsLive, ClaimsAlone, isLive, CommitRotation
<1>11. ClaimsLive'
  BY <1>4, <1>5, <1>10 DEF ClaimsLive, isLive, exists
<1>12. ClaimsAlone'
  BY <1>5, <1>10 DEF IInv, ClaimsAlone
<1>13. ReadsToken'
  BY <1>5, <1>6 DEF IInv, ReadsToken
<1> QED BY <1>0, <1>7, <1>9, <1>11, <1>12, <1>13 DEF IInv

\* The steps that write no row.
LEMMA QuietStep ==
  ASSUME IInv, TypeOK', ReadsToken', UNCHANGED row,
         \A b \in Tab : call'[b].at = "claimed" =>
                        call[b].at = "claimed" /\ call'[b].token = call[b].token
  PROVE  IInv'
<1>1. \A t \in Token : row'[t].family = row[t].family /\ isLive(t)' = isLive(t)
  BY DEF isLive, exists
<1> QED BY <1>1, ChainKeeps

\* Requests and answers of the browser.
LEMMA BrowserStep ==
  ASSUME IInv, NEW b \in Tab, BrowserNext(b)
  PROVE  IInv'
<1>0. TypeOK'
  BY BrowserType
<1>1. CASE Login(b)
  BY <1>1, LoginStep
<1>2. CASE ~Login(b)
  <2> USE DEF IInv, TypeOK, ReadsToken
  <2>1. row' = row
    BY <1>2 DEF BrowserNext, Reload, SendRefresh, SendLogout, ReceiveSession, ReceiveRetried,
                ReceiveRetry, ReceiveOver, ReceiveRefusal, SignOut
  <2>2. \/ call' = call
        \/ \E q \in {"sent", "leaving", "retried", "none"} : \E c \in Call : c.at = q /\ call' = [call EXCEPT ![b] = c]
    <3>1. /\ NoCall \in Call /\ NoCall.at = "none"
          /\ [NoCall EXCEPT !.at = "sent", !.token = cookie] \in Call
          /\ [NoCall EXCEPT !.at = "leaving", !.token = cookie] \in Call
          /\ [NoCall EXCEPT !.at = "retried", !.version = call[b].version] \in Call
      BY NullTypes DEF NoCall, Call
    <3> QED BY <1>2, <3>1 DEF BrowserNext, Reload, SendRefresh, SendLogout, ReceiveSession, ReceiveRetried,
                              ReceiveRetry, ReceiveOver, ReceiveRefusal, SignOut, NoCall
  <2>3. \A c \in Tab : call'[c].at \in {"claimed", "read"} => call'[c] = call[c]
    BY <2>2
  <2> QED BY <1>0, <2>1, <2>3, QuietStep
<1> QED BY <1>1, <1>2

\* Steps of the server.
LEMMA ServerStep ==
  ASSUME IInv, NEW b \in Tab, ServerNext(b)
  PROVE  IInv'
<1> DEFINE Others == \A c \in Tab : c # b => call'[c] = call[c]
<1>0. TypeOK' /\ call \in [Tab -> Call]
  BY ServerType DEF IInv, TypeOK
<1>1. CASE LookUp(b)
  <2>1. Others /\ call'[b].token = call[b].token /\ call'[b].at = Verdict(call[b].token)
    BY <1>0, <1>1 DEF LookUp, Answered, Call
  <2>2. ReadsToken'
    BY <1>0, <2>1 DEF IInv, ReadsToken, Verdict, Call
  <2> QED BY <1>0, <1>1, <2>1, <2>2, QuietStep DEF LookUp, Verdict
<1>2. CASE Claim(b)
  BY <1>2, ClaimStep
<1>3. CASE CommitRotation(b)
  BY <1>3, RotationStep
<1>4. CASE FailRotation(b) \/ ReadUser(b) \/ FailCall(b) \/ SweepFamily(b)
  <2>1. Others /\ call'[b].at \notin {"claimed", "read"}
    BY <1>0, <1>4 DEF FailRotation, ReadUser, FailCall, SweepFamily, Answered, Call
  <2>2. ReadsToken' /\ row' = row
    BY <1>4, <2>1 DEF IInv, ReadsToken, FailRotation, ReadUser, FailCall, SweepFamily
  <2> QED BY <1>0, <2>1, <2>2, QuietStep
<1>5. CASE RevokeFamily(b) \/ RevokePresented(b)
  <2>1. Others /\ call'[b].at \notin {"claimed", "read"}
    BY <1>0, <1>5 DEF RevokeFamily, RevokePresented, Answered, Call
  <2>2. ReadsToken'
    BY <2>1 DEF IInv, ReadsToken
  <2>3. \E T : Revoke(T)
    BY <1>5 DEF RevokeFamily, RevokePresented
  <2> QED BY <1>0, <2>1, <2>2, <2>3, RevokeKeeps, ChainKeeps
<1> QED BY <1>1, <1>2, <1>3, <1>4, <1>5 DEF ServerNext

\* Steps of administrators, and the clock.
LEMMA OtherStep ==
  ASSUME IInv, LapseAccess \/ BumpVersion \/ SweepUser \/ RevokeUser \/ UpdateStatus \/ Tick
  PROVE  IInv'
<1>0. TypeOK'
  BY OtherType
<1>1. CASE LapseAccess \/ BumpVersion \/ SweepUser \/ UpdateStatus
  <2>1. call' = call /\ row' = row
    BY <1>1 DEF LapseAccess, BumpVersion, SweepUser, UpdateStatus
  <2> QED BY <1>0, <2>1, QuietStep DEF IInv, ReadsToken
<1>2. CASE RevokeUser
  <2>1. call' = call /\ Revoke(admin.rows)
    BY <1>2 DEF RevokeUser
  <2> QED BY <1>0, <2>1, RevokeKeeps, ChainKeeps DEF IInv, ReadsToken
<1>3. CASE Tick
  <2>1. \A b \in Tab : call'[b].at = call[b].at /\ call'[b].token = call[b].token
    BY <1>3 DEF Tick, IInv, TypeOK, Call
  <2>2. \A t \in Token : row'[t].family = row[t].family /\ isLive(t)' = isLive(t)
    BY <1>3 DEF Tick, IInv, TypeOK, Row, isLive, exists
  <2>3. ReadsToken'
    BY <2>1 DEF IInv, ReadsToken
  <2> QED BY <1>0, <2>1, <2>2, <2>3, ChainKeeps
<1> QED BY <1>1, <1>2, <1>3

-----------------------------------------------------------------------------
(* The theorems                                                            *)

\* Every step preserves the inductive invariant.
LEMMA NextIInv == IInv /\ [Next]_vars => IInv'
<1> SUFFICES ASSUME IInv, [Next]_vars PROVE IInv'
  OBVIOUS
<1>1. CASE Next
  BY <1>1, BrowserStep, ServerStep, OtherStep DEF Next
<1>2. CASE UNCHANGED vars
  <2>1. call' = call /\ row' = row /\ TypeOK'
    BY <1>2 DEF vars, IInv, TypeOK
  <2> QED BY <2>1, QuietStep DEF IInv, ReadsToken
<1> QED BY <1>1, <1>2

\* The inductive invariant holds in every reachable state.
LEMMA IInvHolds == Spec => []IInv
<1> QED BY InitIInv, NextIInv, PTL DEF Spec

\* Rows, calls and cookies keep their form, and an answered rotation has a
\* successor, whatever faults the database and the network have.
THEOREM TypeCorrect == Spec => []TypeOK
<1>1. IInv => TypeOK
  BY DEF IInv
<1> QED BY <1>1, IInvHolds, PTL

\* Two simultaneous requests with one token do not mint two live successors
\* (refresh-token.service.ts): a session has at most one live token.
THEOREM SessionsNeverFork == Spec => []OneLiveTokenPerSession
<1>1. IInv => OneLiveTokenPerSession
  BY DEF IInv
<1> QED BY <1>1, IInvHolds, PTL

-----------------------------------------------------------------------------
(* An honest browser.  Its cookie may hold a token that has been rotated,  *)
(* but only while the answer that replaces it is on its way, and so nobody *)
(* presents a token later than two transits after its rotation.            *)

\* What the cookie holds and what has been presented was issued.
TokensExist ==
  /\ cookie # 0 => exists(cookie)
  /\ \A b \in Tab : call[b].token # 0 => exists(call[b].token)

\* The successor in an answer that has not arrived is unused: no cookie, no
\* request and no other answer has it.
Carries(b, n) == call[b].at \in {"rotated", "minted"} /\ call[b].next = n
SuccessorsUnused ==
  \A b \in Tab : \A n \in Token : Carries(b, n) =>
    /\ exists(n) /\ ~row[n].rotated /\ n # cookie
    /\ \A c \in Tab : call[c].token # n /\ (Carries(c, n) => c = b)

\* Whoever rotated the token of the cookie is still to be answered, and was
\* sent before the rotation.
Pending == {"rotated", "minted", "sweeping", "closing", "sweep", "over"}
Replaces(b, t) ==
  /\ call[b].at \in Pending
  /\ call[b].token = t
  /\ row[t].age <= call[b].time
CookieReplaced == cookie # 0 /\ row[cookie].rotated => \E b \in Tab : Replaces(b, cookie)

SentInTime ==
  \A b \in Tab : call[b].at = "sent" /\ call[b].token # 0 /\ row[call[b].token].rotated =>
    row[call[b].token].age <= Transit + call[b].time

HonestInv == TokensExist /\ SuccessorsUnused /\ CookieReplaced /\ SentInTime

-----------------------------------------------------------------------------
(* The steps of an honest browser.                                         *)

\* Whether and when a token was rotated, and that it was issued, stays known.
SameAges ==
  \A t \in Token : /\ exists(t)' <=> exists(t)
                   /\ row'[t].rotated = row[t].rotated /\ row'[t].age = row[t].age

\* The handler of a call gets on with it, or its answer arrives, and if that
\* was the answer to a rotation the cookie is gone.
Proceeds(b) ==
  /\ call'[b].token = call[b].token /\ call'[b].time = call[b].time
  /\ call'[b].at # "sent"
  /\ call'[b].at \in {"rotated", "minted"} =>
       call[b].at \in {"rotated", "minted"} /\ call'[b].next = call[b].next
  /\ call[b].at \in Pending => call'[b].at \in Pending
Returns(b) == call'[b] = NoCall /\ (call[b].at \in Pending => cookie' = 0)

\* Those steps take nothing back of what is known of an honest browser.
LEMMA HonestKeeps ==
  ASSUME TypeOK, TypeOK', HonestInv, SameAges, cookie' \in {cookie, 0},
         \A b \in Tab : call'[b] = call[b] \/ Proceeds(b) \/ Returns(b)
  PROVE  HonestInv'
<1>1. \A b \in Tab : call'[b].token = call[b].token \/ call'[b].token = 0
  BY DEF Proceeds, Returns, NoCall
<1>2. 0 \notin Token /\ \A b \in Tab : call'[b].token \in Token \cup {0} /\ call[b].token \in Token \cup {0}
  BY NullTypes DEF TypeOK, Call
<1>3. TokensExist'
  <2>1. \A b \in Tab : call'[b].token # 0 => row'[call'[b].token].family # 0
    BY <1>1, <1>2 DEF HonestInv, TokensExist, SameAges, exists
  <2>2. cookie' # 0 => row'[cookie'].family # 0
    BY DEF HonestInv, TokensExist, SameAges, TypeOK, exists
  <2> QED BY <2>1, <2>2 DEF TokensExist, exists
<1>4. SuccessorsUnused'
  <2>1. \A b \in Tab : \A n \in Token : Carries(b, n)' => Carries(b, n)
    BY DEF Carries, Proceeds, Returns, NoCall
  <2>2. SUFFICES ASSUME NEW b \in Tab, NEW n \in Token, Carries(b, n)'
                 PROVE  /\ exists(n)' /\ ~row'[n].rotated /\ n # cookie'
                        /\ \A c \in Tab : call'[c].token # n /\ (Carries(c, n)' => c = b)
    BY DEF SuccessorsUnused, exists, Carries
  <2>3. /\ exists(n) /\ ~row[n].rotated /\ n # cookie
        /\ \A c \in Tab : call[c].token # n /\ (Carries(c, n) => c = b)
    BY <2>1, <2>2 DEF HonestInv, SuccessorsUnused
  <2> QED BY <1>1, <1>2, <2>1, <2>3 DEF SameAges
<1>5. CookieReplaced'
  <2> SUFFICES ASSUME cookie' # 0, row'[cookie'].rotated
               PROVE  \E b \in Tab : Replaces(b, cookie)'
    BY DEF CookieReplaced
  <2>1. cookie' = cookie /\ cookie \in Token /\ row[cookie].rotated
    BY DEF SameAges, TypeOK
  <2>2. PICK b \in Tab : Replaces(b, cookie)
    BY <2>1 DEF HonestInv, CookieReplaced
  <2>3. call[b].at \in Pending /\ call'[b].at \in Pending
        /\ call'[b].token = call[b].token /\ call'[b].time = call[b].time
    BY <2>2 DEF Replaces, Pending, Proceeds, Returns
  <2> QED BY <2>1, <2>2, <2>3 DEF Replaces, Pending, SameAges
<1>6. SentInTime'
  <2> SUFFICES ASSUME NEW b \in Tab, call'[b].at = "sent", call'[b].token # 0,
                      row'[call'[b].token].rotated
               PROVE  row'[call'[b].token].age <= Transit + call'[b].time
    BY DEF SentInTime
  <2>1. call'[b] = call[b]
    BY DEF Proceeds, Returns, NoCall
  <2> QED BY <1>2, <2>1 DEF HonestInv, SentInTime, SameAges
<1> QED BY <1>3, <1>4, <1>5, <1>6 DEF HonestInv

\* A revocation is not a rotation.
LEMMA RevokeAges ==
  ASSUME TypeOK, NEW T, Revoke(T)
  PROVE  SameAges
BY DEF TypeOK, Revoke, SameAges, exists, Row

\* Nor is a step that writes no row.
LEMMA RowsAges ==
  ASSUME UNCHANGED row
  PROVE  SameAges
BY DEF SameAges, exists

\* A login is a token nobody has seen before.
LEMMA HonestLogin ==
  ASSUME IInv, TypeOK', HonestInv, NEW b \in Tab, Login(b)
  PROVE  HonestInv'
<1>1. PICK t \in Token : fresh(t) /\ row' = [row EXCEPT ![t] = Issued(t)] /\ cookie' = t
  BY DEF Login
<1>2. ~exists(t) /\ call' = call
  BY <1>1 DEF fresh, Login
<1>3. /\ exists(t)' /\ ~row'[t].rotated
      /\ \A u \in Token \ {t} : row'[u] = row[u]
  BY <1>1, IssuedType DEF IInv, TypeOK, exists
<1>4. \A c \in Tab : call[c].token # t /\ call[c].token \in Token \cup {0}
  <2>1. \A c \in Tab : call[c].token \in Token \cup {0}
    BY DEF IInv, TypeOK, Call
  <2>2. t # 0
    BY NullTypes
  <2> QED BY <1>2, <2>1, <2>2 DEF HonestInv, TokensExist
<1>5. \A c \in Tab : \A n \in Token : Carries(c, n)' => Carries(c, n) /\ n # t
  BY <1>2 DEF Carries, HonestInv, SuccessorsUnused
<1>6. TokensExist'
  BY <1>1, <1>2, <1>3, <1>4 DEF HonestInv, TokensExist, exists
<1>7. SuccessorsUnused'
  <2> SUFFICES ASSUME NEW c \in Tab, NEW n \in Token, Carries(c, n)'
               PROVE  /\ exists(n)' /\ ~row'[n].rotated /\ n # cookie'
                      /\ \A d \in Tab : call'[d].token # n /\ (Carries(d, n)' => d = c)
    BY DEF SuccessorsUnused, exists, Carries
  <2>1. Carries(c, n) /\ n # t
    BY <1>5
  <2> QED BY <1>1, <1>2, <1>3, <1>5, <2>1 DEF HonestInv, SuccessorsUnused, exists
<1>8. CookieReplaced'
  BY <1>1, <1>3 DEF CookieReplaced
<1>9. SentInTime'
  BY <1>2, <1>3, <1>4 DEF HonestInv, SentInTime
<1> QED BY <1>6, <1>7, <1>8, <1>9 DEF HonestInv

\* What a request presents is what the cookie holds: at worst, a token that
\* was rotated one transit ago.
LEMMA HonestSend ==
  ASSUME IInv, TypeOK', HonestInv, NEW b \in Tab, SendRefresh(b) \/ SendLogout(b)
  PROVE  HonestInv'
<1>1. /\ UNCHANGED <<row, cookie>>
      /\ \A c \in Tab \ {b} : call'[c] = call[c]
      /\ call[b].at = "none"
  BY DEF SendRefresh, SendLogout, IInv, TypeOK
<1>2. call'[b].token = cookie /\ call'[b].at \in {"sent", "leaving"} /\ call'[b].time = 0
  <2>1. PICK how \in {"sent", "leaving"} :
          call' = [call EXCEPT ![b] = [NoCall EXCEPT !.at = how, !.token = cookie]]
    BY DEF SendRefresh, SendLogout
  <2>2. call'[b] = [NoCall EXCEPT !.at = how, !.token = cookie]
    BY <2>1 DEF IInv, TypeOK
  <2> QED BY <2>2 DEF NoCall
<1>3. TokensExist'
  BY <1>1, <1>2 DEF HonestInv, TokensExist, exists
<1>4. SuccessorsUnused'
  <2>1. \A c \in Tab : \A n \in Token : Carries(c, n)' => Carries(c, n)
    BY <1>1, <1>2 DEF Carries
  <2> SUFFICES ASSUME NEW c \in Tab, NEW n \in Token, Carries(c, n)'
               PROVE  /\ exists(n)' /\ ~row'[n].rotated /\ n # cookie'
                      /\ \A d \in Tab : call'[d].token # n /\ (Carries(d, n)' => d = c)
    BY DEF SuccessorsUnused, exists, Carries
  <2>2. Carries(c, n)
    BY <2>1
  <2> QED BY <1>1, <1>2, <2>1, <2>2 DEF HonestInv, SuccessorsUnused, exists
<1>5. ASSUME NEW t \in Token, cookie = t, row[t].rotated
      PROVE  \E c \in Tab \ {b} : Replaces(c, t)
  <2>1. t # 0
    BY NullTypes
  <2> QED BY <1>1, <1>5, <2>1 DEF HonestInv, CookieReplaced, Replaces, Pending
<1>6. CookieReplaced'
  <2> SUFFICES ASSUME cookie' # 0, row'[cookie'].rotated
               PROVE  \E c \in Tab : Replaces(c, cookie)'
    BY DEF CookieReplaced
  <2>1. cookie \in Token /\ row[cookie].rotated
    BY <1>1 DEF IInv, TypeOK
  <2> QED BY <1>1, <1>5, <2>1 DEF Replaces
<1>7. SentInTime'
  <2> SUFFICES ASSUME NEW c \in Tab, call'[c].at = "sent", call'[c].token # 0,
                      row'[call'[c].token].rotated
               PROVE  row'[call'[c].token].age <= Transit + call'[c].time
    BY DEF SentInTime
  <2>1. CASE c # b
    BY <1>1, <2>1 DEF HonestInv, SentInTime
  <2>2. CASE c = b
    <3>1. cookie \in Token /\ row[cookie].rotated /\ call'[c].token = cookie /\ call'[c].time = 0
      BY <1>1, <1>2, <2>2 DEF IInv, TypeOK
    <3>2. PICK d \in Tab : row[cookie].age <= call[d].time
      BY <1>5, <3>1 DEF Replaces
    <3>3. call[d].time \in 0 .. Transit /\ row[cookie].age \in 0 .. Grace + 1
      BY <3>1 DEF IInv, TypeOK, Call, Row
    <3> QED BY <1>1, <3>1, <3>2, <3>3, SessionsAssumption DEF SessionsAssumption
  <2> QED BY <2>1, <2>2
<1> QED BY <1>3, <1>4, <1>6, <1>7 DEF HonestInv

\* The successor arrives.
LEMMA HonestReceive ==
  ASSUME IInv, TypeOK', HonestInv, NEW b \in Tab, ReceiveSession(b)
  PROVE  HonestInv'
<1>1. PICK n \in Token : call[b].next = n /\ cookie' = n /\ Carries(b, n)
  BY DEF ReceiveSession, IInv, TypeOK, Call, Carries
<1>2. /\ UNCHANGED row
      /\ \A c \in Tab \ {b} : call'[c] = call[c]
      /\ call'[b].at = "retried" /\ call'[b].token = 0
  <2>1. call'[b] = [NoCall EXCEPT !.at = "retried", !.version = call[b].version]
    BY DEF ReceiveSession, IInv, TypeOK
  <2>2. UNCHANGED row /\ \A c \in Tab \ {b} : call'[c] = call[c]
    BY DEF ReceiveSession, IInv, TypeOK
  <2> QED BY <2>1, <2>2 DEF NoCall
<1>3. /\ exists(n) /\ ~row[n].rotated
      /\ \A c \in Tab : call[c].token # n /\ (Carries(c, n) => c = b)
  BY <1>1 DEF HonestInv, SuccessorsUnused
<1>4. \A c \in Tab : \A m \in Token : Carries(c, m)' => Carries(c, m) /\ c # b
  BY <1>2 DEF Carries
<1>5. TokensExist'
  BY <1>1, <1>2, <1>3 DEF HonestInv, TokensExist, exists
<1>6. SuccessorsUnused'
  <2> SUFFICES ASSUME NEW c \in Tab, NEW m \in Token, Carries(c, m)'
               PROVE  /\ exists(m)' /\ ~row'[m].rotated /\ m # cookie'
                      /\ \A d \in Tab : call'[d].token # m /\ (Carries(d, m)' => d = c)
    BY DEF SuccessorsUnused, exists, Carries
  <2>1. Carries(c, m) /\ c # b /\ m # n
    BY <1>3, <1>4
  <2>2. m # 0
    BY NullTypes
  <2> QED BY <1>1, <1>2, <1>4, <2>1, <2>2 DEF HonestInv, SuccessorsUnused, exists
<1>7. CookieReplaced'
  BY <1>1, <1>2, <1>3 DEF CookieReplaced
<1>8. SentInTime'
  BY <1>2 DEF HonestInv, SentInTime
<1> QED BY <1>5, <1>6, <1>7, <1>8 DEF HonestInv

\* A rotation starts the clock of its token, and is older than that.
LEMMA HonestRotation ==
  ASSUME IInv, TypeOK', HonestInv, NEW b \in Tab, CommitRotation(b)
  PROVE  HonestInv'
<1>0. PICK t, f : t = call[b].token /\ f = row[t].family
  OBVIOUS
<1>1. t \in Token /\ isLive(t) /\ exists(t) /\ f \in Token
  BY <1>0 DEF CommitRotation, IInv, ClaimsLive, RootsExist, isLive
<1>2. PICK n \in Token :
        /\ fresh(n)
        /\ row' = [row EXCEPT ![t].rotated = TRUE, ![t].age = 0, ![n] = Issued(f)]
        /\ call' = [call EXCEPT ![b].at = "rotated", ![b].next = n]
  BY <1>0 DEF CommitRotation
<1>3. ~exists(n) /\ n # t
  BY <1>1, <1>2 DEF fresh
<1>4. /\ exists(n)' /\ ~row'[n].rotated
      /\ row'[t].rotated /\ exists(t)' /\ row'[t].age = 0
      /\ \A u \in Token \ {n, t} : row'[u] = row[u]
  <2>1. row'[n] = Issued(f) /\ row'[t] = [row[t] EXCEPT !.rotated = TRUE, !.age = 0]
    BY <1>1, <1>2, <1>3 DEF IInv, TypeOK
  <2>2. row[t] \in Row
    BY <1>1 DEF IInv, TypeOK
  <2>3. /\ row'[t].rotated /\ row'[t].age = 0 /\ row'[t].family = row[t].family
        /\ \A u \in Token \ {n, t} : row'[u] = row[u]
    BY <1>1, <1>2, <2>1, <2>2 DEF IInv, TypeOK, Row
  <2> QED BY <1>1, <2>1, <2>3, IssuedType DEF exists
<1>5. /\ \A c \in Tab \ {b} : call'[c] = call[c]
      /\ call'[b].at = "rotated" /\ call'[b].next = n
      /\ call'[b].token = t /\ call'[b].time = call[b].time /\ call[b].time \in Nat
  <2>1. call[b] \in Call /\ call'[b] = [call[b] EXCEPT !.at = "rotated", !.next = n]
    BY <1>2 DEF IInv, TypeOK
  <2>2. \A c \in Tab \ {b} : call'[c] = call[c]
    BY <1>2 DEF IInv, TypeOK
  <2> QED BY <1>0, <2>1, <2>2 DEF Call
<1>6. /\ cookie # n /\ cookie \in Token \cup {0}
      /\ \A c \in Tab : call[c].token # n /\ call[c].token \in Token \cup {0}
  <2>1. cookie \in Token \cup {0} /\ \A c \in Tab : call[c].token \in Token \cup {0}
    BY DEF IInv, TypeOK, Call
  <2>2. n # 0
    BY <1>2, NullTypes
  <2> QED BY <1>3, <2>1, <2>2 DEF HonestInv, TokensExist
<1>7. cookie' = cookie /\ \A c \in Tab : call'[c].token = call[c].token
  BY <1>0, <1>5 DEF CommitRotation
<1>8. TokensExist'
  <2>1. \A u \in Token : exists(u) => row'[u].family # 0
    BY <1>4 DEF exists
  <2>2. cookie # 0 => row'[cookie].family # 0
    BY <1>6, <2>1 DEF HonestInv, TokensExist
  <2>3. \A c \in Tab : call[c].token # 0 => row'[call[c].token].family # 0
    BY <1>6, <2>1 DEF HonestInv, TokensExist
  <2> QED BY <1>7, <2>2, <2>3 DEF TokensExist, exists
<1>9. SuccessorsUnused'
  <2>1. \A c \in Tab : \A m \in Token :
          Carries(c, m)' => (c = b /\ m = n) \/ (c # b /\ m # n /\ m # t /\ Carries(c, m))
    <3> SUFFICES ASSUME NEW c \in Tab, NEW m \in Token, Carries(c, m)'
                 PROVE  (c = b /\ m = n) \/ (c # b /\ m # n /\ m # t /\ Carries(c, m))
      OBVIOUS
    <3>1. CASE c = b
      BY <1>5, <3>1 DEF Carries
    <3>2. CASE c # b
      <4>1. Carries(c, m)
        BY <1>5, <3>2 DEF Carries
      <4>2. exists(m) /\ call[b].token # m
        BY <4>1 DEF HonestInv, SuccessorsUnused
      <4> QED BY <1>0, <1>3, <3>2, <4>1, <4>2
    <3> QED BY <3>1, <3>2
  <2> SUFFICES ASSUME NEW c \in Tab, NEW m \in Token, Carries(c, m)'
               PROVE  /\ exists(m)' /\ ~row'[m].rotated /\ m # cookie'
                      /\ \A d \in Tab : call'[d].token # m /\ (Carries(d, m)' => d = c)
    BY DEF SuccessorsUnused, exists, Carries
  <2>2. CASE c = b /\ m = n
    BY <1>4, <1>6, <1>7, <2>1, <2>2
  <2>3. CASE m # n /\ m # t /\ Carries(c, m)
    BY <1>4, <1>7, <2>1, <2>3 DEF HonestInv, SuccessorsUnused, exists
  <2> QED BY <2>1, <2>2, <2>3
<1>10. CookieReplaced'
  <2> SUFFICES ASSUME cookie # 0, row'[cookie].rotated
               PROVE  \E c \in Tab : Replaces(c, cookie)'
    BY <1>7 DEF CookieReplaced
  <2>1. CASE cookie = t
    <3>1. row'[t].age <= call'[b].time
      BY <1>4, <1>5
    <3> QED BY <1>5, <1>7, <2>1, <3>1 DEF Replaces, Pending
  <2>2. CASE cookie # t
    <3>1. cookie \in Token \ {n, t} /\ row'[cookie] = row[cookie]
      BY <1>4, <1>6, <2>2
    <3>2. PICK c \in Tab : Replaces(c, cookie)
      BY <3>1 DEF HonestInv, CookieReplaced
    <3>3. c # b
      BY <1>0, <2>2, <3>2 DEF Replaces
    <3> QED BY <1>5, <1>7, <3>1, <3>2, <3>3 DEF Replaces
  <2> QED BY <2>1, <2>2
<1>11. SentInTime'
  <2> SUFFICES ASSUME NEW c \in Tab, call'[c].at = "sent", call'[c].token # 0,
                      row'[call'[c].token].rotated
               PROVE  row'[call'[c].token].age <= Transit + call'[c].time
    BY DEF SentInTime
  <2>1. c # b /\ call'[c] = call[c] /\ call[c].token \in Token \ {n} /\ call[c].time \in Nat
    BY <1>5, <1>6 DEF IInv, TypeOK, Call
  <2>2. CASE call[c].token = t
    <3>1. call'[c].token = t /\ row'[t].age = 0 /\ call'[c].time \in Nat /\ Transit \in Nat
      BY <1>4, <2>1, <2>2, SessionsAssumption DEF SessionsAssumption
    <3> QED BY <3>1
  <2>3. CASE call[c].token # t
    BY <1>4, <2>1, <2>3 DEF HonestInv, SentInTime
  <2> QED BY <2>2, <2>3
<1> QED BY <1>8, <1>9, <1>10, <1>11 DEF HonestInv

\* Rotated tokens and calls under way grow older together.
LEMMA HonestTick ==
  ASSUME IInv, TypeOK', HonestInv, Tick
  PROVE  HonestInv'
<1>1. cookie' = cookie
  BY DEF Tick
<1>2. ASSUME NEW c \in Tab
      PROVE  /\ call'[c].at = call[c].at /\ call'[c].token = call[c].token
             /\ call'[c].next = call[c].next
             /\ call[c].time \in Nat /\ call'[c].time \in Nat
             /\ call[c].at # "none" => call'[c].time = call[c].time + 1
             /\ call[c].token \in Token \cup {0}
  BY DEF Tick, IInv, TypeOK, Call
<1>3. ASSUME NEW t \in Token
      PROVE  /\ exists(t)' <=> exists(t)
             /\ row'[t].rotated = row[t].rotated
             /\ row[t].age \in Nat /\ row'[t].age \in Nat /\ row'[t].age <= row[t].age + 1
  BY DEF Tick, IInv, TypeOK, Row, exists
<1>4. TokensExist'
  <2>1. cookie # 0 => row'[cookie].family # 0
    BY <1>3 DEF HonestInv, TokensExist, IInv, TypeOK, exists
  <2>2. \A c \in Tab : call[c].token # 0 => row'[call[c].token].family # 0
    BY <1>2, <1>3 DEF HonestInv, TokensExist, exists
  <2> QED BY <1>1, <1>2, <2>1, <2>2 DEF TokensExist, exists
<1>5. SuccessorsUnused'
  <2>1. \A c \in Tab : \A m \in Token : Carries(c, m)' <=> Carries(c, m)
    BY <1>2 DEF Carries
  <2> SUFFICES ASSUME NEW c \in Tab, NEW m \in Token, Carries(c, m)'
               PROVE  /\ exists(m)' /\ ~row'[m].rotated /\ m # cookie'
                      /\ \A d \in Tab : call'[d].token # m /\ (Carries(d, m)' => d = c)
    BY DEF SuccessorsUnused, exists, Carries
  <2> QED BY <1>1, <1>2, <1>3, <2>1 DEF HonestInv, SuccessorsUnused
<1>6. CookieReplaced'
  <2> SUFFICES ASSUME cookie # 0, row'[cookie].rotated
               PROVE  \E c \in Tab : Replaces(c, cookie)'
    BY <1>1 DEF CookieReplaced
  <2>1. cookie \in Token /\ row[cookie].rotated
    BY <1>3 DEF IInv, TypeOK
  <2>2. PICK c \in Tab : Replaces(c, cookie)
    BY <2>1 DEF HonestInv, CookieReplaced
  <2>3. call'[c].time = call[c].time + 1 /\ row[cookie].age <= call[c].time
    BY <1>2, <2>2 DEF Replaces, Pending
  <2>4. row'[cookie].age <= call'[c].time
    <3>1. PICK x, y \in Nat : x = row[cookie].age /\ y = row'[cookie].age /\ y <= x + 1
      BY <1>3, <2>1
    <3>2. PICK z \in Nat : z = call[c].time
      BY <1>2
    <3> QED BY <2>3, <3>1, <3>2
  <2> QED BY <1>1, <1>2, <2>2, <2>4 DEF Replaces
<1>7. SentInTime'
  <2> SUFFICES ASSUME NEW c \in Tab, call'[c].at = "sent", call'[c].token # 0,
                      row'[call'[c].token].rotated
               PROVE  row'[call'[c].token].age <= Transit + call'[c].time
    BY DEF SentInTime
  <2>1. PICK t \in Token : call[c].token = t /\ call'[c].token = t
    BY <1>2
  <2>2. row[t].age <= Transit + call[c].time /\ call'[c].time = call[c].time + 1
    BY <1>2, <1>3, <2>1, NullTypes DEF HonestInv, SentInTime
  <2>3. PICK x, y \in Nat : x = row[t].age /\ y = row'[t].age /\ y <= x + 1
    BY <1>3
  <2>4. PICK z \in Nat : z = call[c].time
    BY <1>2
  <2>5. y <= Transit + (z + 1)
    BY <2>2, <2>3, <2>4, SessionsAssumption DEF SessionsAssumption
  <2> QED BY <2>1, <2>2, <2>3, <2>4, <2>5
<1> QED BY <1>4, <1>5, <1>6, <1>7 DEF HonestInv

\* Answers that do not bring a session: one that keeps the cookie is never the
\* answer to a rotation.
LEMMA HonestAnswered ==
  ASSUME "lost" \notin Faults, IInv, TypeOK', HonestInv, NEW b \in Tab,
         ReceiveRetried(b) \/ ReceiveRetry(b) \/ ReceiveOver(b) \/ ReceiveRefusal(b)
  PROVE  HonestInv'
<1>1. /\ UNCHANGED row /\ call'[b] = NoCall
      /\ \A c \in Tab \ {b} : call'[c] = call[c]
      /\ \/ cookie' = 0
         \/ cookie' = cookie /\ call[b].at \in {"retry", "retried"}
  BY DEF ReceiveRetried, ReceiveRetry, ReceiveOver, ReceiveRefusal, SignOut, Unanswered, IInv, TypeOK
<1>2. Returns(b)
  BY <1>1 DEF Returns, Pending
<1> QED BY <1>1, <1>2, RowsAges, HonestKeeps DEF IInv

\* The steps of a handler, but for the rotation.
LEMMA HonestServer ==
  ASSUME IInv, TypeOK', HonestInv, NEW b \in Tab, ServerNext(b), ~CommitRotation(b)
  PROVE  HonestInv'
<1>1. \A c \in Tab \ {b} : call'[c] = call[c]
  BY DEF ServerNext, LookUp, Claim, FailRotation, ReadUser, FailCall, SweepFamily, RevokeFamily,
         RevokePresented, Answered, IInv, TypeOK
<1>2. call[b] \in Call /\ call \in [Tab -> Call]
  BY DEF IInv, TypeOK
<1>3. Proceeds(b)
  <2>1. CASE LookUp(b) \/ Claim(b) \/ FailRotation(b)
    <3>1. PICK how \in {"over", "sweeping", "retry", "read", "claimed"} : Answered(b, how)
      BY <2>1 DEF LookUp, Claim, FailRotation, Verdict
    <3>2. call'[b].at = how /\ call'[b].token = call[b].token /\ call'[b].time = call[b].time
      BY <1>2, <3>1 DEF Answered, Call
    <3>3. call[b].at \in {"sent", "read", "claimed"}
      BY <2>1 DEF LookUp, Claim, FailRotation
    <3> QED BY <3>2, <3>3 DEF Proceeds, Pending
  <2>2. CASE FailCall(b) \/ RevokeFamily(b)
    <3>1. PICK how \in {"over", "retry"} : Answered(b, how) /\ (how = "retry" => call[b].at = "leaving")
      BY <2>2 DEF FailCall, RevokeFamily
    <3>2. call'[b].at = how /\ call'[b].token = call[b].token /\ call'[b].time = call[b].time
      BY <1>2, <3>1 DEF Answered, Call
    <3> QED BY <3>1, <3>2 DEF Proceeds, Pending
  <2>3. CASE RevokePresented(b)
    <3>1. /\ call'[b].at = "left" /\ call'[b].token = call[b].token /\ call'[b].time = call[b].time
          /\ call[b].at = "leaving"
      BY <1>2, <2>3 DEF RevokePresented, Answered, Call
    <3> QED BY <3>1 DEF Proceeds, Pending
  <2>4. CASE ReadUser(b)
    <3>1. /\ call'[b].at \in {"minted", "closing"} /\ call'[b].token = call[b].token
          /\ call'[b].time = call[b].time /\ call'[b].next = call[b].next
          /\ call[b].at = "rotated"
      BY <1>2, <2>4 DEF ReadUser, Call
    <3> QED BY <3>1 DEF Proceeds, Pending
  <2>5. CASE SweepFamily(b)
    <3>1. call'[b].at = "sweep" /\ call'[b].token = call[b].token /\ call'[b].time = call[b].time
      BY <1>2, <2>5 DEF SweepFamily, Call
    <3> QED BY <3>1 DEF Proceeds, Pending
  <2> QED BY <2>1, <2>2, <2>3, <2>4, <2>5 DEF ServerNext
<1>4. cookie' = cookie /\ SameAges
  <2>1. cookie' = cookie /\ (UNCHANGED row \/ \E T : Revoke(T))
    BY DEF ServerNext, LookUp, Claim, FailRotation, ReadUser, FailCall, SweepFamily, RevokeFamily,
           RevokePresented
  <2> QED BY <2>1, RowsAges, RevokeAges DEF IInv
<1> QED BY <1>1, <1>3, <1>4, HonestKeeps DEF IInv

\* Every step of a system whose answers arrive keeps the browser honest.
LEMMA HonestStep ==
  ASSUME "lost" \notin Faults, IInv, HonestInv, [Next]_vars
  PROVE  HonestInv'
<1>1. TypeOK'
  BY NextIInv DEF IInv
<1>2. ASSUME NEW b \in Tab, BrowserNext(b)
      PROVE  HonestInv'
  <2>1. CASE Reload(b)
    BY <1>1, <2>1, RowsAges, HonestKeeps DEF Reload, IInv
  <2> QED BY <1>1, <1>2, <2>1, HonestLogin, HonestSend, HonestReceive, HonestAnswered DEF BrowserNext
<1>3. ASSUME NEW b \in Tab, ServerNext(b)
      PROVE  HonestInv'
  BY <1>1, <1>3, HonestServer, HonestRotation
<1>4. CASE LapseAccess \/ BumpVersion \/ SweepUser \/ UpdateStatus \/ UNCHANGED vars
  <2>1. UNCHANGED <<row, call, cookie>>
    BY <1>4 DEF LapseAccess, BumpVersion, SweepUser, UpdateStatus, vars
  <2> QED BY <1>1, <2>1, RowsAges, HonestKeeps DEF IInv
<1>5. CASE RevokeUser
  <2>1. UNCHANGED <<call, cookie>> /\ Revoke(admin.rows)
    BY <1>5 DEF RevokeUser
  <2> QED BY <1>1, <2>1, RevokeAges, HonestKeeps DEF IInv
<1>6. CASE Tick
  BY <1>1, <1>6, HonestTick
<1> QED BY <1>2, <1>3, <1>4, <1>5, <1>6 DEF Next

\* Before the first login no token is held.
LEMMA HonestInit ==
  ASSUME Init
  PROVE  HonestInv
BY DEF Init, NoCall, HonestInv, TokensExist, SuccessorsUnused, Carries, CookieReplaced, SentInTime

\* What is known of an honest browser holds in every reachable state.
LEMMA HonestHolds ==
  ASSUME "lost" \notin Faults
  PROVE  Spec => []HonestInv
<1>1. Init => HonestInv
  BY HonestInit
<1>2. IInv /\ HonestInv /\ [Next]_vars => HonestInv'
  BY HonestStep
<1> QED BY <1>1, <1>2, IInvHolds, PTL DEF Spec

\* With no request under way there is no answer left to replace the cookie,
\* so whichever tab won, and in whatever order the answers came, it holds the
\* last token of its chain, if none of the answers was lost.
THEOREM CookieStaysCurrent ==
  ASSUME "lost" \notin Faults
  PROVE  Spec => []CookieIsCurrent
<1>1. HonestInv => CookieIsCurrent
  BY DEF HonestInv, CookieReplaced, Replaces, Pending, CookieIsCurrent
<1> QED BY <1>1, HonestHolds, PTL

\* The grace window takes the time of the answer that brings the successor
\* and of a request that left before it: tabs that share a cookie are never
\* taken for a copied token if it is at least as long as the two together.
THEOREM HonestTabsAreSafe ==
  ASSUME "lost" \notin Faults, Transit + Transit <= Grace
  PROVE  Spec => []HonestNeverFlagged
<1>1. Init => HonestNeverFlagged
  <2>1. NoCall.at # "sweeping"
    BY DEF NoCall
  <2>2. ASSUME Init, NEW b \in Tab PROVE call[b] = NoCall
    BY <2>2 DEF Init
  <2> QED BY <2>1, <2>2 DEF HonestNeverFlagged
<1>2. IInv /\ HonestInv /\ HonestNeverFlagged /\ [Next]_vars => HonestNeverFlagged'
  <2> SUFFICES ASSUME IInv, HonestInv, HonestNeverFlagged, [Next]_vars,
                      NEW b \in Tab, call'[b].at = "sweeping"
               PROVE  FALSE
    BY DEF HonestNeverFlagged
  <2>1. call[b].at # "sweeping" /\ \A c \in Tab : call[c] \in Call
    BY DEF HonestNeverFlagged, IInv, TypeOK
  <2>2. LookUp(b)
    <3>1. ASSUME NEW c \in Tab, BrowserNext(c) PROVE FALSE
      <4>1. \/ call' = call
            \/ \E how \in {"sent", "leaving"} :
                 call' = [call EXCEPT ![c] = [NoCall EXCEPT !.at = how, !.token = cookie]]
            \/ call' = [call EXCEPT ![c] = [NoCall EXCEPT !.at = "retried", !.version = call[c].version]]
            \/ call' = [call EXCEPT ![c] = NoCall]
        BY <3>1 DEF BrowserNext, Login, Reload, SendRefresh, SendLogout, ReceiveSession, ReceiveRetried,
                    ReceiveRetry, ReceiveOver, ReceiveRefusal, SignOut
      <4>2. /\ NoCall.at = "none"
            /\ \A how : [NoCall EXCEPT !.at = how, !.token = cookie].at = how
            /\ [NoCall EXCEPT !.at = "retried", !.version = call[c].version].at = "retried"
        BY DEF NoCall
      <4> QED BY <2>1, <4>1, <4>2 DEF IInv, TypeOK
    <3>2. ASSUME NEW c \in Tab, ServerNext(c) PROVE LookUp(b)
      <4>1. call'[b] # call[b] /\ call \in [Tab -> Call]
        BY <2>1 DEF IInv, TypeOK
      <4>2. c = b
        BY <3>2, <4>1 DEF ServerNext, LookUp, Claim, CommitRotation, FailRotation, ReadUser, FailCall,
                          SweepFamily, RevokeFamily, RevokePresented, Answered
      <4> QED BY <2>1, <3>2, <4>1, <4>2
              DEF ServerNext, Claim, CommitRotation, FailRotation, ReadUser, FailCall,
                  SweepFamily, RevokeFamily, RevokePresented, Answered, Call
    <3>3. ASSUME LapseAccess \/ BumpVersion \/ SweepUser \/ RevokeUser \/ UpdateStatus \/ UNCHANGED vars
          PROVE  FALSE
      BY <2>1, <3>3 DEF LapseAccess, BumpVersion, SweepUser, RevokeUser, UpdateStatus, vars
    <3>4. ASSUME Tick PROVE FALSE
      BY <2>1, <3>4 DEF Tick, Call
    <3> QED BY <3>1, <3>2, <3>3, <3>4 DEF Next
  <2> DEFINE t == call[b].token
  <2>3. call[b].at = "sent" /\ Verdict(t) = "sweeping"
    BY <2>1, <2>2 DEF LookUp, Answered, IInv, TypeOK, Call
  <2>4. t # 0 /\ exists(t) /\ row[t].rotated /\ ~(row[t].age <= Grace)
    BY <2>3 DEF Verdict
  <2>5. row[t].age <= Transit + call[b].time
    BY <2>3, <2>4 DEF HonestInv, SentInTime
  <2>6. PICK z \in 0 .. Transit, x \in 0 .. Grace + 1 : z = call[b].time /\ x = row[t].age
    <3>1. t \in Token
      BY <2>1, <2>4 DEF Call
    <3> QED BY <2>1, <3>1 DEF IInv, TypeOK, Call, Row
  <2>7. Grace \in Nat /\ Transit \in Nat
    BY SessionsAssumption DEF SessionsAssumption
  <2> QED BY <2>4, <2>5, <2>6, <2>7
<1> QED BY <1>1, <1>2, IInvHolds, HonestHolds, PTL DEF Spec
=============================================================================
