------------------------------ MODULE Sessions ------------------------------
(***************************************************************************)
(* The sessions of one user: refresh tokens that are rotated on every use, *)
(* the browsers that hold them in a cookie shared by their tabs, and what  *)
(* ends a session: logging out, a forced logout, a suspension, and the     *)
(* detection of a token that is presented again.                           *)
(*                                                                         *)
(* The interesting order is that of a rotation, which is a transaction,    *)
(* the answer to it, which carries the new cookie, and everybody else's    *)
(* requests with the old one.                                              *)
(***************************************************************************)
EXTENDS Naturals

CONSTANTS
  Tab,        \* tabs of one browser, which share its cookies and storage
  Token,      \* refresh tokens that may be issued, 1 to their number
  Grace,      \* CONCURRENT_REFRESH_GRACE_MS, in ticks
  Transit,    \* a request and its answer take no more ticks than this
  MaxVersion, \* bound: User.tokenVersion
  Faults      \* "contention" and "errors" in the database, "lost" answers

ASSUME SessionsAssumption ==
  /\ Token \subseteq Nat \ {0}
  /\ Grace \in Nat /\ Transit \in Nat /\ MaxVersion \in Nat \ {0}
  /\ Faults \subseteq {"contention", "errors", "lost"}

VARIABLES
  row,      \* the refresh_tokens of the user
  user,     \* User.tokenVersion and whether User.status is ACTIVE
  cookie,   \* the browser's refresh cookie, 0 for none
  access,   \* tokenVersion in the access token in localStorage, 0 for none
  tab,      \* what each tab shows
  call,     \* the refresh or logout each tab has under way
  admin     \* forceLogout(), and the sessions there were when it last ended

vars == <<row, user, cookie, access, tab, call, admin>>

\* family is the token of the login the row descends from, 0 for no row.
Row == [family : Token \cup {0}, rotated : BOOLEAN, age : 0 .. Grace + 1, revoked : BOOLEAN]
NoRow == [family |-> 0, rotated |-> FALSE, age |-> 0, revoked |-> FALSE]
Issued(f) == [NoRow EXCEPT !.family = f]

exists(t) == row[t].family # 0
isLive(t) == exists(t) /\ ~row[t].rotated /\ ~row[t].revoked

\* The handler's progress: what it answers is "minted" (200 with the successor
\* and an access token), "over" (an error that clears the cookie), "left" (a
\* logout, which clears it too) or "retry" (an error that does not).  The family
\* is revoked of a token presented again ("sweeping") and of a user who is not
\* active ("closing").  "retried" is the request the refresh was for.
Call == [at : {"none", "sent", "read", "claimed", "rotated", "sweeping", "closing", "sweep",
               "minted", "retry", "over", "leaving", "left", "retried"},
         token : Token \cup {0}, next : Token \cup {0}, version : 0 .. MaxVersion,
         rows : SUBSET Token, time : 0 .. Transit]
NoCall == [at |-> "none", token |-> 0, next |-> 0, version |-> 0, rows |-> {}, time |-> 0]

TypeOK ==
  /\ row \in [Token -> Row]
  /\ user \in [version : 1 .. MaxVersion, active : BOOLEAN]
  /\ cookie \in Token \cup {0}
  /\ access \in 0 .. MaxVersion
  /\ tab \in [Tab -> {"open", "login"}]
  /\ call \in [Tab -> Call]
  /\ \A b \in Tab : call[b].at \in {"rotated", "minted"} => call[b].next # 0
  /\ admin \in [at : {"idle", "bumped", "sweep"}, rows : SUBSET Token, ended : SUBSET Token]

Init ==
  /\ row = [t \in Token |-> NoRow]
  /\ user = [version |-> 1, active |-> TRUE]
  /\ cookie = 0 /\ access = 0
  /\ tab = [b \in Tab |-> "login"]
  /\ call = [b \in Tab |-> NoCall]
  /\ admin = [at |-> "idle", rows |-> {}, ended |-> {}]

\* Tokens are drawn at random; the model takes them in order.
fresh(t) == ~exists(t) /\ \A u \in Token : u < t => exists(u)

\* validateJwtPayload() of a request with an access token of that version.
accepts(version) == user.active /\ version = user.version

\* A row a transaction has updated is locked until the transaction ends.
locked(t) == \E b \in Tab : call[b].at = "claimed" /\ call[b].token = t

Answered(b, how) == call' = [call EXCEPT ![b].at = how]

-----------------------------------------------------------------------------
(* The browser                                                             *)

\* loginWithGoogle(): a new family, and its cookie in the answer.
Login(b) ==
  /\ tab[b] = "login" /\ call[b].at = "none" /\ user.active
  /\ \E t \in Token :
       /\ fresh(t)
       /\ row' = [row EXCEPT ![t] = Issued(t)]
       /\ cookie' = t
  /\ access' = user.version
  /\ tab' = [tab EXCEPT ![b] = "open"]
  /\ UNCHANGED <<user, call, admin>>

\* AuthProvider rehydrates from localStorage.
Reload(b) ==
  /\ tab[b] = "login" /\ call[b].at = "none" /\ access # 0
  /\ tab' = [tab EXCEPT ![b] = "open"]
  /\ UNCHANGED <<row, user, cookie, access, call, admin>>

\* JWT_EXPIRES_IN has passed.
LapseAccess ==
  /\ access # 0
  /\ access' = 0
  /\ UNCHANGED <<row, user, cookie, tab, call, admin>>

\* A 401 in an open tab: one refresh, shared by all its requests.
SendRefresh(b) ==
  /\ tab[b] = "open" /\ call[b].at = "none" /\ ~accepts(access)
  /\ call' = [call EXCEPT ![b] = [NoCall EXCEPT !.at = "sent", !.token = cookie]]
  /\ UNCHANGED <<row, user, cookie, access, tab, admin>>

\* POST /auth/logout is public.
SendLogout(b) ==
  /\ tab[b] = "open" /\ call[b].at = "none"
  /\ call' = [call EXCEPT ![b] = [NoCall EXCEPT !.at = "leaving", !.token = cookie]]
  /\ UNCHANGED <<row, user, cookie, access, tab, admin>>

\* Mutant: the answer's cookie is not stored.
ReceiveAccess(b) ==
  /\ call[b].at = "minted"
  /\ access' = call[b].version
  /\ call' = [call EXCEPT ![b] = NoCall]
  /\ UNCHANGED <<row, user, cookie, tab, admin>>

\* The successor's cookie and the access token arrive; the request the refresh
\* was for is sent again, with the new token.
ReceiveSession(b) ==
  /\ call[b].at = "minted"
  /\ cookie' = call[b].next
  /\ access' = call[b].version
  /\ call' = [call EXCEPT ![b] = [NoCall EXCEPT !.at = "retried", !.version = call[b].version]]
  /\ UNCHANGED <<row, user, tab, admin>>

ReceiveRetried(b) ==
  /\ call[b].at = "retried" /\ accepts(call[b].version)
  /\ call' = [call EXCEPT ![b] = NoCall]
  /\ UNCHANGED <<row, user, cookie, access, tab, admin>>

\* Every other answer ends at the login page.
SignOut(b, c) ==
  /\ cookie' = c
  /\ access' = 0
  /\ tab' = [tab EXCEPT ![b] = "login"]
  /\ call' = [call EXCEPT ![b] = NoCall]
  /\ UNCHANGED <<row, user, admin>>

Unanswered ==
  {"retry"} \cup (IF "lost" \in Faults THEN {"minted", "over", "left"} ELSE {})

ReceiveRetry(b) == call[b].at \in Unanswered /\ SignOut(b, cookie)
ReceiveOver(b) == call[b].at \in {"over", "left"} /\ SignOut(b, 0)

\* A second 401 of one request is not retried.
ReceiveRefusal(b) ==
  /\ call[b].at = "retried" /\ ~accepts(call[b].version)
  /\ SignOut(b, cookie)

BrowserNext(b) ==
  \/ Login(b) \/ Reload(b) \/ SendRefresh(b) \/ SendLogout(b)
  \/ ReceiveSession(b) \/ ReceiveRetried(b)
  \/ ReceiveRetry(b) \/ ReceiveOver(b) \/ ReceiveRefusal(b)

-----------------------------------------------------------------------------
(* RefreshTokenService.rotate() and AuthService.refreshSession()           *)

\* Mutant: no grace window.
VerdictWithoutGrace(t) ==
  IF t = 0 \/ ~exists(t) THEN "over"
  ELSE IF row[t].rotated THEN "sweeping"
  ELSE IF row[t].revoked THEN "over" ELSE "read"

\* findUnique() by the hash, and the checks on the row it returns.
Verdict(t) ==
  IF t = 0 \/ ~exists(t) THEN "over"
  ELSE IF row[t].rotated THEN (IF row[t].age <= Grace THEN "retry" ELSE "sweeping")
  ELSE IF row[t].revoked THEN "over" ELSE "read"

LookUp(b) ==
  /\ call[b].at = "sent"
  /\ Answered(b, Verdict(call[b].token))
  /\ UNCHANGED <<row, user, cookie, access, tab, admin>>

\* Mutant: an unconditional update.
ClaimAnyway(b) ==
  /\ call[b].at = "read" /\ ~locked(call[b].token)
  /\ Answered(b, "claimed")
  /\ UNCHANGED <<row, user, cookie, access, tab, admin>>

\* The conditional updateMany(); it waits for a lock on the row.
Claim(b) ==
  LET t == call[b].token IN
  /\ call[b].at = "read" /\ ~locked(t)
  /\ Answered(b, IF isLive(t) THEN "claimed" ELSE "retry")
  /\ UNCHANGED <<row, user, cookie, access, tab, admin>>

\* Mutant: no successor is created.
CommitClaim(b) ==
  /\ call[b].at = "claimed"
  /\ row' = [row EXCEPT ![call[b].token].rotated = TRUE, ![call[b].token].age = 0]
  /\ Answered(b, "rotated")
  /\ UNCHANGED <<user, cookie, access, tab, admin>>

\* The successor is created in the same transaction.
CommitRotation(b) ==
  LET t == call[b].token IN
  /\ call[b].at = "claimed"
  /\ \E n \in Token :
       /\ fresh(n)
       /\ row' = [row EXCEPT ![t].rotated = TRUE, ![t].age = 0, ![n] = Issued(row[t].family)]
       /\ call' = [call EXCEPT ![b].at = "rotated", ![b].next = n]
  /\ UNCHANGED <<user, cookie, access, tab, admin>>

\* P2028 and P2034: nothing was committed.
FailRotation(b) ==
  /\ "contention" \in Faults
  /\ call[b].at \in {"read", "claimed"}
  /\ Answered(b, "retry")
  /\ UNCHANGED <<row, user, cookie, access, tab, admin>>

\* The user is read again; of one who is not active the family is revoked.
ReadUser(b) ==
  /\ call[b].at = "rotated"
  /\ call' = [call EXCEPT ![b].at = IF user.active THEN "minted" ELSE "closing",
                          ![b].version = user.version]
  /\ UNCHANGED <<row, user, cookie, access, tab, admin>>

\* Any other database error is a 500; that of a logout leaves the cookie.
FailCall(b) ==
  /\ "errors" \in Faults
  /\ call[b].at \in {"sent", "read", "claimed", "rotated", "sweeping", "closing", "sweep", "leaving"}
  /\ Answered(b, IF call[b].at = "leaving" THEN "retry" ELSE "over")
  /\ UNCHANGED <<row, user, cookie, access, tab, admin>>

\* An updateMany() changes the rows it finds when it starts, if they still
\* match when it gets to them, and waits for those that are locked.
Unrevoked(f) == {t \in Token : exists(t) /\ ~row[t].revoked /\ (f = 0 \/ row[t].family = f)}
Revoke(T) ==
  /\ \A t \in T : ~locked(t)
  /\ row' = [t \in Token |-> IF t \in T THEN [row[t] EXCEPT !.revoked = TRUE] ELSE row[t]]

\* revokeFamily()
SweepFamily(b) ==
  /\ call[b].at \in {"sweeping", "closing"}
  /\ call' = [call EXCEPT ![b].at = "sweep", ![b].rows = Unrevoked(row[call[b].token].family)]
  /\ UNCHANGED <<row, user, cookie, access, tab, admin>>

RevokeFamily(b) ==
  /\ call[b].at = "sweep"
  /\ Revoke(call[b].rows)
  /\ Answered(b, "over")
  /\ UNCHANGED <<user, cookie, access, tab, admin>>

\* logout(): the row of the presented token.
RevokePresented(b) ==
  /\ call[b].at = "leaving"
  /\ Revoke({call[b].token} \ {0})
  /\ Answered(b, "left")
  /\ UNCHANGED <<user, cookie, access, tab, admin>>

ServerNext(b) ==
  \/ LookUp(b) \/ Claim(b) \/ CommitRotation(b) \/ FailRotation(b) \/ ReadUser(b) \/ FailCall(b)
  \/ SweepFamily(b) \/ RevokeFamily(b) \/ RevokePresented(b)

-----------------------------------------------------------------------------
(* Administration, and time                                                *)

\* forceLogout() and logoutAllMyDevices(): the version, ...
BumpVersion ==
  /\ admin.at = "idle" /\ user.version < MaxVersion
  /\ user' = [user EXCEPT !.version = @ + 1]
  /\ admin' = [admin EXCEPT !.at = "bumped"]
  /\ UNCHANGED <<row, cookie, access, tab, call>>

\* ... then revokeAllForUser().
SweepUser ==
  /\ admin.at = "bumped"
  /\ admin' = [admin EXCEPT !.at = "sweep", !.rows = Unrevoked(0)]
  /\ UNCHANGED <<row, user, cookie, access, tab, call>>

RevokeUser ==
  /\ admin.at = "sweep"
  /\ Revoke(admin.rows)
  /\ admin' = [at |-> "idle", rows |-> {}, ended |-> {t \in Token : row[t].family = t}]
  /\ UNCHANGED <<user, cookie, access, tab, call>>

\* updateStatus(): suspend or reactivate.
UpdateStatus ==
  /\ \E active \in BOOLEAN : user' = [user EXCEPT !.active = active]
  /\ UNCHANGED <<row, cookie, access, tab, call, admin>>

\* Requests under way are answered within Transit ticks.
Tick ==
  /\ \A b \in Tab : call[b].at # "none" => call[b].time < Transit
  /\ call' = [b \in Tab |-> IF call[b].at = "none" THEN call[b]
                            ELSE [call[b] EXCEPT !.time = @ + 1]]
  /\ row' = [t \in Token |-> IF row[t].rotated /\ row[t].age <= Grace
                             THEN [row[t] EXCEPT !.age = @ + 1] ELSE row[t]]
  /\ UNCHANGED <<user, cookie, access, tab, admin>>

-----------------------------------------------------------------------------

Next ==
  \/ \E b \in Tab : BrowserNext(b) \/ ServerNext(b)
  \/ LapseAccess \/ BumpVersion \/ SweepUser \/ RevokeUser \/ UpdateStatus \/ Tick

Spec == Init /\ [][Next]_vars
-----------------------------------------------------------------------------
(* Properties *)

\* refresh-token.service.ts: two simultaneous requests with one token must not
\* "mint two live successors", silently forking the session.
OneLiveTokenPerSession ==
  \A t, u \in Token : isLive(t) /\ isLive(u) /\ row[t].family = row[u].family => t = u

\* refresh-token.service.ts:40: as long as no answer gets lost, and a request
\* takes less than half the grace window, the tabs of an honest browser are
\* never taken for a copied token: no rotated token is presented after the
\* window, whoever suspends, reactivates or logs out the user meanwhile.
HonestNeverFlagged == \A b \in Tab : call[b].at # "sweeping"

\* docs/38-SESSION-AND-REFRESH-TOKENS.md 3.1: what is in the cookie when no
\* refresh or logout is under way is the last token of its chain: whichever tab won,
\* whatever the others were answered, and in any order.
CookieIsCurrent ==
  (\A b \in Tab : call[b].at \in {"none", "retried"}) /\ cookie # 0 => ~row[cookie].rotated

-----------------------------------------------------------------------------
(* Stated by the repository, and refuted by TLC: see README.md *)

\* users.service.ts:216: a forced logout revokes the refresh tokens of every
\* session there is, because a live one would undo it; none of them is live
\* once it has been answered.
ForcedLogoutIsFinal == \A t \in Token : row[t].family \in admin.ended => ~isLive(t)

\* docs/38-SESSION-AND-REFRESH-TOKENS.md 3.1: a tab that loses the race for a
\* rotation is not signed out, its retry succeeds.
TabsStaySignedIn ==
  [][\A b \in Tab : ReceiveRetry(b) => tab'[b] = "open"]_vars
=============================================================================
