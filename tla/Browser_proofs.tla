--------------------------- MODULE Browser_proofs ---------------------------
(***************************************************************************)
(* Theorems about Browser and Accounts, for any users, sessions, tabs,     *)
(* requests, devices, bound of failures and number of calls.               *)
(*                                                                         *)
(* The argument: what is outdated, a live session or a sign-in under way,  *)
(* belongs to a user whom a call is about to sign out everywhere (Marked). *)
(* A login or a refresh carries the mark of what it was let in by into the *)
(* session it issues, so it never launders old credentials; a call that    *)
(* has answered carries nothing (Resting).                                 *)
(***************************************************************************)
EXTENDS Browser, TLAPS

SignsIn(c) == op[c] \in {"login", "refresh"}

\* Somebody is about to revoke every session of the user.
Revoking(u) == \E d \in Calls : pc[d] = "revokeAll" /\ who[d] = u

\* The same after a step.
RevokingNext(u) == \E d \in Calls : pc'[d] = "revokeAll" /\ who'[d] = u

SessionsMarked ==
  \A s \in Sessions : Live(s) /\ session[s].mark = "outdated" => Revoking(session[s].user)
CallsMarked ==
  \A c \in Calls : mark[c] = "outdated" => SignsIn(c) /\ Revoking(who[c])

\* A call that has answered has no user any more.
Resting ==
  \A c \in Calls : pc[c] \in Answers \union {"idle"} => who[c] = NoUser
Changing ==
  \A c \in Calls : pc[c] \in {"change", "revokeAll"} => who[c] \in Users

\* A request under way has been sent by a tab.
Senders == \A r \in Requests : request[r].phase # "none" => request[r].from \in Tabs

MarksInv == SessionsMarked /\ CallsMarked /\ Resting /\ Changing
IInv == TypeOK /\ Senders /\ MarksInv

\* The calls other than c stay as they are.
OthersStay(c) ==
  \A d \in Calls \ {c} :
    pc'[d] = pc[d] /\ op'[d] = op[d] /\ who'[d] = who[d] /\ mark'[d] = mark[d]

-----------------------------------------------------------------------------
(***************************************************************************)
(* Types.                                                                  *)
(***************************************************************************)
LEMMA AccountFacts ==
  /\ NoAccount \in Account /\ NewAccount \in Account
  /\ \A a \in Account, x \in {"none", "live", "deleted"} : [a EXCEPT !.status = x] \in Account
  /\ \A a \in Account, b \in BOOLEAN : /\ [a EXCEPT !.use = b] \in Account
                                       /\ [a EXCEPT !.home = b] \in Account
                                       /\ [a EXCEPT !.locked = b] \in Account
  /\ \A a \in Account, n \in 0..MaxFailed - 1 : [a EXCEPT !.fails = n] \in Account
<1>1. 0 \in 0..MaxFailed - 1
  BY MaxFailedAssumption
<1>2. NoAccount \in Account
  BY <1>1 DEF NoAccount, Account
<1>3. \A a \in Account, x \in {"none", "live", "deleted"} : [a EXCEPT !.status = x] \in Account
  BY DEF Account
<1>4. \A a \in Account, b \in BOOLEAN : [a EXCEPT !.use = b] \in Account
  BY DEF Account
<1>5. \A a \in Account, b \in BOOLEAN : [a EXCEPT !.home = b] \in Account
  BY DEF Account
<1>6. \A a \in Account, b \in BOOLEAN : [a EXCEPT !.locked = b] \in Account
  BY DEF Account
<1>7. \A a \in Account, n \in 0..MaxFailed - 1 : [a EXCEPT !.fails = n] \in Account
  BY DEF Account
<1>8. NewAccount \in Account
  <2>1. NewAccount = [[[NoAccount EXCEPT !.status = "live"] EXCEPT !.use = TRUE] EXCEPT !.home = TRUE]
    BY DEF NewAccount
  <2> QED
    BY <1>2, <1>3, <1>4, <1>5, <2>1
<1> QED
  BY <1>2, <1>3, <1>4, <1>5, <1>6, <1>7, <1>8

\* The failure counter stays below its limit.
LEMMA CountFailureType ==
  ASSUME NEW a \in Account, NEW read \in Account
  PROVE  CountFailure(a, read) \in Account
<1>1. read.fails \in 0..MaxFailed - 1
  BY DEF Account
<1>2. CASE Failed(read.fails + 1)
  <2>1. CountFailure(a, read) = [[a EXCEPT !.fails = 0] EXCEPT !.locked = TRUE]
    BY <1>2 DEF CountFailure, Account
  <2>2. 0 \in 0..MaxFailed - 1
    BY MaxFailedAssumption
  <2> QED
    BY <2>1, <2>2, AccountFacts
<1>3. CASE ~Failed(read.fails + 1)
  <2>1. read.fails + 1 \in 0..MaxFailed - 1
    BY <1>1, <1>3, MaxFailedAssumption DEF Failed
  <2> QED
    BY <1>3, <2>1, AccountFacts DEF CountFailure
<1> QED
  BY <1>2, <1>3
CallTypes ==
  /\ pc \in [Calls -> Phases]
  /\ op \in [Calls -> Operations \union {"none"}]
  /\ who \in [Calls -> Users \union {NoUser}]
  /\ with \in [Calls -> Sessions \union {NoSession}]
  /\ copy \in [Calls -> Account]
  /\ mark \in [Calls -> Marks]
RowTypes ==
  /\ mix \in Mixes
  /\ account \in [Users -> Account]
  /\ session \in [Sessions -> Session]

LEMMA TypesOfAccounts == AccountsTypeOK <=> RowTypes /\ CallTypes
BY DEF AccountsTypeOK, RowTypes, CallTypes

LEMMA AnswerTypes ==
  ASSUME CallTypes, NEW c \in Calls, NEW how \in Answers, Answer(c, how)
  PROVE  CallTypes'
BY AccountFacts DEF CallTypes, Answer, Answering, Read, Phases, Answers, Marks, Operations

LEMMA BeginTypes ==
  ASSUME CallTypes, NEW c \in Calls, NEW o \in Operations, NEW phase \in Phases,
         NEW u \in Users \union {NoUser}, NEW s \in Sessions \union {NoSession},
         Begin(c, o, phase, u, s)
  PROVE  /\ pc' \in [Calls -> Phases]
         /\ op' \in [Calls -> Operations \union {"none"}]
         /\ who' \in [Calls -> Users \union {NoUser}]
         /\ with' \in [Calls -> Sessions \union {NoSession}]
BY DEF CallTypes, Begin

\* A row whose mark or status is rewritten.
LEMMA RowFacts ==
  /\ \A r \in Session, m \in Marks : [r EXCEPT !.mark = m] \in Session
  /\ \A r \in Session, x \in {"none", "live", "revoked"} : [r EXCEPT !.status = x] \in Session
<1>1. \A r \in Session, m \in Marks : [r EXCEPT !.mark = m] \in Session
  BY DEF Session
<1>2. \A r \in Session, x \in {"none", "live", "revoked"} : [r EXCEPT !.status = x] \in Session
  BY DEF Session
<1> QED
  BY <1>1, <1>2

LEMMA RemarkTypes ==
  ASSUME RowTypes, CallTypes, NEW u, NEW m, NEW n \in Marks
  PROVE  /\ RemarkCalls(u, m, n) => mark' \in [Calls -> Marks]
         /\ RemarkAll(u, m, n) =>
              mark' \in [Calls -> Marks] /\ session' \in [Sessions -> Session]
<1>1. RemarkCalls(u, m, n) => mark' \in [Calls -> Marks]
  BY DEF CallTypes, RemarkCalls
<1>2. RemarkAll(u, m, n) => session' \in [Sessions -> Session]
  BY RowFacts DEF RowTypes, RemarkAll
<1> QED
  BY <1>1, <1>2 DEF RemarkAll

LEMMA LoginTypes ==
  ASSUME RowTypes, CallTypes, NEW c \in Calls,
         WrongPassword(c) \/ RefuseHomeless(c) \/ RightPassword(c)
  PROVE  RowTypes' /\ CallTypes'
<1>1. CASE WrongPassword(c)
  <2>1. account' \in [Users -> Account]
    BY <1>1, CountFailureType DEF WrongPassword, RowTypes, CallTypes
  <2> QED
    BY <1>1, <2>1, AnswerTypes DEF WrongPassword, RowTypes, Answers
<1>2. CASE RefuseHomeless(c)
  BY <1>2, AnswerTypes DEF RefuseHomeless, RowTypes, Answers, accountVars
<1>3. CASE RightPassword(c)
  <2>1. 0 \in 0..MaxFailed - 1
    BY MaxFailedAssumption
  <2>2. [account EXCEPT ![who[c]].fails = 0] \in [Users -> Account]
    BY <2>1, AccountFacts DEF RowTypes
  <2>3. account' = [[account EXCEPT ![who[c]].fails = 0] EXCEPT ![who[c]].locked = FALSE]
    BY <1>3 DEF RightPassword
  <2>4. account' \in [Users -> Account]
    BY <2>2, <2>3, AccountFacts
  <2> QED
    BY <1>3, <2>4 DEF RightPassword, RowTypes, CallTypes, Goto, Phases
<1> QED
  BY <1>1, <1>2, <1>3

LEMMA RefreshTypes ==
  ASSUME RowTypes, CallTypes, NEW c \in Calls, FindUser(c) \/ Rotate(c) \/ Revoke(c)
  PROVE  RowTypes' /\ CallTypes'
<1>1. CASE FindUser(c)
  BY <1>1 DEF FindUser, Goto, RowTypes, CallTypes, Phases, accountVars
<1>2. [session EXCEPT ![with[c]].status = "revoked"] \in [Sessions -> Session]
  BY RowFacts DEF RowTypes
<1>3. CASE Rotate(c)
  BY <1>2, <1>3 DEF Rotate, Goto, RowTypes, CallTypes, Phases
<1>4. CASE Revoke(c)
  BY <1>2, <1>4, AnswerTypes DEF Revoke, RowTypes, Answers
<1> QED
  BY <1>1, <1>3, <1>4

LEMMA RevocationTypes ==
  ASSUME RowTypes, CallTypes, NEW c \in Calls,
         RefuseChange(c) \/ ChangePassword(c) \/ RevokeAll(c) \/ RevocationFails(c)
  PROVE  RowTypes' /\ CallTypes'
<1>0. "outdated" \in Marks /\ "missed" \in Marks
  BY DEF Marks
<1>1. CASE RefuseChange(c)
  BY <1>1, AnswerTypes DEF RefuseChange, RowTypes, Answers, accountVars
<1>2. CASE ChangePassword(c)
  <2>1. mark' \in [Calls -> Marks] /\ session' \in [Sessions -> Session]
    BY <1>0, <1>2, RemarkTypes DEF ChangePassword
  <2> QED
    BY <1>2, <2>1 DEF ChangePassword, Goto, RowTypes, CallTypes, Phases
<1>3. CASE RevokeAll(c)
  <2>1. mark' \in [Calls -> Marks]
    BY <1>0, <1>3, RemarkTypes DEF RevokeAll
  <2>2. session' \in [Sessions -> Session]
    BY <1>3, RowFacts DEF RevokeAll, RowTypes
  <2> QED
    BY <1>3, <2>1, <2>2 DEF RevokeAll, Answering, RowTypes, CallTypes, Phases, Answers
<1>4. CASE RevocationFails(c)
  <2>1. mark' \in [Calls -> Marks] /\ session' \in [Sessions -> Session]
    BY <1>0, <1>4, RemarkTypes DEF RevocationFails
  <2> QED
    BY <1>4, <2>1 DEF RevocationFails, Answering, RowTypes, CallTypes, Phases, Answers
<1> QED
  BY <1>1, <1>2, <1>3, <1>4

LEMMA SaveTypes ==
  ASSUME RowTypes, CallTypes, NEW c \in Calls, SaveNew(c) \/ Save(c)
  PROVE  RowTypes' /\ CallTypes'
<1>1. CASE SaveNew(c)
  <2>1. \A a \in Account : SaveSignUp(a) \in Account
    <3> SUFFICES ASSUME NEW a \in Account PROVE SaveSignUp(a) \in Account
      OBVIOUS
    <3>1. [NoAccount EXCEPT !.status = "live"] \in Account
      BY AccountFacts
    <3>2. [a EXCEPT !.status = "live"] \in Account
      BY AccountFacts
    <3>3. [[a EXCEPT !.status = "live"] EXCEPT !.use = FALSE] \in Account
      BY <3>2, AccountFacts
    <3> QED
      BY <3>1, <3>3 DEF SaveSignUp
  <2>2. \A a \in Account : SaveNewUser(a) \in Account
    <3> SUFFICES ASSUME NEW a \in Account PROVE SaveNewUser(a) \in Account
      OBVIOUS
    <3>1. [a EXCEPT !.use = TRUE] \in Account
      BY AccountFacts
    <3>2. [[a EXCEPT !.use = TRUE] EXCEPT !.home = TRUE] \in Account
      BY <3>1, AccountFacts
    <3> QED
      BY <3>2, AccountFacts DEF SaveNewUser
  <2>3. account' \in [Users -> Account]
    BY <1>1, <2>1, <2>2 DEF SaveNew, RowTypes
  <2> QED
    BY <1>1, <2>3, AnswerTypes DEF SaveNew, RowTypes, Answers
<1>2. CASE Save(c)
  <2>1. account' \in [Users -> Account]
    BY <1>2 DEF Save, RowTypes, CallTypes
  <2> QED
    BY <1>2, <2>1, AnswerTypes DEF Save, RowTypes, Answers
<1> QED
  BY <1>1, <1>2

LEMMA NewRowType ==
  ASSUME RowTypes, NEW c \in Calls, Spare(c) # {}
  PROVE  NewRow(c) \in Sessions
<1> DEFINE dead == {s \in Spare(c) : ~Live(s)}
           rows == IF dead = {} THEN Spare(c) ELSE dead
<1>1. Spare(c) \subseteq Sessions
  BY MixRows DEF RowTypes, Spare
<1>2. rows # {} /\ rows \subseteq Sessions
  BY <1>1
<1>3. NewRow(c) = CHOOSE s \in Sessions : s \in rows
  BY DEF NewRow
<1> HIDE DEF rows
<1> QED
  BY <1>2, <1>3

LEMMA IssueTypes ==
  ASSUME RowTypes, CallTypes, NEW c \in Calls, NEW s \in Sessions, Issue(c, s)
  PROVE  RowTypes' /\ CallTypes'
<1>1. session' \in [Sessions -> Session]
  BY DEF Issue, RowTypes, CallTypes, Session
<1>2. /\ pc' \in [Calls -> Phases] /\ op' \in [Calls -> Operations \union {"none"}]
      /\ who' \in [Calls -> Users \union {NoUser}] /\ mark' \in [Calls -> Marks]
  BY DEF Issue, Answering, CallTypes, Phases, Answers, Marks
<1>3. with' \in [Calls -> Sessions \union {NoSession}] /\ copy' \in [Calls -> Account]
  BY AccountFacts DEF Issue, Read, CallTypes
<1> QED
  BY <1>1, <1>2, <1>3 DEF Issue, RowTypes, CallTypes

LEMMA ArrivalTypes ==
  ASSUME RowTypes, CallTypes, NEW c \in Calls,
         \/ \E u \in Users : FindForLogin(c, u) \/ RefuseLogin(c, u)
         \/ \E s \in Sessions \union {NoSession} :
              \/ FindSession(c, s) \/ RefuseSession(c, s)
              \/ FindToLogout(c, s) \/ NothingToRevoke(c, s)
  PROVE  RowTypes' /\ CallTypes'
<1>1. ASSUME NEW u \in Users, FindForLogin(c, u) \/ RefuseLogin(c, u)
      PROVE  RowTypes' /\ CallTypes'
  <2>1. account[u] \in Account
    BY DEF RowTypes
  <2>2. copy' \in [Calls -> Account] /\ mark' = mark /\ UNCHANGED <<mix, account, session>>
    BY <1>1, <2>1 DEF FindForLogin, RefuseLogin, Read, CallTypes, accountVars
  <2>3. \/ Begin(c, "login", "compare", u, NoSession)
        \/ Begin(c, "login", "refused", NoUser, NoSession)
    BY <1>1 DEF FindForLogin, RefuseLogin
  <2>4. CallTypes'
    BY <2>2, <2>3, BeginTypes DEF CallTypes, Operations, Phases, Answers
  <2> QED
    BY <2>2, <2>4 DEF RowTypes
<1>2. ASSUME NEW s \in Sessions \union {NoSession},
             \/ FindSession(c, s) \/ RefuseSession(c, s)
             \/ FindToLogout(c, s) \/ NothingToRevoke(c, s)
      PROVE  RowTypes' /\ CallTypes'
  <2>1. s # NoSession => session[s].user \in Users \union {NoUser} /\ session[s].mark \in Marks
    BY DEF RowTypes, Session
  <2>2. copy' = copy /\ UNCHANGED <<mix, account, session>>
    BY <1>2 DEF FindSession, RefuseSession, FindToLogout, NothingToRevoke, accountVars
  <2>3. mark' \in [Calls -> Marks]
    BY <1>2, <2>1 DEF FindSession, RefuseSession, FindToLogout, NothingToRevoke, CallTypes,
       Usable, Live
  <2>4. \/ s # NoSession /\ Begin(c, "refresh", "findUser", session[s].user, s)
        \/ Begin(c, "refresh", "refused", NoUser, NoSession)
        \/ s # NoSession /\ Begin(c, "logout", "revoke", session[s].user, s)
        \/ Begin(c, "logout", "ok", NoUser, NoSession)
    BY <1>2 DEF FindSession, RefuseSession, FindToLogout, NothingToRevoke, Usable, Live, Known
  <2>5. CallTypes'
    BY <2>1, <2>2, <2>3, <2>4, BeginTypes DEF CallTypes, Operations, Phases, Answers
  <2> QED
    BY <2>2, <2>5 DEF RowTypes
<1> QED
  BY <1>1, <1>2

LEMMA AdministrationTypes ==
  ASSUME RowTypes, CallTypes, NEW c \in Calls, NEW u \in Users, AccountAdministration(c, u)
  PROVE  RowTypes' /\ CallTypes'
<1>1. CASE FindToChange(c, u) \/ FindNew(c, u)
  <2>1. UNCHANGED <<mix, account, session, copy, mark>>
    BY <1>1 DEF FindToChange, FindNew, accountVars
  <2>2. \/ Begin(c, "changePassword", "change", u, NoSession)
        \/ Begin(c, "signUp", "saveNew", u, NoSession)
        \/ Begin(c, "saveUser", "saveNew", u, NoSession)
    BY <1>1 DEF FindToChange, FindNew
  <2> QED
    BY <2>1, <2>2, BeginTypes DEF RowTypes, CallTypes, Operations, Phases
<1>2. CASE Disable(c, u)
  <2>1. account' \in [Users -> Account]
    BY <1>2, AccountFacts DEF Disable, RowTypes
  <2>2. mark' \in [Calls -> Marks] /\ session' \in [Sessions -> Session]
    BY <1>2, RemarkTypes DEF Disable, Marks
  <2>3. Begin(c, "setUse", "revokeAll", u, NoSession) /\ UNCHANGED <<mix, copy>>
    BY <1>2 DEF Disable
  <2> QED
    BY <2>1, <2>2, <2>3, BeginTypes DEF RowTypes, CallTypes, Operations, Phases
<1>3. CASE Enable(c, u)
  <2>1. account' \in [Users -> Account]
    BY <1>3, AccountFacts DEF Enable, RowTypes
  <2> QED
    BY <1>3, <2>1 DEF Enable, RowTypes, CallTypes, callVars
<1>4. CASE FindToRestore(c, u) \/ FindToUpdate(c, u) \/ FindToDelete(c, u)
  <2>1. account[u] \in Account
    BY DEF RowTypes
  <2>2. \A b \in BOOLEAN : [account[u] EXCEPT !.use = b, !.home = TRUE] \in Account
    <3> SUFFICES ASSUME NEW b \in BOOLEAN
                 PROVE  [[account[u] EXCEPT !.use = b] EXCEPT !.home = TRUE] \in Account
      OBVIOUS
    <3>1. [account[u] EXCEPT !.use = b] \in Account
      BY <2>1, AccountFacts
    <3> QED
      BY <3>1, AccountFacts
  <2>3. [account[u] EXCEPT !.status = "live", !.use = TRUE, !.home = TRUE] \in Account
    <3>1. [account[u] EXCEPT !.status = "live"] \in Account
      BY <2>1, AccountFacts
    <3>2. [[account[u] EXCEPT !.status = "live"] EXCEPT !.use = TRUE] \in Account
      BY <3>1, AccountFacts
    <3> QED
      BY <3>2, AccountFacts
  <2>4. [account[u] EXCEPT !.status = "deleted"] \in Account
    BY <2>1, AccountFacts
  <2>5. copy' \in [Calls -> Account] /\ UNCHANGED <<mix, account, session, mark>>
    BY <1>4, <2>2, <2>3, <2>4
       DEF FindToRestore, FindToUpdate, FindToDelete, Read, CallTypes, accountVars
  <2>6. \/ Begin(c, "saveUser", "save", u, NoSession)
        \/ Begin(c, "updateUser", "save", u, NoSession)
        \/ Begin(c, "deleteUser", "save", u, NoSession)
    BY <1>4 DEF FindToRestore, FindToUpdate, FindToDelete
  <2> QED
    BY <2>5, <2>6, BeginTypes DEF RowTypes, CallTypes, Operations, Phases
<1> QED
  BY <1>1, <1>2, <1>3, <1>4 DEF AccountAdministration

LEMMA FaultTypes ==
  ASSUME RowTypes, CallTypes, NEW c \in Calls, Fail(c) \/ LoseAnswer(c)
  PROVE  RowTypes' /\ CallTypes'
<1>1. Answer(c, "failed") /\ UNCHANGED <<mix, account, session>>
  BY DEF Fail, LoseAnswer, accountVars
<1> QED
  BY <1>1, AnswerTypes DEF RowTypes, Answers

LEMMA ClockTypes ==
  ASSUME RowTypes, CallTypes, Clock
  PROVE  RowTypes' /\ CallTypes'
<1>1. UNCHANGED <<mix, pc, op, who, with, copy, mark>>
  BY DEF Clock, LockEnds, Expire, callVars
<1>2. account' \in [Users -> Account]
  BY AccountFacts DEF Clock, LockEnds, Expire, RowTypes
<1>3. session' \in [Sessions -> Session]
  BY RowFacts DEF Clock, LockEnds, Expire, RowTypes
<1> QED
  BY <1>1, <1>2, <1>3 DEF RowTypes, CallTypes

Req == [phase: {"none", "sent", "waiting"}, from: Tabs \union {NoTab}, retried: BOOLEAN]
BrowserTypes ==
  /\ cookie \in Sessions \union {NoSession}
  /\ tab \in [Tabs -> {"closed", "loading", "signedOut", "signedIn"}]
  /\ request \in [Requests -> Req]

LEMMA TypesOfBrowser == TypeOK <=> RowTypes /\ CallTypes /\ BrowserTypes
BY TypesOfAccounts DEF TypeOK, BrowserTypes, Req

LEMMA EndTypes ==
  ASSUME RowTypes, CallTypes, NEW c \in Calls, End(c), UNCHANGED accountVars
  PROVE  RowTypes' /\ CallTypes'
BY DEF End, accountVars, RowTypes, CallTypes, Phases

\* What a tab does to the cookie, to itself and to its requests.
LEMMA TabTypes ==
  ASSUME TypeOK, NEW t \in Tabs,
         \/ OpenTab(t) \/ CloseTab(t) \/ Login(t) \/ Logout(t)
         \/ PageSignedIn(t) \/ PageSignedOut(t)
         \/ Refreshed(t) \/ RefreshFailed(t)
         \/ \E r \in Requests : Send(r, t)
  PROVE  BrowserTypes'
<1>1. BrowserTypes /\ CallTypes /\ Page(t) \in Calls /\ Interceptor(t) \in Calls
  BY TypesOfBrowser, TabCalls
<1>2. NoRequest \in Req /\ [phase |-> "sent", from |-> t, retried |-> TRUE] \in Req
      /\ [phase |-> "sent", from |-> t, retried |-> FALSE] \in Req
  BY DEF NoRequest, Req
<1>3. CASE OpenTab(t) \/ CloseTab(t) \/ Login(t) \/ Logout(t)
  BY <1>1, <1>3 DEF OpenTab, CloseTab, Login, Logout, browserVars, BrowserTypes
<1>4. CASE PageSignedIn(t) \/ PageSignedOut(t)
  BY <1>1, <1>4 DEF PageSignedIn, PageSignedOut, SetCookie, ApplyAuth, ClearAuth, BrowserTypes,
     CallTypes
<1>5. CASE Refreshed(t) \/ RefreshFailed(t)
  <2>1. request' \in [Requests -> Req]
    BY <1>1, <1>2, <1>5 DEF Refreshed, RefreshFailed, Resume, BrowserTypes
  <2> QED
    BY <1>1, <1>5, <2>1 DEF Refreshed, RefreshFailed, SetCookie, ApplyAuth, ClearAuth,
       BrowserTypes, CallTypes
<1>6. ASSUME NEW r \in Requests, Send(r, t) PROVE BrowserTypes'
  BY <1>1, <1>2, <1>6 DEF Send, BrowserTypes
<1> QED
  BY <1>3, <1>4, <1>5, <1>6

LEMMA RequestTypes ==
  ASSUME TypeOK, NEW r \in Requests, Proceed(r)
  PROVE  BrowserTypes'
<1>1. BrowserTypes
  BY TypesOfBrowser
<1>2. \A q \in Req : [q EXCEPT !.phase = "waiting"] \in Req
  BY DEF Req
<1>3. NoRequest \in Req
  BY DEF NoRequest, Req
<1>4. UNCHANGED <<cookie, tab>>
  BY DEF Proceed, Settle, ShareRefresh, StartRefresh
<1>5. request' \in [Requests -> Req]
  BY <1>1, <1>2, <1>3 DEF Proceed, Settle, ShareRefresh, StartRefresh, BrowserTypes
<1> QED
  BY <1>1, <1>4, <1>5 DEF BrowserTypes

\* Whoever sends a request is a tab.
LEMMA SendersKept ==
  ASSUME TypeOK, Senders,
         \/ request' = request
         \/ \E t \in Tabs, r \in Requests : Send(r, t)
         \/ \E t \in Tabs : Refreshed(t) \/ RefreshFailed(t)
         \/ \E r \in Requests : Proceed(r)
  PROVE  Senders'
<1>1. request \in [Requests -> Req]
  BY TypesOfBrowser DEF BrowserTypes
<1>2. CASE request' = request
  BY <1>2 DEF Senders
<1>3. ASSUME NEW t \in Tabs, NEW r \in Requests, Send(r, t) PROVE Senders'
  BY <1>1, <1>3 DEF Send, Senders
<1>4. ASSUME NEW t \in Tabs, Refreshed(t) \/ RefreshFailed(t) PROVE Senders'
  BY <1>1, <1>4 DEF Refreshed, RefreshFailed, Resume, Senders, NoRequest
<1>5. ASSUME NEW r \in Requests, Proceed(r) PROVE Senders'
  <2>1. request[r].phase = "sent"
    BY <1>5 DEF Proceed, Settle, ShareRefresh, StartRefresh, Unauthorized
  <2>2. \/ request' = [request EXCEPT ![r] = NoRequest]
        \/ request' = [request EXCEPT ![r].phase = "waiting"]
    BY <1>5 DEF Proceed, Settle, ShareRefresh, StartRefresh
  <2> QED
    BY <1>1, <2>1, <2>2 DEF Senders, NoRequest, Req
<1> QED
  BY <1>2, <1>3, <1>4, <1>5

-----------------------------------------------------------------------------
(***************************************************************************)
(* Marks.                                                                  *)
(***************************************************************************)
\* A step of a call that revokes nothing leaves every revocation under way.
LEMMA CallStep ==
  ASSUME MarksInv, NEW c \in Calls, OthersStay(c), pc[c] # "revokeAll",
         \A s \in Sessions : Live(s)' /\ session'[s].mark = "outdated" =>
           Revoking(session'[s].user),
         mark'[c] = "outdated" => SignsIn(c)' /\ Revoking(who'[c]),
         pc'[c] \in Answers \union {"idle"} => who'[c] = NoUser,
         pc'[c] \in {"change", "revokeAll"} => who'[c] \in Users
  PROVE  MarksInv'
<1>1. \A u : Revoking(u) => RevokingNext(u)
  BY DEF Revoking, RevokingNext, OthersStay
<1>2. SessionsMarked'
  BY <1>1 DEF SessionsMarked, Revoking, RevokingNext
<1>3. CallsMarked'
  <2> SUFFICES ASSUME NEW d \in Calls, mark'[d] = "outdated"
               PROVE  SignsIn(d)' /\ RevokingNext(who'[d])
    BY DEF CallsMarked, Revoking, RevokingNext
  <2>1. CASE d = c
    BY <1>1, <2>1
  <2>2. CASE d # c
    BY <1>1, <2>2 DEF MarksInv, CallsMarked, SignsIn, OthersStay
  <2> QED
    BY <2>1, <2>2
<1>4. Resting' /\ Changing'
  BY DEF MarksInv, Resting, Changing, OthersStay
<1> QED
  BY <1>2, <1>3, <1>4 DEF MarksInv

\* Rows that are unchanged, or revoked, keep the marks they have.
LEMMA RowsMarked ==
  ASSUME MarksInv,
         \A s \in Sessions : Live(s)' =>
           Live(s) /\ session'[s].mark = session[s].mark /\ session'[s].user = session[s].user,
         NEW s \in Sessions, Live(s)', session'[s].mark = "outdated"
  PROVE  Revoking(session'[s].user)
BY DEF MarksInv, SessionsMarked

\* A call without a user carries nothing outdated.
LEMMA NothingCarried ==
  ASSUME MarksInv, NEW c \in Calls, pc[c] \in Answers \union {"idle"}
  PROVE  who[c] = NoUser /\ mark[c] # "outdated"
BY AccountNames DEF MarksInv, Resting, CallsMarked, Changing, Revoking

\* What is current becomes outdated when a revocation is about to begin.
LEMMA RevocationBegins ==
  ASSUME IInv, NEW c \in Calls, NEW u \in Users, pc[c] # "revokeAll",
         RemarkAll(u, "current", "outdated"),
         \A d \in Calls \ {c} : pc'[d] = pc[d] /\ op'[d] = op[d] /\ who'[d] = who[d],
         pc'[c] = "revokeAll" /\ who'[c] = u,
         \/ who[c] = u /\ op'[c] = op[c]
         \/ mark[c] # "outdated" /\ who[c] # u
  PROVE  MarksInv'
<1>1. \A v : Revoking(v) => RevokingNext(v)
  BY DEF Revoking, RevokingNext
<1>2. RevokingNext(u)
  BY DEF Revoking, RevokingNext
<1>3. session \in [Sessions -> Session] /\ mark \in [Calls -> Marks]
  BY DEF IInv, TypeOK, AccountsTypeOK
<1>4. SessionsMarked'
  <2> SUFFICES ASSUME NEW s \in Sessions, Live(s)', session'[s].mark = "outdated"
               PROVE  RevokingNext(session'[s].user)
    BY DEF SessionsMarked, Revoking, RevokingNext
  <2>1. CASE session[s].user = u /\ session[s].mark = "current"
    <3>1. session'[s].user = u
      BY <1>3, <2>1 DEF RemarkAll, Session
    <3> QED
      BY <1>2, <3>1
  <2>2. CASE ~(session[s].user = u /\ session[s].mark = "current")
    <3>1. session'[s] = session[s]
      BY <2>2 DEF RemarkAll
    <3>2. Live(s)
      BY <3>1 DEF Live
    <3> QED
      BY <1>1, <3>1, <3>2 DEF IInv, MarksInv, SessionsMarked
  <2> QED
    BY <2>1, <2>2
<1>5. CallsMarked'
  <2> SUFFICES ASSUME NEW d \in Calls, mark'[d] = "outdated"
               PROVE  SignsIn(d)' /\ RevokingNext(who'[d])
    BY DEF CallsMarked, Revoking, RevokingNext
  <2>1. mark[d] = "outdated" \/ (who[d] = u /\ SignsIn(d))
    BY <1>3 DEF RemarkAll, RemarkCalls, SignsIn
  <2>2. mark[d] = "outdated" => SignsIn(d) /\ Revoking(who[d])
    BY DEF IInv, MarksInv, CallsMarked
  <2>3. CASE d = c
    BY <1>2, <2>1, <2>2, <2>3 DEF SignsIn
  <2>4. CASE d # c
    BY <1>1, <1>2, <2>1, <2>2, <2>4 DEF SignsIn
  <2> QED
    BY <2>3, <2>4
<1>6. Resting' /\ Changing'
  BY DEF IInv, MarksInv, Resting, Changing, Answers
<1> QED
  BY <1>4, <1>5, <1>6 DEF MarksInv

\* A revocation leaves nothing outdated of its user behind.
LEMMA RevocationEnds ==
  ASSUME IInv, NEW c \in Calls, pc[c] = "revokeAll",
         RemarkCalls(who[c], "outdated", "missed"),
         \A s \in Sessions : Live(s)' /\ session'[s].mark = "outdated" =>
           /\ session'[s].user # who[c] /\ session'[s].user = session[s].user
           /\ Live(s) /\ session[s].mark = "outdated",
         \A d \in Calls \ {c} : pc'[d] = pc[d] /\ op'[d] = op[d] /\ who'[d] = who[d],
         pc'[c] \in Answers \union {"idle"}, who'[c] = NoUser
  PROVE  MarksInv'
<1>1. \A v : v # who[c] /\ Revoking(v) => RevokingNext(v)
  BY DEF Revoking, RevokingNext
<1>2. SessionsMarked'
  <2> SUFFICES ASSUME NEW s \in Sessions, Live(s)', session'[s].mark = "outdated"
               PROVE  RevokingNext(session'[s].user)
    BY DEF SessionsMarked, Revoking, RevokingNext
  <2> QED
    BY <1>1 DEF IInv, MarksInv, SessionsMarked
<1>3. CallsMarked'
  <2> SUFFICES ASSUME NEW d \in Calls, mark'[d] = "outdated"
               PROVE  SignsIn(d)' /\ RevokingNext(who'[d])
    BY DEF CallsMarked, Revoking, RevokingNext
  <2>1. mark[d] = "outdated" /\ ~(who[d] = who[c] /\ SignsIn(d))
    BY DEF RemarkCalls, SignsIn
  <2>2. SignsIn(d) /\ Revoking(who[d]) /\ who[d] # who[c] /\ d # c
    BY <2>1 DEF IInv, MarksInv, CallsMarked
  <2> QED
    BY <1>1, <2>2 DEF SignsIn
<1>4. Resting' /\ Changing'
  BY DEF IInv, MarksInv, Resting, Changing, Answers
<1> QED
  BY <1>2, <1>3, <1>4 DEF MarksInv

LEMMA TypeFacts ==
  ASSUME IInv
  PROVE  /\ session \in [Sessions -> Session] /\ pc \in [Calls -> Phases]
         /\ op \in [Calls -> Operations \union {"none"}]
         /\ who \in [Calls -> Users \union {NoUser}]
         /\ with \in [Calls -> Sessions \union {NoSession}]
         /\ mark \in [Calls -> Marks]
BY DEF IInv, TypeOK, AccountsTypeOK

LEMMA AnswerMarks ==
  ASSUME IInv, NEW c \in Calls, NEW how \in Answers, Answer(c, how), pc[c] # "revokeAll",
         \A s \in Sessions : Live(s)' =>
           Live(s) /\ session'[s].mark = session[s].mark /\ session'[s].user = session[s].user
  PROVE  MarksInv'
<1>1. OthersStay(c)
  BY TypeFacts DEF Answer, Answering, OthersStay
<1>2. who'[c] = NoUser /\ mark'[c] = "current" /\ pc'[c] \in Answers \union {"idle"}
  BY TypeFacts DEF Answer, Answering
<1>3. MarksInv
  BY DEF IInv
<1> QED
  BY <1>1, <1>2, <1>3, RowsMarked, CallStep DEF Answers

LEMMA BeginMarks ==
  ASSUME IInv, NEW c \in Calls, NEW o, NEW phase, NEW u, NEW s, Begin(c, o, phase, u, s),
         UNCHANGED <<session, mark>>,
         phase # "revokeAll", phase \in Answers => u = NoUser,
         phase = "change" => u \in Users, phase # "idle"
  PROVE  MarksInv'
<1>1. OthersStay(c)
  BY TypeFacts DEF Begin, OthersStay
<1>2. pc[c] = "idle" /\ pc'[c] = phase /\ who'[c] = u
  BY TypeFacts DEF Begin
<1>3. mark'[c] # "outdated"
  BY <1>2, NothingCarried DEF IInv
<1>4. \A r \in Sessions : Live(r)' =>
        Live(r) /\ session'[r].mark = session[r].mark /\ session'[r].user = session[r].user
  BY DEF Live
<1>5. MarksInv
  BY DEF IInv
<1> QED
  BY <1>1, <1>2, <1>3, <1>4, <1>5, RowsMarked, CallStep

\* A step that leaves the user, the mark and the rows of a call as they are.
LEMMA MoveMarks ==
  ASSUME IInv, NEW c \in Calls, NEW phase, Goto(c, phase), UNCHANGED <<op, who, mark>>,
         pc[c] # "revokeAll", phase \notin Answers \union {"idle", "change", "revokeAll"},
         \A s \in Sessions : Live(s)' =>
           Live(s) /\ session'[s].mark = session[s].mark /\ session'[s].user = session[s].user
  PROVE  MarksInv'
<1>1. OthersStay(c) /\ pc'[c] = phase
  BY TypeFacts DEF Goto, OthersStay
<1>2. mark'[c] = "outdated" => SignsIn(c)' /\ Revoking(who'[c])
  BY DEF IInv, MarksInv, CallsMarked, SignsIn
<1>3. MarksInv
  BY DEF IInv
<1> QED
  BY <1>1, <1>2, <1>3, RowsMarked, CallStep

LEMMA IssueMarks ==
  ASSUME IInv, NEW c \in Calls, NEW s \in Sessions, Issue(c, s)
  PROVE  MarksInv'
<1>1. OthersStay(c)
  BY TypeFacts DEF Issue, Answering, OthersStay
<1>2. /\ pc[c] = "issue" /\ who'[c] = NoUser /\ mark'[c] = "current"
      /\ pc'[c] \in Answers \union {"idle"}
      /\ session' = [session EXCEPT ![s] = [status |-> "live", user |-> who[c], mark |-> mark[c]]]
  BY TypeFacts DEF Issue, Answering, Answers
<1>3. MarksInv
  BY DEF IInv
<1>4. ASSUME NEW r \in Sessions, Live(r)', session'[r].mark = "outdated"
      PROVE  Revoking(session'[r].user)
  <2>1. CASE r = s
    <3>1. session'[r].user = who[c] /\ session'[r].mark = mark[c]
      BY <1>2, <2>1, TypeFacts
    <3> QED
      BY <1>3, <1>4, <3>1 DEF MarksInv, CallsMarked
  <2>2. CASE r # s
    <3>1. session'[r] = session[r]
      BY <1>2, <2>2, TypeFacts
    <3> QED
      BY <1>3, <1>4, <3>1 DEF MarksInv, SessionsMarked, Live
  <2> QED
    BY <2>1, <2>2
<1> QED
  BY <1>1, <1>2, <1>3, <1>4, CallStep DEF Answers

LEMMA StepMarks ==
  ASSUME IInv, NEW c \in Calls, AccountSteps(c)
  PROVE  MarksInv'
<1>0. session' = session => \A s \in Sessions : Live(s)' =>
        Live(s) /\ session'[s].mark = session[s].mark /\ session'[s].user = session[s].user
  BY DEF Live
<1>1. CASE WrongPassword(c) \/ RefuseHomeless(c) \/ RefuseChange(c) \/ SaveNew(c) \/ Save(c)
  <2>1. session' = session /\ pc[c] # "revokeAll" /\ \E how \in Answers : Answer(c, how)
    BY <1>1 DEF WrongPassword, RefuseHomeless, RefuseChange, SaveNew, Save, accountVars, Answers
  <2> QED
    BY <1>0, <2>1, AnswerMarks
<1>2. CASE RightPassword(c) \/ FindUser(c)
  <2>1. /\ session' = session /\ pc[c] # "revokeAll" /\ UNCHANGED <<op, who, mark>>
        /\ \E phase \in {"issue", "rotate", "revoke"} : Goto(c, phase)
    BY <1>2 DEF RightPassword, FindUser, accountVars
  <2> QED
    BY <1>0, <2>1, MoveMarks DEF Answers
<1>3. CASE Rotate(c) \/ Revoke(c)
  <2>1. session' = [session EXCEPT ![with[c]].status = "revoked"] /\ pc[c] # "revokeAll"
    BY <1>3 DEF Rotate, Revoke
  <2>2. \A s \in Sessions : Live(s)' =>
          Live(s) /\ session'[s].mark = session[s].mark /\ session'[s].user = session[s].user
    BY <2>1, TypeFacts DEF Live, Session
  <2>3. CASE Rotate(c)
    BY <2>1, <2>2, <2>3, MoveMarks DEF Rotate, Answers
  <2>4. CASE Revoke(c)
    BY <2>1, <2>2, <2>4, AnswerMarks DEF Revoke, Answers
  <2> QED
    BY <1>3, <2>3, <2>4
<1>4. CASE ChangePassword(c)
  <2>1. /\ pc[c] = "change" /\ RemarkAll(who[c], "current", "outdated")
        /\ \A d \in Calls \ {c} : pc'[d] = pc[d] /\ op'[d] = op[d] /\ who'[d] = who[d]
        /\ pc'[c] = "revokeAll" /\ who'[c] = who[c] /\ op'[c] = op[c]
    BY <1>4, TypeFacts DEF ChangePassword, Goto
  <2>2. PICK u \in Users : u = who[c]
    BY <2>1 DEF IInv, MarksInv, Changing
  <2>3. RemarkAll(u, "current", "outdated")
    BY <2>1, <2>2
  <2>4. pc[c] # "revokeAll"
    BY <2>1
  <2>5. \A d \in Calls \ {c} : pc'[d] = pc[d] /\ op'[d] = op[d] /\ who'[d] = who[d]
    BY <2>1
  <2>6. pc'[c] = "revokeAll" /\ who'[c] = u
    BY <2>1, <2>2
  <2>7. who[c] = u /\ op'[c] = op[c]
    BY <2>1, <2>2
  <2> HIDE <2>2
  <2> QED
    BY <2>3, <2>4, <2>5, <2>6, <2>7, RevocationBegins
<1>5. CASE RevokeAll(c)
  <2>1. /\ pc[c] = "revokeAll" /\ RemarkCalls(who[c], "outdated", "missed")
        /\ \A d \in Calls \ {c} : pc'[d] = pc[d] /\ op'[d] = op[d] /\ who'[d] = who[d]
        /\ pc'[c] \in Answers \union {"idle"} /\ who'[c] = NoUser
    BY <1>5, TypeFacts DEF RevokeAll, Answering, Answers
  <2>2. \A s \in Sessions : Live(s)' =>
          Live(s) /\ session'[s] = session[s] /\ session[s].user # who[c]
    BY <1>5, TypeFacts DEF RevokeAll, SessionsOf, Live, Session
  <2> QED
    BY <2>1, <2>2, RevocationEnds
<1> QED
  BY <1>1, <1>2, <1>3, <1>4, <1>5 DEF AccountSteps

LEMMA ArrivalMarks ==
  ASSUME IInv, NEW c \in Calls,
         \/ \E u \in Users : FindForLogin(c, u) \/ RefuseLogin(c, u)
         \/ \E s \in Sessions \union {NoSession} :
              \/ FindSession(c, s) \/ RefuseSession(c, s)
              \/ FindToLogout(c, s) \/ NothingToRevoke(c, s)
  PROVE  MarksInv'
<1>1. ASSUME NEW u \in Users, FindForLogin(c, u) \/ RefuseLogin(c, u) PROVE MarksInv'
  <2>1. /\ UNCHANGED <<session, mark>>
        /\ \/ Begin(c, "login", "compare", u, NoSession)
           \/ Begin(c, "login", "refused", NoUser, NoSession)
    BY <1>1 DEF FindForLogin, RefuseLogin, accountVars
  <2> QED
    BY <2>1, BeginMarks DEF Answers
<1>2. ASSUME NEW s \in Sessions \union {NoSession},
             RefuseSession(c, s) \/ FindToLogout(c, s) \/ NothingToRevoke(c, s)
      PROVE  MarksInv'
  <2>1. /\ UNCHANGED <<session, mark>>
        /\ \/ Begin(c, "refresh", "refused", NoUser, NoSession)
           \/ Begin(c, "logout", "revoke", session[s].user, s)
           \/ Begin(c, "logout", "ok", NoUser, NoSession)
    BY <1>2 DEF RefuseSession, FindToLogout, NothingToRevoke, accountVars
  <2> QED
    BY <2>1, BeginMarks DEF Answers
\* A refresh takes the mark of the live session that lets it in.
<1>3. ASSUME NEW s \in Sessions \union {NoSession}, FindSession(c, s) PROVE MarksInv'
  <2>1. s \in Sessions /\ Live(s) /\ session' = session
    BY <1>3 DEF FindSession, Usable, Live, accountVars
  <2>2. /\ pc[c] = "idle" /\ pc'[c] = "findUser" /\ op'[c] = "refresh"
        /\ who'[c] = session[s].user /\ mark'[c] = session[s].mark /\ OthersStay(c)
    BY <1>3, TypeFacts DEF FindSession, Begin, OthersStay
  <2>3. MarksInv /\ (mark'[c] = "outdated" => Revoking(who'[c]))
    BY <2>1, <2>2 DEF IInv, MarksInv, SessionsMarked
  <2>4. \A r \in Sessions : Live(r)' =>
          Live(r) /\ session'[r].mark = session[r].mark /\ session'[r].user = session[r].user
    BY <2>1 DEF Live
  <2> QED
    BY <2>2, <2>3, <2>4, RowsMarked, CallStep DEF SignsIn, Answers
<1> QED
  BY <1>1, <1>2, <1>3

LEMMA AdministrationMarks ==
  ASSUME IInv, NEW c \in Calls, NEW u \in Users, AccountAdministration(c, u)
  PROVE  MarksInv'
<1>1. CASE \/ FindToChange(c, u) \/ FindNew(c, u) \/ FindToRestore(c, u)
           \/ FindToUpdate(c, u) \/ FindToDelete(c, u)
  <2>1. /\ UNCHANGED <<session, mark>>
        /\ \/ Begin(c, "changePassword", "change", u, NoSession)
           \/ \E o : Begin(c, o, "saveNew", u, NoSession) \/ Begin(c, o, "save", u, NoSession)
    BY <1>1 DEF FindToChange, FindNew, FindToRestore, FindToUpdate, FindToDelete, accountVars
  <2> QED
    BY <2>1, BeginMarks DEF Answers
<1>2. CASE Disable(c, u)
  <2>1. /\ pc[c] = "idle" /\ RemarkAll(u, "current", "outdated")
        /\ \A d \in Calls \ {c} : pc'[d] = pc[d] /\ op'[d] = op[d] /\ who'[d] = who[d]
        /\ pc'[c] = "revokeAll" /\ who'[c] = u
    BY <1>2, TypeFacts DEF Disable, Begin
  <2>2. mark[c] # "outdated" /\ who[c] # u
    BY <2>1, NothingCarried, AccountNames DEF IInv
  <2> QED
    BY <2>1, <2>2, RevocationBegins
<1>3. CASE Enable(c, u)
  BY <1>3 DEF Enable, callVars, IInv, MarksInv, SessionsMarked, CallsMarked, Resting, Changing,
     Revoking, SignsIn, Live
<1> QED
  BY <1>1, <1>2, <1>3 DEF AccountAdministration

LEMMA FaultMarks ==
  ASSUME IInv, NEW c \in Calls, AccountFaults(c)
  PROVE  MarksInv'
<1>1. CASE Fail(c) \/ LoseAnswer(c)
  <2>1. Answer(c, "failed") /\ session' = session /\ pc[c] # "revokeAll"
    BY <1>1 DEF Fail, LoseAnswer, accountVars, Answers
  <2>2. \A s \in Sessions : Live(s)' =>
          Live(s) /\ session'[s].mark = session[s].mark /\ session'[s].user = session[s].user
    BY <2>1 DEF Live
  <2> QED
    BY <2>1, <2>2, AnswerMarks DEF Answers
<1>2. CASE RevocationFails(c)
  <2>1. /\ pc[c] = "revokeAll" /\ RemarkCalls(who[c], "outdated", "missed")
        /\ \A d \in Calls \ {c} : pc'[d] = pc[d] /\ op'[d] = op[d] /\ who'[d] = who[d]
        /\ pc'[c] \in Answers \union {"idle"} /\ who'[c] = NoUser
    BY <1>2, TypeFacts DEF RevocationFails, RemarkAll, Answering, Answers
  <2>2. ASSUME NEW s \in Sessions, Live(s)', session'[s].mark = "outdated"
        PROVE  session'[s] = session[s] /\ session[s].user # who[c]
    <3>1. CASE session[s].user = who[c] /\ session[s].mark = "outdated"
      <4>1. session'[s] = [session[s] EXCEPT !.mark = "missed"]
        BY <1>2, <3>1 DEF RevocationFails, RemarkAll
      <4> QED
        BY <2>2, <4>1, TypeFacts DEF Session
    <3>2. CASE ~(session[s].user = who[c] /\ session[s].mark = "outdated")
      <4>1. session'[s] = session[s]
        BY <1>2, <3>2 DEF RevocationFails, RemarkAll
      <4> QED
        BY <2>2, <3>2, <4>1
    <3> QED
      BY <3>1, <3>2
  <2>3. \A s \in Sessions : Live(s)' /\ session'[s].mark = "outdated" =>
          /\ session'[s].user # who[c] /\ session'[s].user = session[s].user
          /\ Live(s) /\ session[s].mark = "outdated"
    BY <2>2 DEF Live
  <2> QED
    BY <2>1, <2>3, RevocationEnds
<1> QED
  BY <1>1, <1>2 DEF AccountFaults

\* An answer that reaches its client carries no user and no mark.
LEMMA EndMarks ==
  ASSUME IInv, NEW c \in Calls, pc[c] \in Answers, End(c), UNCHANGED accountVars
  PROVE  MarksInv'
<1>1. OthersStay(c) /\ pc[c] # "revokeAll" /\ pc'[c] = "idle"
  BY TypeFacts DEF End, OthersStay, Answers
<1>2. who'[c] = NoUser /\ mark'[c] # "outdated"
  BY NothingCarried DEF End, IInv
<1>3. MarksInv /\ session' = session
  BY DEF IInv, accountVars
<1> QED
  BY <1>1, <1>2, <1>3, CallStep DEF Live, MarksInv, SessionsMarked

LEMMA RestMarks ==
  ASSUME IInv, UNCHANGED callVars,
         \A s \in Sessions : Live(s)' =>
           Live(s) /\ session'[s].mark = session[s].mark /\ session'[s].user = session[s].user
  PROVE  MarksInv'
BY DEF callVars, IInv, MarksInv, SessionsMarked, CallsMarked, Resting, Changing,
   Revoking, SignsIn

LEMMA ClockMarks ==
  ASSUME IInv, Clock
  PROVE  MarksInv'
<1>1. UNCHANGED callVars
  BY DEF Clock, LockEnds, Expire
<1>2. \A s \in Sessions : Live(s)' =>
        Live(s) /\ session'[s].mark = session[s].mark /\ session'[s].user = session[s].user
  BY TypeFacts DEF Clock, LockEnds, Expire, Live, Session
<1> QED
  BY <1>1, <1>2, RestMarks

-----------------------------------------------------------------------------
LEMMA InitIInv == Init => IInv
<1> SUFFICES ASSUME Init PROVE IInv
  OBVIOUS
<1>1. \A u \in Users : account[u] \in Account
  BY AccountFacts DEF Init, AccountsInit
<1>2. session \in [Sessions -> Session] /\ \A s \in Sessions : session[s].mark = "current"
  <2>1. PICK u \in Users : session = [s \in Sessions |->
          IF s = cookie THEN [NoRow EXCEPT !.status = "live", !.user = u] ELSE NoRow]
    BY DEF Init
  <2>2. NoRow \in Session /\ NoRow.mark = "current"
    BY DEF NoRow, Session, Marks
  <2> DEFINE signedIn == [NoRow EXCEPT !.status = "live", !.user = u]
  <2>3. signedIn \in Session /\ signedIn.mark = "current"
    BY <2>2 DEF Session
  <2>4. session = [s \in Sessions |-> IF s = cookie THEN signedIn ELSE NoRow]
    BY <2>1
  <2> HIDE DEF signedIn
  <2> QED
    BY <2>2, <2>3, <2>4
<1>3. RowTypes
  BY <1>1, <1>2, AccountFacts DEF Init, AccountsInit, RowTypes
<1>4. CallTypes
  BY AccountFacts DEF Init, AccountsInit, CallTypes, Phases, Answers, Marks
<1>5. BrowserTypes
  BY <1>3, MixRows DEF Init, BrowserTypes, RowTypes, NoRequest, Req
<1>6. TypeOK
  BY <1>3, <1>4, <1>5, TypesOfBrowser
<1>7. Senders
  BY DEF Init, Senders, NoRequest
<1>8. MarksInv
  BY <1>2 DEF Init, AccountsInit, MarksInv, SessionsMarked, CallsMarked, Resting, Changing,
     Answers
<1> QED
  BY <1>6, <1>7, <1>8 DEF IInv

\* What a call or the clock does leaves the tabs as they are.
LEMMA AccountsKeep ==
  ASSUME IInv, UNCHANGED browserVars, RowTypes', CallTypes', MarksInv'
  PROVE  IInv'
<1>1. BrowserTypes'
  BY TypesOfBrowser DEF IInv, BrowserTypes, browserVars
<1>2. TypeOK'
  BY <1>1 DEF TypeOK, AccountsTypeOK, RowTypes, CallTypes, BrowserTypes, Req
<1>3. Senders'
  BY DEF IInv, Senders, browserVars
<1> QED
  BY <1>2, <1>3 DEF IInv

LEMMA CallKeeps ==
  ASSUME IInv, NEW c \in Calls, UNCHANGED browserVars,
         \/ AccountSteps(c) \/ IssueRow(c) \/ DeviceCall(c) \/ AccountFaults(c)
  PROVE  IInv'
<1>0. RowTypes /\ CallTypes
  BY TypesOfBrowser DEF IInv
<1>1. CASE AccountSteps(c)
  <2>1. RowTypes' /\ CallTypes'
    BY <1>0, <1>1, LoginTypes, RefreshTypes, RevocationTypes, SaveTypes DEF AccountSteps
  <2> QED
    BY <1>1, <2>1, StepMarks, AccountsKeep
<1>2. CASE IssueRow(c)
  <2>1. NewRow(c) \in Sessions /\ Issue(c, NewRow(c))
    BY <1>0, <1>2, NewRowType DEF IssueRow
  <2>2. RowTypes' /\ CallTypes'
    BY <1>0, <2>1, IssueTypes
  <2>3. MarksInv'
    BY <2>1, IssueMarks
  <2> QED
    BY <2>2, <2>3, AccountsKeep
<1>3. CASE DeviceCall(c)
  <2>1. CASE \/ \E u \in Users : FindForLogin(c, u)
             \/ \E s \in Sessions : FindSession(c, s) \/ FindToLogout(c, s)
    BY <1>0, <2>1, ArrivalTypes, ArrivalMarks, AccountsKeep
  <2>2. CASE \E u \in Users : AccountAdministration(c, u)
    BY <1>0, <2>2, AdministrationTypes, AdministrationMarks, AccountsKeep
  <2> QED
    BY <1>3, <2>1, <2>2 DEF DeviceCall
<1>4. CASE AccountFaults(c)
  <2>1. RowTypes' /\ CallTypes'
    BY <1>0, <1>4, FaultTypes, RevocationTypes DEF AccountFaults
  <2> QED
    BY <1>4, <2>1, FaultMarks, AccountsKeep
<1> QED
  BY <1>1, <1>2, <1>3, <1>4

LEMMA TabKeeps ==
  ASSUME IInv, NEW t \in Tabs,
         \/ OpenTab(t) \/ CloseTab(t) \/ Login(t) \/ Logout(t)
         \/ PageSignedIn(t) \/ PageSignedOut(t)
         \/ Refreshed(t) \/ RefreshFailed(t)
         \/ \E r \in Requests : Send(r, t)
  PROVE  IInv'
<1>0. /\ TypeOK /\ RowTypes /\ CallTypes /\ BrowserTypes /\ Senders
      /\ Page(t) \in Calls /\ Interceptor(t) \in Calls
  BY TypesOfBrowser, TabCalls DEF IInv
<1>1. BrowserTypes'
  BY <1>0, TabTypes
<1>2. Senders'
  <2>1. CASE \/ OpenTab(t) \/ CloseTab(t) \/ Login(t) \/ Logout(t)
             \/ PageSignedIn(t) \/ PageSignedOut(t)
    <3>1. request' = request
      BY <2>1 DEF OpenTab, CloseTab, Login, Logout, PageSignedIn, PageSignedOut, browserVars
    <3> QED
      BY <1>0, <3>1, SendersKept
  <2>2. CASE Refreshed(t) \/ RefreshFailed(t) \/ \E r \in Requests : Send(r, t)
    BY <1>0, <2>2, SendersKept
  <2> QED
    BY <2>1, <2>2
<1>3. RowTypes' /\ CallTypes' /\ MarksInv'
  <2>1. CASE OpenTab(t) \/ Login(t) \/ Logout(t)
    <3>1. \/ \E u \in Users : FindForLogin(Page(t), u) \/ RefuseLogin(Page(t), u)
          \/ \E s \in Sessions \union {NoSession} :
               \/ FindSession(Page(t), s) \/ RefuseSession(Page(t), s)
               \/ FindToLogout(Page(t), s) \/ NothingToRevoke(Page(t), s)
      BY <1>0, <2>1 DEF OpenTab, Login, Logout, BrowserTypes
    <3> QED
      BY <1>0, <3>1, ArrivalTypes, ArrivalMarks
  <2>2. CASE CloseTab(t) \/ \E r \in Requests : Send(r, t)
    <3>1. UNCHANGED <<mix, account, session, callVars>>
      BY <2>2 DEF CloseTab, Send, accountVars
    <3> QED
      BY <1>0, <3>1, RestMarks DEF RowTypes, CallTypes, callVars, Live
  <2>3. CASE PageSignedIn(t) \/ PageSignedOut(t)
    <3>1. pc[Page(t)] \in Answers /\ End(Page(t)) /\ UNCHANGED accountVars
      BY <2>3 DEF PageSignedIn, PageSignedOut, Answered, Answers
    <3> QED
      BY <1>0, <3>1, EndTypes, EndMarks
  <2>4. CASE Refreshed(t) \/ RefreshFailed(t)
    <3>1. pc[Interceptor(t)] \in Answers /\ End(Interceptor(t)) /\ UNCHANGED accountVars
      BY <2>4 DEF Refreshed, RefreshFailed, Answered, Answers
    <3> QED
      BY <1>0, <3>1, EndTypes, EndMarks
  <2> QED
    BY <2>1, <2>2, <2>3, <2>4
<1>4. TypeOK'
  BY <1>1, <1>3 DEF TypeOK, AccountsTypeOK, RowTypes, CallTypes, BrowserTypes, Req
<1> QED
  BY <1>2, <1>3, <1>4 DEF IInv

LEMMA ProceedKeeps ==
  ASSUME IInv, NEW r \in Requests, Proceed(r)
  PROVE  IInv'
<1>0. TypeOK /\ RowTypes /\ CallTypes /\ BrowserTypes /\ Senders
  BY TypesOfBrowser DEF IInv
<1>1. BrowserTypes' /\ Senders'
  BY <1>0, RequestTypes, SendersKept
<1>2. RowTypes' /\ CallTypes' /\ MarksInv'
  <2>1. CASE Settle(r) \/ ShareRefresh(r)
    <3>1. UNCHANGED <<mix, account, session, callVars>>
      BY <2>1 DEF Settle, ShareRefresh, accountVars
    <3> QED
      BY <1>0, <3>1, RestMarks DEF RowTypes, CallTypes, callVars, Live
  <2>2. CASE StartRefresh(r)
    <3> DEFINE c == Interceptor(request[r].from)
    <3>1. request[r].phase = "sent"
      BY <2>2 DEF StartRefresh, Unauthorized
    <3>2. request[r].from \in Tabs
      BY <1>0, <3>1 DEF Senders
    <3>3. c \in Calls /\ cookie \in Sessions \union {NoSession}
      BY <1>0, <3>2, TabCalls DEF BrowserTypes
    <3>4. FindSession(c, cookie) \/ RefuseSession(c, cookie)
      BY <2>2 DEF StartRefresh
    <3> HIDE DEF c
    <3> QED
      BY <1>0, <3>3, <3>4, ArrivalTypes, ArrivalMarks
  <2> QED
    BY <2>1, <2>2 DEF Proceed
<1>3. TypeOK'
  BY <1>1, <1>2 DEF TypeOK, AccountsTypeOK, RowTypes, CallTypes, BrowserTypes, Req
<1> QED
  BY <1>1, <1>2, <1>3 DEF IInv

LEMMA NextIInv == IInv /\ [Next]_vars => IInv'
<1> SUFFICES ASSUME IInv, [Next]_vars PROVE IInv'
  OBVIOUS
<1>1. ASSUME NEW c \in Calls, Progress(c) PROVE IInv'
  <2>1. CASE (AccountSteps(c) \/ IssueRow(c)) /\ UNCHANGED browserVars
    BY <2>1, CallKeeps
  <2>2. CASE \E t \in Tabs : \/ c = Page(t) /\ (PageSignedIn(t) \/ PageSignedOut(t))
                             \/ c = Interceptor(t) /\ (Refreshed(t) \/ RefreshFailed(t))
    BY <2>2, TabKeeps
  <2> QED
    BY <1>1, <2>1, <2>2 DEF Progress
<1>2. ASSUME NEW r \in Requests, Proceed(r) PROVE IInv'
  BY <1>2, ProceedKeeps
<1>3. CASE Environment
  <2>1. CASE \E t \in Tabs : \/ OpenTab(t) \/ CloseTab(t) \/ Login(t) \/ Logout(t)
                             \/ \E r \in Requests : Send(r, t)
    BY <2>1, TabKeeps
  <2>2. ASSUME NEW c \in Devices, DeviceCall(c), UNCHANGED browserVars PROVE IInv'
    BY <2>2, DeviceNames, CallKeeps
  <2>3. ASSUME NEW c \in Calls, AccountFaults(c), UNCHANGED browserVars PROVE IInv'
    BY <2>3, CallKeeps
  <2>4. CASE Clock /\ UNCHANGED browserVars
    <3>1. RowTypes' /\ CallTypes' /\ MarksInv'
      BY <2>4, TypesOfBrowser, ClockTypes, ClockMarks DEF IInv
    <3> QED
      BY <2>4, <3>1, AccountsKeep
  <2> QED
    BY <1>3, <2>1, <2>2, <2>3, <2>4 DEF Environment
<1>4. CASE UNCHANGED vars
  <2>1. UNCHANGED <<mix, account, session, callVars, browserVars>>
    BY <1>4 DEF vars, accountVars
  <2>2. RowTypes' /\ CallTypes'
    BY <2>1, TypesOfBrowser DEF IInv, RowTypes, CallTypes, callVars
  <2>3. MarksInv'
    BY <2>1, RestMarks DEF Live
  <2> QED
    BY <2>1, <2>2, <2>3, AccountsKeep
<1> QED
  BY <1>1, <1>2, <1>3, <1>4 DEF Next

LEMMA SpecIInv == Spec => []IInv
BY InitIInv, NextIInv, PTL DEF Spec

\* The state of the accounts, the tabs and their requests keeps its type: the
\* failure counter below its limit, every session of a user there is.
THEOREM TypeCorrect == Spec => []TypeOK
<1>1. IInv => TypeOK
  BY DEF IInv
<1> QED
  BY <1>1, SpecIInv, PTL

\* Whatever logins, refreshes and revocations interleave, a live session let
\* in by a password or a use flag that no longer holds belongs to a user whose
\* sessions are about to be revoked.
THEOREM OldCredentialsEnd == Spec => []OldCredentialsAreOut
<1>1. IInv => OldCredentialsAreOut
  BY DEF IInv, MarksInv, SessionsMarked, Revoking, OldCredentialsAreOut
<1> QED
  BY <1>1, SpecIInv, PTL
=============================================================================
