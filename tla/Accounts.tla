------------------------------- MODULE Accounts -------------------------------
(***************************************************************************)
(* User accounts and refresh sessions: auth.service.ts, system.service.ts  *)
(* and the user operations of mdm.service.ts.                              *)
(*                                                                         *)
(* Each statement is a transaction of its own, so the calls interleave     *)
(* between any two of them.  Passwords are left out: a comparison may turn *)
(* out either way.                                                         *)
(***************************************************************************)
EXTENDS Naturals

CONSTANTS
  Users, NoUser,
  Sessions, NoSession, \* rows of auth_refresh_session
  MaxFailed,           \* PASSWORD_MAX_FAILED
  Calls,
  Devices,             \* calls whose answers change nothing that is modelled
  Mixes                \* a behaviour has the clients, operations and rows of one of them

ASSUME AccountNames == NoUser \notin Users /\ NoSession \notin Sessions
ASSUME DeviceNames == Devices \subseteq Calls
ASSUME MaxFailedAssumption == MaxFailed \in Nat \ {0}

VARIABLES
  mix,      \* the clients, operations and rows of this behaviour, constant
  account,  \* users rows
  session,  \* auth_refresh_session rows
  pc, op,   \* per call: where it is, its operation
  who, with, \* per call: its user and its session
  copy,     \* per call: the users row it has read
  mark      \* history, per call: the credentials behind it

accountVars == <<mix, account, session>>
callVars == <<pc, op, who, with, copy, mark>>

\* home: the scope is COMPANY, or there is a home plant.
Account == [status: {"none", "live", "deleted"}, use: BOOLEAN, home: BOOLEAN,
            fails: 0..MaxFailed - 1, locked: BOOLEAN]
NoAccount == [status |-> "none", use |-> FALSE, home |-> FALSE, fails |-> 0, locked |-> FALSE]
NewAccount == [NoAccount EXCEPT !.status = "live", !.use = TRUE, !.home = TRUE]

\* History: "outdated" once the password has changed or the user was disabled,
\* "missed" when the revocation that follows has been and gone.
Marks == {"current", "outdated", "missed"}
Session == [status: {"none", "live", "revoked"},
            user: Users \union {NoUser}, mark: Marks]
NoRow == [status |-> "none", user |-> NoUser, mark |-> "current"]

Operations == {"login", "refresh", "logout", "changePassword", "setUse",
               "signUp", "saveUser", "updateUser", "deleteUser"}
Answers == {"ok", "refused", "failed"} \* 2xx, 401 and 400, none or 500
Phases == Answers \union {"idle", "compare", "findUser", "rotate", "revoke", "issue",
                          "change", "revokeAll", "saveNew", "save"}

AccountsTypeOK ==
  /\ mix \in Mixes
  /\ account \in [Users -> Account]
  /\ session \in [Sessions -> Session]
  /\ pc \in [Calls -> Phases]
  /\ op \in [Calls -> Operations \union {"none"}]
  /\ who \in [Calls -> Users \union {NoUser}]
  /\ with \in [Calls -> Sessions \union {NoSession}]
  /\ copy \in [Calls -> Account]
  /\ mark \in [Calls -> Marks]

AccountsInit ==
  /\ mix \in Mixes
  /\ account \in [Users -> {NoAccount, NewAccount}]
  /\ pc = [c \in Calls |-> "idle"]
  /\ op = [c \in Calls |-> "none"]
  /\ who = [c \in Calls |-> NoUser]
  /\ with = [c \in Calls |-> NoSession]
  /\ copy = [c \in Calls |-> NoAccount]
  /\ mark = [c \in Calls |-> "current"]

-----------------------------------------------------------------------------
Active(u) == account[u].status = "live" /\ account[u].use
Live(s) == s # NoSession /\ session[s].status = "live"

Begin(c, o, phase, u, s) ==
  /\ pc[c] = "idle" /\ c \in mix.clients /\ o \in mix.operations
  /\ op' = [op EXCEPT ![c] = o]
  /\ pc' = [pc EXCEPT ![c] = phase]
  /\ who' = [who EXCEPT ![c] = u]
  /\ with' = [with EXCEPT ![c] = s]
Goto(c, phase) == pc' = [pc EXCEPT ![c] = phase]
Read(c, a) == copy' = [copy EXCEPT ![c] = a]
\* The answer is on its way to the client.
Answering(c, how) ==
  /\ pc' = [pc EXCEPT ![c] = IF c \in Devices THEN "idle" ELSE how]
  /\ op' = [op EXCEPT ![c] = IF c \in Devices THEN "none" ELSE @]
Answer(c, how) ==
  /\ Answering(c, how) /\ Read(c, NoAccount)
  /\ who' = [who EXCEPT ![c] = NoUser]
  /\ with' = [with EXCEPT ![c] = NoSession]
  /\ mark' = [mark EXCEPT ![c] = "current"]

\* The client has the answer.
End(c) ==
  /\ pc' = [pc EXCEPT ![c] = "idle"]
  /\ op' = [op EXCEPT ![c] = "none"]
  /\ with' = [with EXCEPT ![c] = NoSession]
  /\ UNCHANGED <<who, copy, mark>>

-----------------------------------------------------------------------------
(***************************************************************************)
(* login.                                                                  *)
(***************************************************************************)
\* The user is read; an inactive or a locked one is refused.
FindForLogin(c, u) ==
  /\ Active(u) /\ ~account[u].locked
  /\ Begin(c, "login", "compare", u, NoSession) /\ Read(c, account[u])
  /\ UNCHANGED <<accountVars, mark>>
RefuseLogin(c, u) ==
  /\ ~Active(u) \/ account[u].locked
  /\ Begin(c, "login", "refused", NoUser, NoSession)
  /\ UNCHANGED <<accountVars, copy, mark>>

\* Mutant of Failed: the account is locked one failure too late.
FailedTooOften(n) == n > MaxFailed
Failed(n) == n >= MaxFailed
\* Mutant of CountFailure: the count that was read is written back.
KeepCount(a, read) == [a EXCEPT !.fails = read.fails]
\* The failures counted in the row that was read, plus one.
CountFailure(a, read) ==
  IF Failed(read.fails + 1) THEN [a EXCEPT !.fails = 0, !.locked = TRUE]
  ELSE [a EXCEPT !.fails = read.fails + 1]

WrongPassword(c) ==
  /\ pc[c] = "compare"
  /\ account' = [account EXCEPT ![who[c]] = CountFailure(@, copy[c])]
  /\ Answer(c, "refused") /\ UNCHANGED <<mix, session>>

\* A PLANT user needs a home plant.
RefuseHomeless(c) ==
  /\ pc[c] = "compare" /\ ~copy[c].home
  /\ Answer(c, "refused") /\ UNCHANGED accountVars

RightPassword(c) ==
  /\ pc[c] = "compare" /\ copy[c].home
  /\ account' = [account EXCEPT ![who[c]].fails = 0, ![who[c]].locked = FALSE]
  /\ Goto(c, "issue")
  /\ UNCHANGED <<mix, session, op, who, with, copy, mark>>

\* issueRefreshSession.
Issue(c, s) ==
  /\ pc[c] = "issue"
  /\ session' = [session EXCEPT ![s] = [status |-> "live", user |-> who[c], mark |-> mark[c]]]
  /\ Answering(c, "ok") /\ Read(c, NoAccount)
  /\ who' = [who EXCEPT ![c] = NoUser]
  /\ with' = [with EXCEPT ![c] = IF c \in Devices THEN NoSession ELSE s]
  /\ mark' = [mark EXCEPT ![c] = "current"]
  /\ UNCHANGED <<mix, account>>

\* accountLockedUntil passes.
LockEnds(u) ==
  /\ account[u].locked
  /\ account' = [account EXCEPT ![u].locked = FALSE]
  /\ UNCHANGED <<mix, session, callVars>>

-----------------------------------------------------------------------------
(***************************************************************************)
(* refresh and logout.                                                     *)
(***************************************************************************)
\* A token verifies until it expires, whether its session is revoked or not;
\* refresh needs a session that is not.  Known is also a mutant of Usable.
Known(s) == s # NoSession /\ session[s].status # "none"
Usable(s) == Live(s)

\* The session of the token is read; a token of a later hash does not occur.
FindSession(c, s) ==
  /\ Usable(s)
  /\ Begin(c, "refresh", "findUser", session[s].user, s)
  /\ mark' = [mark EXCEPT ![c] = session[s].mark]
  /\ UNCHANGED <<accountVars, copy>>
RefuseSession(c, s) ==
  /\ ~Usable(s)
  /\ Begin(c, "refresh", "refused", NoUser, NoSession)
  /\ UNCHANGED <<accountVars, copy, mark>>

\* The user is read; the session of one that may not sign in is revoked.
FindUser(c) ==
  /\ pc[c] = "findUser"
  /\ Goto(c, IF Active(who[c]) /\ account[who[c]].home THEN "rotate" ELSE "revoke")
  /\ UNCHANGED <<accountVars, op, who, with, copy, mark>>

\* rotateRefreshSession: the row is revoked, whoever has revoked it meanwhile.
Rotate(c) ==
  /\ pc[c] = "rotate"
  /\ session' = [session EXCEPT ![with[c]].status = "revoked"]
  /\ Goto(c, "issue") /\ with' = [with EXCEPT ![c] = NoSession]
  /\ UNCHANGED <<mix, account, op, who, copy, mark>>

\* revokeRefreshSession, at the end of a refused refresh or of a logout.
Revoke(c) ==
  /\ pc[c] = "revoke"
  /\ session' = [session EXCEPT ![with[c]].status = "revoked"]
  /\ Answer(c, IF op[c] = "logout" THEN "ok" ELSE "refused")
  /\ UNCHANGED <<mix, account>>

FindToLogout(c, s) ==
  /\ Known(s)
  /\ Begin(c, "logout", "revoke", session[s].user, s)
  /\ UNCHANGED <<accountVars, copy, mark>>
NothingToRevoke(c, s) ==
  /\ ~Known(s) /\ Begin(c, "logout", "ok", NoUser, NoSession)
  /\ UNCHANGED <<accountVars, copy, mark>>

\* The token no longer verifies, nor is the session found alive.
Expire(s) ==
  /\ Live(s) /\ session' = [session EXCEPT ![s].status = "none"]
  /\ UNCHANGED <<mix, account, callVars>>

-----------------------------------------------------------------------------
(***************************************************************************)
(* changePassword, updateUserUseYn and the revocation that follows.        *)
(***************************************************************************)
SessionsOf(u) == {s \in Sessions : session[s].user = u /\ Live(s)}
\* The mark m of what belongs to user u becomes n.
RemarkCalls(u, m, n) ==
  mark' = [d \in Calls |->
    IF who[d] = u /\ op[d] \in {"login", "refresh"} /\ mark[d] = m THEN n ELSE mark[d]]
RemarkAll(u, m, n) ==
  /\ RemarkCalls(u, m, n)
  /\ session' = [s \in Sessions |->
       IF session[s].user = u /\ session[s].mark = m THEN [session[s] EXCEPT !.mark = n]
       ELSE session[s]]

FindToChange(c, u) ==
  /\ account[u].status = "live"
  /\ Begin(c, "changePassword", "change", u, NoSession)
  /\ UNCHANGED <<accountVars, copy, mark>>
RefuseChange(c) ==
  /\ pc[c] = "change"
  /\ Answer(c, "refused") /\ UNCHANGED accountVars
ChangePassword(c) ==
  /\ pc[c] = "change" /\ Goto(c, "revokeAll")
  /\ RemarkAll(who[c], "current", "outdated")
  /\ UNCHANGED <<mix, account, op, who, with, copy>>

Disable(c, u) ==
  /\ Begin(c, "setUse", "revokeAll", u, NoSession)
  /\ account' = [account EXCEPT ![u].use = FALSE]
  /\ RemarkAll(u, "current", "outdated")
  /\ UNCHANGED <<mix, copy>>
Enable(c, u) ==
  /\ pc[c] = "idle" /\ c \in mix.clients /\ "setUse" \in mix.operations
  /\ account' = [account EXCEPT ![u].use = account[u].status # "none"]
  /\ UNCHANGED <<mix, session, callVars>>

\* revokeAllUserRefreshSessions: every session there is by now.
RevokeAll(c) ==
  /\ pc[c] = "revokeAll"
  /\ session' = [s \in Sessions |->
       IF s \in SessionsOf(who[c]) THEN [session[s] EXCEPT !.status = "revoked"]
       ELSE session[s]]
  /\ RemarkCalls(who[c], "outdated", "missed")
  /\ Answering(c, "ok") /\ who' = [who EXCEPT ![c] = NoUser]
  /\ UNCHANGED <<mix, account, with, copy>>

-----------------------------------------------------------------------------
(***************************************************************************)
(* signUp, saveUser, updateUser and deleteUser.  save writes whatever      *)
(* differs from the row it finds: an entity that was read is written back  *)
(* whole, one that was made overwrites the columns it has.                 *)
(***************************************************************************)
FindNew(c, u) ==
  /\ account[u].status = "none"
  /\ \/ Begin(c, "signUp", "saveNew", u, NoSession)
     \/ Begin(c, "saveUser", "saveNew", u, NoSession)
  /\ UNCHANGED <<accountVars, copy, mark>>

SaveSignUp(a) ==
  IF a.status = "none" THEN [NoAccount EXCEPT !.status = "live"]
  ELSE [a EXCEPT !.status = "live", !.use = FALSE]
SaveNewUser(a) ==
  IF a.status = "none" THEN NewAccount ELSE [a EXCEPT !.use = TRUE, !.home = TRUE]
SaveNew(c) ==
  /\ pc[c] = "saveNew"
  /\ account' = [account EXCEPT ![who[c]] =
       IF op[c] = "signUp" THEN SaveSignUp(@) ELSE SaveNewUser(@)]
  /\ Answer(c, "ok") /\ UNCHANGED <<mix, session>>

\* saveUser of a deleted user, updateUser and deleteUser of a live one.
FindToRestore(c, u) ==
  /\ account[u].status = "deleted" /\ Begin(c, "saveUser", "save", u, NoSession)
  /\ Read(c, [account[u] EXCEPT !.status = "live", !.use = TRUE, !.home = TRUE])
  /\ UNCHANGED <<accountVars, mark>>
FindToUpdate(c, u) ==
  /\ account[u].status = "live" /\ Begin(c, "updateUser", "save", u, NoSession)
  /\ \E use \in BOOLEAN : Read(c, [account[u] EXCEPT !.use = use, !.home = TRUE])
  /\ UNCHANGED <<accountVars, mark>>
FindToDelete(c, u) ==
  /\ account[u].status = "live" /\ Begin(c, "deleteUser", "save", u, NoSession)
  /\ Read(c, [account[u] EXCEPT !.status = "deleted"])
  /\ UNCHANGED <<accountVars, mark>>
Save(c) ==
  /\ pc[c] = "save"
  /\ account' = [account EXCEPT ![who[c]] = copy[c]]
  /\ Answer(c, "ok") /\ UNCHANGED <<mix, session>>

-----------------------------------------------------------------------------
Underway(c) == pc[c] \notin Answers \union {"idle"}

\* A statement fails, or the process ends: what was done stays done.
Fail(c) ==
  /\ Underway(c) /\ pc[c] # "revokeAll"
  /\ Answer(c, "failed") /\ UNCHANGED accountVars
RevocationFails(c) ==
  /\ pc[c] = "revokeAll"
  /\ RemarkAll(who[c], "outdated", "missed")
  /\ Answering(c, "failed") /\ who' = [who EXCEPT ![c] = NoUser]
  /\ UNCHANGED <<mix, account, with, copy>>
LoseAnswer(c) ==
  /\ pc[c] \in Answers /\ pc[c] # "failed"
  /\ Answer(c, "failed") /\ UNCHANGED accountVars

\* The next statement of a call that has begun.
AccountSteps(c) ==
  \/ WrongPassword(c) \/ RefuseHomeless(c) \/ RightPassword(c)
  \/ FindUser(c) \/ Rotate(c) \/ Revoke(c)
  \/ RefuseChange(c) \/ ChangePassword(c) \/ RevokeAll(c)
  \/ SaveNew(c) \/ Save(c)
AccountFaults(c) == Fail(c) \/ RevocationFails(c) \/ LoseAnswer(c)
AccountAdministration(c, u) ==
  \/ FindToChange(c, u) \/ Disable(c, u) \/ Enable(c, u)
  \/ FindNew(c, u) \/ FindToRestore(c, u) \/ FindToUpdate(c, u) \/ FindToDelete(c, u)
Clock ==
  \/ \E u \in Users : LockEnds(u)
  \/ \E s \in Sessions : Expire(s)
=============================================================================
