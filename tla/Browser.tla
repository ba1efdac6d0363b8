------------------------------- MODULE Browser -------------------------------
(***************************************************************************)
(* The tabs of a browser and other devices, over Accounts: useAuthStore.ts *)
(* with its interceptor, and auth.controller.ts.                           *)
(*                                                                         *)
(* The tabs share the refresh cookie; each has an access token and a       *)
(* refreshPromise of its own.  A call is named by its sender: the page of  *)
(* a tab, the interceptor of a tab, or a device.  A refreshPromise is      *)
(* pending while the interceptor's call is.                                *)
(***************************************************************************)
EXTENDS Accounts

CONSTANTS Tabs, NoTab, Requests

Page(t) == <<t, "page">>
Interceptor(t) == <<t, "interceptor">>

ASSUME TabNames == NoTab \notin Tabs
ASSUME TabCalls == \A t \in Tabs :
  Page(t) \in Calls \ Devices /\ Interceptor(t) \in Calls \ Devices
ASSUME MixRows == \A m \in Mixes : m.sessions \subseteq Sessions

VARIABLES
  cookie,    \* the session of the refresh cookie
  tab,       \* per tab: closed, loading (init), or ready with or without a token
  request    \* per API request: its progress and its tab

browserVars == <<cookie, tab, request>>
vars == <<accountVars, callVars, browserVars>>

NoRequest == [phase |-> "none", from |-> NoTab, retried |-> FALSE]

TypeOK ==
  /\ AccountsTypeOK
  /\ cookie \in Sessions \union {NoSession}
  /\ tab \in [Tabs -> {"closed", "loading", "signedOut", "signedIn"}]
  /\ request \in [Requests -> [phase: {"none", "sent", "waiting"}, from: Tabs \union {NoTab},
                               retried: BOOLEAN]]

\* The browser may hold a session of an earlier sign-in.
Init ==
  /\ AccountsInit
  /\ cookie \in mix.sessions \union {NoSession}
  /\ \E u \in Users :
       /\ cookie # NoSession => account[u] = NewAccount
       /\ session = [s \in Sessions |->
            IF s = cookie THEN [NoRow EXCEPT !.status = "live", !.user = u] ELSE NoRow]
  /\ tab = [t \in Tabs |-> "closed"]
  /\ request = [r \in Requests |-> NoRequest]

-----------------------------------------------------------------------------
Refreshing(t) == pc[Interceptor(t)] # "idle"

\* main.tsx: init refreshes before the application shows anything.
OpenTab(t) ==
  /\ tab[t] = "closed" /\ tab' = [tab EXCEPT ![t] = "loading"]
  /\ FindSession(Page(t), cookie) \/ RefuseSession(Page(t), cookie)
  /\ UNCHANGED <<cookie, request>>

\* A tab is closed or reloaded; answers under way to it are lost before.
CloseTab(t) ==
  /\ tab[t] \in {"signedOut", "signedIn"} /\ pc[Page(t)] = "idle" /\ ~Refreshing(t)
  /\ \A r \in Requests : request[r].from # t
  /\ tab' = [tab EXCEPT ![t] = "closed"]
  /\ UNCHANGED <<accountVars, callVars, cookie, request>>

Login(t) ==
  /\ tab[t] = "signedOut"
  /\ \E u \in Users : FindForLogin(Page(t), u) \/ RefuseLogin(Page(t), u)
  /\ UNCHANGED browserVars

Logout(t) ==
  /\ tab[t] = "signedIn"
  /\ FindToLogout(Page(t), cookie) \/ NothingToRevoke(Page(t), cookie)
  /\ UNCHANGED browserVars

\* Mutant of Exempt: a refused refresh is answered by refreshing.
ExemptFew == {"login", "logout"}
\* The interceptor lets the refusal of these pass; that of any other call would
\* wait for refreshPromise.
Exempt == {"login", "refresh", "logout"}
Answered(c) == pc[c] \in {"ok", "failed"} \/ (pc[c] = "refused" /\ op[c] \in Exempt)

\* applyRefreshCookie on the server, applyAuth and clearAuth in the tab.
SetCookie(c) == cookie' = with[c]
ApplyAuth(t) == tab' = [tab EXCEPT ![t] = "signedIn"]
ClearAuth(t) == tab' = [tab EXCEPT ![t] = "signedOut"]

PageSignedIn(t) ==
  /\ pc[Page(t)] = "ok" /\ op[Page(t)] \in {"login", "refresh"}
  /\ SetCookie(Page(t)) /\ ApplyAuth(t)
  /\ End(Page(t)) /\ UNCHANGED <<accountVars, request>>

\* A login that fails changes nothing, a logout signs out whatever its answer.
PageSignedOut(t) ==
  /\ Answered(Page(t)) /\ (pc[Page(t)] = "ok" => op[Page(t)] = "logout")
  /\ cookie' = IF pc[Page(t)] = "ok" THEN NoSession ELSE cookie
  /\ IF op[Page(t)] = "login" THEN UNCHANGED tab ELSE ClearAuth(t)
  /\ End(Page(t)) /\ UNCHANGED <<accountVars, request>>

-----------------------------------------------------------------------------
(***************************************************************************)
(* The API requests of a tab and the interceptor.                          *)
(***************************************************************************)
Send(r, t) ==
  /\ request[r].phase = "none" /\ r \in mix.requests /\ tab[t] = "signedIn"
  /\ request' = [request EXCEPT ![r] = [phase |-> "sent", from |-> t, retried |-> FALSE]]
  /\ UNCHANGED <<accountVars, callVars, cookie, tab>>

\* JwtStrategy looks at nothing but the token, which may have expired by the
\* time it arrives.  A request that was sent again is rejected then.
Settle(r) ==
  /\ request[r].phase = "sent"
  /\ request' = [request EXCEPT ![r] = NoRequest]
  /\ UNCHANGED <<accountVars, callVars, cookie, tab>>
Unauthorized(r) == request[r].phase = "sent" /\ ~request[r].retried

\* Another request's refresh is under way: its promise is shared.
ShareRefresh(r) ==
  /\ Unauthorized(r) /\ Refreshing(request[r].from)
  /\ request' = [request EXCEPT ![r].phase = "waiting"]
  /\ UNCHANGED <<accountVars, callVars, cookie, tab>>

StartRefresh(r) ==
  LET c == Interceptor(request[r].from)
  IN /\ Unauthorized(r) /\ ~Refreshing(request[r].from)
     /\ FindSession(c, cookie) \/ RefuseSession(c, cookie)
     /\ request' = [request EXCEPT ![r].phase = "waiting"]
     /\ UNCHANGED <<cookie, tab>>

\* The promise resolves: the waiting requests are sent again or rejected.
Resume(t, answer) ==
  request' = [r \in Requests |->
    IF request[r].phase = "waiting" /\ request[r].from = t THEN answer ELSE request[r]]

Refreshed(t) ==
  /\ pc[Interceptor(t)] = "ok"
  /\ SetCookie(Interceptor(t)) /\ ApplyAuth(t)
  /\ Resume(t, [phase |-> "sent", from |-> t, retried |-> TRUE])
  /\ End(Interceptor(t)) /\ UNCHANGED accountVars

RefreshFailed(t) ==
  /\ Answered(Interceptor(t)) /\ pc[Interceptor(t)] # "ok"
  /\ ClearAuth(t) /\ Resume(t, NoRequest)
  /\ End(Interceptor(t)) /\ UNCHANGED <<accountVars, cookie>>

-----------------------------------------------------------------------------
\* The instance remembers as many sessions as there are rows: a new one takes
\* the row of one no cookie and no call refers to, of a dead one if there is any.
Spare(c) == mix.sessions \ ({cookie} \union {with[d] : d \in Calls \ {c}})
NewRow(c) ==
  LET dead == {s \in Spare(c) : ~Live(s)}
  IN CHOOSE s \in Sessions : s \in (IF dead = {} THEN Spare(c) ELSE dead)
IssueRow(c) == Spare(c) # {} /\ Issue(c, NewRow(c))

\* A device, which may hold the token of any session.
DeviceCall(c) ==
  \/ \E u \in Users : FindForLogin(c, u) \/ AccountAdministration(c, u)
  \/ \E s \in Sessions : FindSession(c, s) \/ FindToLogout(c, s)

\* What a call does by itself once it is sent.
Progress(c) ==
  \/ (AccountSteps(c) \/ IssueRow(c)) /\ UNCHANGED browserVars
  \/ \E t \in Tabs : \/ c = Page(t) /\ (PageSignedIn(t) \/ PageSignedOut(t))
                     \/ c = Interceptor(t) /\ (Refreshed(t) \/ RefreshFailed(t))
Proceed(r) == Settle(r) \/ ShareRefresh(r) \/ StartRefresh(r)

Environment ==
  \/ \E t \in Tabs : \/ OpenTab(t) \/ CloseTab(t) \/ Login(t) \/ Logout(t)
                     \/ \E r \in Requests : Send(r, t)
  \/ \E c \in Devices : DeviceCall(c) /\ UNCHANGED browserVars
  \/ \E c \in Calls : AccountFaults(c) /\ UNCHANGED browserVars
  \/ Clock /\ UNCHANGED browserVars

Next ==
  \/ Environment
  \/ \E c \in Calls : Progress(c)
  \/ \E r \in Requests : Proceed(r)

\* The event loop runs every call that the database or the network answers.
Fairness ==
  /\ \A c \in Calls : WF_vars(Progress(c))
  /\ \A r \in Requests : WF_vars(Proceed(r))

Spec == Init /\ [][Next]_vars /\ Fairness

-----------------------------------------------------------------------------
(***************************************************************************)
(* Properties.                                                             *)
(***************************************************************************)
\* After a password change or SYSTEM's disabling of a user, no session from
\* before it is left once the revocation is done, except one issued by a login
\* or a refresh that the revocation overtook, and those of a revocation that
\* failed half-way.
OldCredentialsAreOut ==
  \A s \in Sessions : Live(s) /\ session[s].mark = "outdated" =>
    \E c \in Calls : pc[c] = "revokeAll" /\ who[c] = session[s].user

\* The failure counter is read and written in two statements, so concurrent
\* failures can be lost; yet whoever goes on guessing wrongly gets the account
\* locked again and again, unless the password is given or the account saved.
Pardons(u) == \E c \in Calls : who[c] = u /\ (RightPassword(c) \/ SaveNew(c) \/ Save(c))
GuessingLocks ==
  \A u \in Users :
    /\ []<><<\E c \in Calls : who[c] = u /\ WrongPassword(c)>>_vars
    /\ <>[][~Pardons(u)]_vars
    => []<>(account[u].locked)

\* Every request of a tab is answered, refused for good or rejected: none waits
\* for a refresh that never ends, none is sent again for ever.
EveryRequestSettles == \A r \in Requests : request[r].phase # "none" ~> request[r].phase = "none"
=============================================================================
