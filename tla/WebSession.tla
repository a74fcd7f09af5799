----------------------------- MODULE WebSession -----------------------------
(***************************************************************************)
(* The sessions of one browser: its tabs, each with an auth store of its   *)
(* own (an access token, a role, the forced password change), share one    *)
(* refresh-token cookie. Every call a tab waits for is in flight for a     *)
(* while, at the same time as the others: page requests that are refused   *)
(* with 401 refresh the token and are sent again, a timer refreshes it,    *)
(* and logins, logouts and password changes come in between.               *)
(*                                                                         *)
(* The server rotates refresh tokens: it reads the row of the token that   *)
(* was presented, and later revokes it and inserts its successor.          *)
(***************************************************************************)
EXTENDS FiniteSets

CONSTANTS
  Tabs,         \* tabs of the browser
  Calls,        \* what a tab may be waiting for at a time
  Clock,        \* the one of them that is the refresh of its timer
  Tokens,       \* refresh tokens
  Accounts,     \* the roles somebody logs in with, of Admin and MarriageUser
  None          \* no token, no role

ASSUME NoneIsNew == None \notin Tokens \cup Accounts
ASSUME ClockIsACall == Clock \in Calls
ASSUME RolesAreKnown == Accounts \subseteq {"Admin", "MarriageUser"}

VARIABLES
  row,          \* refresh_tokens: the account of each token that is active
  must,         \* admin_users: MustChangePassword
  cookie,       \* the browser's refresh_token cookie
  store,        \* useAuthStore of each tab
  path,         \* location.pathname of each tab
  form,         \* step of the login form of each tab
  call,         \* what each call of each tab is doing
  broken        \* history: a session ended, or an answer with a cookie was lost

server == <<row, must>>
vars == <<server, cookie, store, path, form, call, broken>>

(* Answers that tell the browser which cookie the server goes on with.      *)
CookieAnswers == {"got", "granted", "left"}

AdminPaths == {"/admin", "/admin/change-password"}
Paths == AdminPaths \cup {"/", "/admin/login", "/my-gallery"}

(* Access tokens say whose they are and whether a new password is due;      *)
(* fresh is the signature's lifetime of fifteen minutes.                    *)
AccessTokens == [of : Accounts, must : BOOLEAN, fresh : BOOLEAN]

NoToken == [of |-> None, must |-> FALSE, fresh |-> FALSE]

SignedOut ==
  [token |-> NoToken, role |-> None, must |-> FALSE, auth |-> FALSE]

Idle ==
  [kind |-> "none", at |-> "idle", then |-> "end", token |-> NoToken,
   raw |-> None]

Init ==
  /\ row = [k \in Tokens |-> None]
  /\ must = TRUE
  /\ cookie = None
  /\ store = [t \in Tabs |-> SignedOut]
  /\ path = [t \in Tabs |-> "/"]
  /\ form = [t \in Tabs |-> "first"]
  /\ call = [t \in Tabs |-> [c \in Calls |-> Idle]]
  /\ broken = FALSE

-----------------------------------------------------------------------------
(* IsActive of the row with the hash of a token.                            *)
Active(k) == k \in Tokens /\ row[k] # None

(* Tokens somebody else holds: the browser, or a message on its way. Others *)
(* can never be presented again, and their ids stand for new ones.          *)
HeldBeside(t, c) ==
  {cookie} \cup {call[w[1]][w[2]].raw : w \in (Tabs \X Calls) \ {<<t, c>>}}

Unused(t, c) == Tokens \ HeldBeside(t, c)

SetCall(t, c, rec) == call' = [call EXCEPT ![t][c] = rec]

SetStore(t, rec) == store' = [store EXCEPT ![t] = rec]

GoTo(t, p) ==
  /\ path' = [path EXCEPT ![t] = p]
  /\ form' = [form EXCEPT ![t] = IF path[t] = p THEN @ ELSE "first"]

Stay == UNCHANGED <<path, form>>

(* IssueTokens: a row for a new token, and none for the one given for it.   *)
Issue(t, c, k, a) ==
  row' = [x \in Tokens |-> IF x = k THEN a
                          ELSE IF x \in HeldBeside(t, c) \ {call[t][c].raw} THEN row[x]
                          ELSE None]

Access(a) == [of |-> a, must |-> a = "Admin" /\ must, fresh |-> TRUE]

(* setAuth, which is also what a login leaves in the store.                 *)
setAuth(t, a, token) ==
  SetStore(t, [token |-> token, role |-> a, must |-> token.must, auth |-> TRUE])

(* clearAuth forgets everything about the session.                          *)
clearAuth(t) == SetStore(t, SignedOut)

LoginPath(a) == IF a = "Admin" THEN "/admin/login" ELSE "/"

(* What the redirect parameter of a login's address may say.                *)
Wanted(a) == IF a = "Admin" THEN AdminPaths ELSE {"/my-gallery"}

(* Mutant: the forced change is looked at before the login.                 *)
RequireAuthLate(t) ==
  LET role == IF path[t] \in AdminPaths THEN "Admin" ELSE "MarriageUser" IN
  IF path[t] \notin AdminPaths \cup {"/my-gallery"} THEN path[t]
  ELSE IF store[t].must /\ path[t] = "/admin" THEN "/admin/change-password"
  ELSE IF ~store[t].auth \/ store[t].role # role THEN LoginPath(role)
  ELSE path[t]

(* The guard of a route: where RequireAuth sends the tab, or where it is.   *)
RequireAuth(t) ==
  LET role == IF path[t] \in AdminPaths THEN "Admin" ELSE "MarriageUser"
      login == LoginPath(role) IN
  IF path[t] \notin AdminPaths \cup {"/my-gallery"} THEN path[t]
  ELSE IF ~store[t].auth \/ store[t].role # role THEN login
  ELSE IF role = "Admin" /\ store[t].must THEN "/admin/change-password"
  ELSE path[t]

(* A guarded page is mounted: it may call the API.                          *)
Mounted(t) == path[t] \in AdminPaths \cup {"/my-gallery"} /\ RequireAuth(t) = path[t]

-----------------------------------------------------------------------------
(* POST /api/auth/refresh presents the cookie of this moment.               *)
Ask(t, c, kind, then) ==
  SetCall(t, c, [kind |-> kind, at |-> "asked", then |-> then,
                 token |-> NoToken, raw |-> cookie])

(* The fourteen minutes are over; the timer runs while there is a token.    *)
Timer(t, c) ==
  /\ c = Clock /\ call[t][c] = Idle
  /\ store[t].token # NoToken
  /\ Ask(t, c, "timer", "end")
  /\ UNCHANGED <<server, cookie, store, path, form, broken>>

(* RotateRefreshTokenAsync finds an active row, and reads its account; ...  *)
RefreshRead(t, c) ==
  LET v == call[t][c] IN
  /\ v.at = "asked" /\ Active(v.raw)
  /\ SetCall(t, c, [v EXCEPT !.at = "read", !.token = Access(row[v.raw])])
  /\ UNCHANGED <<server, cookie, store, path, form, broken>>

(* ... revokes it, and answers with a successor, whatever became of the row *)
(* since it was read.                                                       *)
RefreshSave(t, c) ==
  LET v == call[t][c]
      k == CHOOSE x \in Unused(t, c) : TRUE IN
  /\ v.at = "read" /\ v.then # "nobody" /\ Unused(t, c) # {}
  /\ Issue(t, c, k, v.token.of)
  /\ SetCall(t, c, [v EXCEPT !.at = "got", !.raw = k])
  /\ UNCHANGED <<must, cookie, store, path, form, broken>>

(* ... or finds no active row: not OK, and the cookie is to be deleted.     *)
RefreshRefuse(t, c) ==
  LET v == call[t][c] IN
  /\ v.at = "asked" /\ ~Active(v.raw)
  /\ SetCall(t, c, [v EXCEPT !.at = "refused"])
  /\ UNCHANGED <<server, cookie, store, path, form, broken>>

(* Mutant: the request is sent again, refreshed or not.                     *)
ContinueAlways(v, token) ==
  CASE v.then = "retry" ->
         [v EXCEPT !.at = "sent", !.token = token, !.raw = None, !.then = "end"]
    [] v.then = "end" /\ v.kind = "change" ->
         [Idle EXCEPT !.kind = "change",
                      !.at = IF token # NoToken THEN "home" ELSE "login"]
    [] OTHER -> Idle

(* What a call does with the token of its refresh: send the request again,  *)
(* or, on the change-password page, leave for the dashboard.                *)
Continue(v, token) ==
  CASE v.then = "retry" /\ token # NoToken ->
         [v EXCEPT !.at = "resent", !.token = token, !.raw = None, !.then = "end"]
    [] v.then = "end" /\ v.kind = "change" ->
         [Idle EXCEPT !.kind = "change",
                      !.at = IF token # NoToken THEN "home" ELSE "login"]
    [] OTHER -> Idle

(* Mutant: the answer of a refresh is stored whatever happened meanwhile.   *)
RefreshedBlindly(t, c) ==
  LET v == call[t][c] IN
  /\ v.at = "got"
  /\ cookie' = v.raw
  /\ SetStore(t, [store[t] EXCEPT !.token = v.token, !.must = v.token.must])
  /\ SetCall(t, c, Continue(v, v.token))
  /\ Stay /\ UNCHANGED <<server, broken>>

(* Mutant: the answer of a refresh says nothing of the forced change.       *)
RefreshedKeepsFlag(t, c) ==
  LET v == call[t][c] IN
  /\ v.at = "got"
  /\ cookie' = v.raw
  /\ IF store[t].role = None
       THEN UNCHANGED store
       ELSE SetStore(t, [store[t] EXCEPT !.token = v.token])
  /\ SetCall(t, c, Continue(v, v.token))
  /\ Stay /\ UNCHANGED <<server, broken>>

(* The answer of a refresh: the browser keeps the cookie, and the store the *)
(* token, unless the tab has signed out meanwhile.                          *)
Refreshed(t, c) ==
  LET v == call[t][c] IN
  /\ v.at = "got"
  /\ cookie' = v.raw
  /\ IF store[t].role = None
       THEN UNCHANGED store
       ELSE SetStore(t, [store[t] EXCEPT !.token = v.token,
                                         !.must = v.token.must])
  /\ SetCall(t, c, Continue(v, v.token))
  /\ Stay /\ UNCHANGED <<server, broken>>

(* The answer that there is no session: without a cookie in the request the *)
(* server leaves that of the browser alone.                                 *)
RefreshDenied(t, c) ==
  LET v == call[t][c] IN
  /\ v.at = "refused"
  /\ cookie' = IF v.raw = None THEN cookie ELSE None
  /\ clearAuth(t)
  /\ SetCall(t, c, Continue(v, NoToken))
  /\ Stay /\ UNCHANGED <<server, broken>>

(* The network fails before or after the server, and the refresh throws.    *)
RefreshLost(t, c) ==
  LET v == call[t][c] IN
  /\ v.at \in {"asked", "got", "refused"}
  /\ broken' = (broken \/ v.at \in CookieAnswers)
  /\ clearAuth(t)
  /\ SetCall(t, c, Continue(v, NoToken))
  /\ Stay /\ UNCHANGED <<server, cookie>>

-----------------------------------------------------------------------------
(* A page calls the API with the token of the store. The calls that delete  *)
(* a photo or an invitation do not go through fetchWithAuth: they are sent  *)
(* once, as the others are for the second time.                             *)
Send(t, c, kind, at) ==
  /\ c # Clock /\ call[t][c] = Idle /\ Mounted(t)
  /\ kind = CASE path[t] = "/admin" -> "admin"
              [] path[t] = "/my-gallery" -> "gallery"
              [] OTHER -> "change"
  /\ kind = "change" => \A d \in Calls : call[t][d].kind # "change"
  /\ at = "resent" => kind # "change"
  /\ SetCall(t, c, [Idle EXCEPT !.kind = kind, !.at = at,
                                !.token = store[t].token])
  /\ UNCHANGED <<server, cookie, store, path, form, broken>>

(* Authentication, roles, and ForcePasswordChangeMiddleware.                *)
Status(v, role) ==
  CASE ~v.token.fresh -> 401
    [] v.token.of # role -> 403
    [] v.token.must /\ v.kind # "change" -> 403
    [] OTHER -> 200

RoleOf(kind) == IF kind = "gallery" THEN "MarriageUser" ELSE "Admin"

(* fetchWithAuth: 200 ends it, the first 401 refreshes the token, any other *)
(* answer, and a 401 after that, is an error. The new password is stored    *)
(* before its answer is back.                                               *)
Answered(t, c) ==
  LET v == call[t][c] IN
  /\ v.at \in {"sent", "resent"}
  /\ \/ /\ Status(v, RoleOf(v.kind)) = 200
        /\ IF v.kind = "change"
             THEN /\ must' = FALSE
                  /\ SetCall(t, c, [v EXCEPT !.at = "changed"])
             ELSE /\ SetCall(t, c, Idle)
                  /\ UNCHANGED must
     \/ /\ v.at = "sent" /\ Status(v, RoleOf(v.kind)) = 401
        /\ Ask(t, c, v.kind, "retry")
        /\ UNCHANGED must
     \/ /\ v.at = "resent" \/ Status(v, RoleOf(v.kind)) = 403
        /\ Status(v, RoleOf(v.kind)) # 200
        /\ SetCall(t, c, Idle)
        /\ UNCHANGED must
  /\ UNCHANGED <<row, cookie, store, path, form, broken>>

(* The request fails on its way, or the API refuses the old password.       *)
Failed(t, c) ==
  /\ call[t][c].at \in {"sent", "resent", "changed", "posted", "leaving", "left"}
  /\ call[t][c].then # "nobody"
  /\ SetCall(t, c, Idle)
  /\ broken' = (broken \/ call[t][c].at \in CookieAnswers)
  /\ UNCHANGED <<server, cookie, store, path, form>>

(* handleSubmit goes on after the change: it refreshes the token, so that   *)
(* the claim of the old one does not lock the admin out, ...                *)
Renew(t, c) ==
  /\ call[t][c].at = "changed"
  /\ Ask(t, c, "change", "end")
  /\ UNCHANGED <<server, cookie, store, path, form, broken>>

(* Mutant: the dashboard is not where it is said to be.                     *)
LeaveNowhere(t, c) ==
  /\ call[t][c].at \in {"home", "login"}
  /\ SetCall(t, c, Idle)
  /\ GoTo(t, IF call[t][c].at = "home" THEN "/dashboard" ELSE "/admin/login")
  /\ UNCHANGED <<server, cookie, store, broken>>

(* ... and half a second later goes to the dashboard, or to the login.      *)
Leave(t, c) ==
  /\ call[t][c].at \in {"home", "login"}
  /\ SetCall(t, c, Idle)
  /\ GoTo(t, IF call[t][c].at = "home" THEN "/admin" ELSE "/admin/login")
  /\ UNCHANGED <<server, cookie, store, broken>>
-----------------------------------------------------------------------------
(* The login forms: AdminLogin, and MarriageLoginPanel on the landing page. *)
Submit(t, c, a) ==
  /\ c # Clock /\ call[t][c] = Idle
  /\ path[t] = LoginPath(a)
  /\ \A d \in Calls : call[t][d].kind \in {"first", "second"} => call[t][d].token.of # a
  /\ SetCall(t, c, [Idle EXCEPT !.kind = form[t], !.at = "posted",
                                !.token = [NoToken EXCEPT !.of = a]])
  /\ UNCHANGED <<server, cookie, store, path, form, broken>>

(* The button of the second step that goes back to the first.               *)
Back(t) ==
  /\ form[t] = "second"
  /\ form' = [form EXCEPT ![t] = "first"]
  /\ UNCHANGED <<server, cookie, store, path, call, broken>>

(* Credentials: a code is sent, and the form asks for it; ...               *)
Credentials(t, c) ==
  LET v == call[t][c] IN
  /\ v.at = "posted" /\ v.kind = "first"
  /\ form' = [form EXCEPT ![t] = IF path[t] = LoginPath(v.token.of) THEN "second"
                                 ELSE @]
  /\ SetCall(t, c, Idle)
  /\ UNCHANGED <<server, cookie, store, path, broken>>

(* ... or there is no SMTP, and an admin is let in at once. In the second   *)
(* step ValidateLoginCodeAsync finds the code. The account is read, ...     *)
CheckCode(t, c) ==
  LET v == call[t][c] IN
  /\ v.at = "posted"
  /\ v.kind = "second" \/ v.token.of = "Admin"
  /\ SetCall(t, c, [v EXCEPT !.at = "checked", !.kind = "second",
                             !.token = Access(v.token.of)])
  /\ UNCHANGED <<server, cookie, store, path, form, broken>>

(* ... and then the tokens are issued.                                      *)
Grant(t, c) ==
  LET v == call[t][c]
      k == CHOOSE x \in Unused(t, c) : TRUE IN
  /\ v.at = "checked" /\ Unused(t, c) # {}
  /\ Issue(t, c, k, v.token.of)
  /\ SetCall(t, c, [v EXCEPT !.at = "granted", !.raw = k])
  /\ UNCHANGED <<must, cookie, store, path, form, broken>>

(* handleCredentials and handleCode: the tab is signed in and goes where it *)
(* wanted to go: to the page that the address of the login was made for.    *)
SignedIn(t, c) ==
  LET v == call[t][c] IN
  /\ v.at = "granted"
  /\ cookie' = v.raw
  /\ setAuth(t, v.token.of, v.token)
  /\ \E p \in Wanted(v.token.of) : GoTo(t, p)
  /\ SetCall(t, c, Idle)
  /\ UNCHANGED <<server, broken>>

(* handleLogout of AdminLayout and of MyGallery.                            *)
Logout(t, c) ==
  /\ c # Clock /\ call[t][c] = Idle
  /\ Mounted(t) /\ path[t] \in {"/admin", "/my-gallery"}
  /\ SetCall(t, c, [Idle EXCEPT !.kind = "logout", !.at = "leaving",
                                !.raw = cookie])
  /\ UNCHANGED <<server, cookie, store, path, form, broken>>

(* RevokeRefreshTokenAsync.                                                 *)
Revoke(t, c) ==
  LET v == call[t][c] IN
  /\ v.at = "leaving" /\ v.then # "nobody"
  /\ row' = [k \in Tokens |-> IF k = v.raw THEN None ELSE row[k]]
  /\ SetCall(t, c, [v EXCEPT !.at = "left"])
  /\ UNCHANGED <<must, cookie, store, path, form, broken>>

(* Mutant: the answer of a logout does not delete the cookie.               *)
LoggedOutKeeps(t, c) ==
  /\ call[t][c].at = "left"
  /\ clearAuth(t)
  /\ GoTo(t, "/")
  /\ SetCall(t, c, Idle)
  /\ UNCHANGED <<server, cookie, broken>>

LoggedOut(t, c) ==
  /\ call[t][c].at = "left"
  /\ cookie' = None
  /\ clearAuth(t)
  /\ GoTo(t, "/")
  /\ SetCall(t, c, Idle)
  /\ UNCHANGED <<server, broken>>

(* The change-password page is left without a change.                       *)
Abandon(t) ==
  /\ Mounted(t) /\ path[t] = "/admin/change-password"
  /\ clearAuth(t)
  /\ GoTo(t, "/admin/login")
  /\ UNCHANGED <<server, cookie, call, broken>>
-----------------------------------------------------------------------------
(* A tab is reloaded, or the site's address typed: sessionStorage keeps the *)
(* store without isAuthenticated, and nobody waits for the calls any more.  *)
(* What the server is about to write it writes all the same.                *)
Reload(t, p) ==
  /\ SetStore(t, [store[t] EXCEPT !.auth = FALSE])
  /\ path' = [path EXCEPT ![t] = p]
  /\ form' = [form EXCEPT ![t] = "first"]
  /\ call' = [call EXCEPT ![t] = [c \in Calls |->
       IF call[t][c].at \in {"read", "leaving"}
         THEN [call[t][c] EXCEPT !.then = "nobody"] ELSE Idle]]
  /\ broken' = (broken \/ \E c \in Calls : call[t][c].at \in CookieAnswers)
  /\ UNCHANGED <<server, cookie>>

(* The server revokes the token of a page that is gone, and the browser     *)
(* does not hear of the successor.                                          *)
Unheard(t, c) ==
  /\ call[t][c].then = "nobody"
  /\ row' = [k \in Tokens |-> IF k = call[t][c].raw THEN None ELSE row[k]]
  /\ SetCall(t, c, Idle)
  /\ broken' = TRUE
  /\ UNCHANGED <<must, cookie, store, path, form>>

(* Fifteen minutes pass without a refresh: the machine slept.               *)
Expire(t) ==
  /\ store[t].token.fresh
  /\ SetStore(t, [store[t] EXCEPT !.token.fresh = FALSE])
  /\ UNCHANGED <<server, cookie, path, form, call, broken>>

(* Seventy-two hours pass, or the password is reset from another machine,   *)
(* which revokes every token of the admin.                                  *)
SessionEnds(k) ==
  /\ row[k] # None
  /\ k = cookie \/ \E t \in Tabs, c \in Calls : call[t][c].raw = k
  /\ row' = [row EXCEPT ![k] = None]
  /\ broken' = TRUE
  /\ UNCHANGED <<must, cookie, store, path, form, call>>

ResetPassword ==
  /\ "Admin" \in Accounts
  /\ must' = FALSE
  /\ row' = [k \in Tokens |-> IF row[k] = "Admin" THEN None ELSE row[k]]
  /\ broken' = TRUE
  /\ UNCHANGED <<cookie, store, path, form, call>>

(* The links between the landing page and the login.                        *)
Follow(t) ==
  /\ path[t] \in {"/", "/admin/login"}
  /\ GoTo(t, IF path[t] = "/" THEN "/admin/login" ELSE "/")
  /\ UNCHANGED <<server, cookie, store, call, broken>>

(* RequireAuth renders a Navigate.                                          *)
Redirect(t) ==
  /\ RequireAuth(t) # path[t]
  /\ GoTo(t, RequireAuth(t))
  /\ UNCHANGED <<server, cookie, store, call, broken>>

-----------------------------------------------------------------------------
(* What the network and the server do with a call in flight.                *)
Progress(t, c) ==
  \/ RefreshRead(t, c) \/ RefreshSave(t, c) \/ RefreshRefuse(t, c)
  \/ Refreshed(t, c) \/ RefreshDenied(t, c) \/ RefreshLost(t, c)
  \/ Answered(t, c) \/ Failed(t, c) \/ Renew(t, c) \/ Leave(t, c)
  \/ Credentials(t, c) \/ CheckCode(t, c) \/ Grant(t, c)
  \/ SignedIn(t, c)
  \/ Revoke(t, c) \/ LoggedOut(t, c) \/ Unheard(t, c)

(* What a person does.                                                      *)
Use(t) ==
  \/ \E c \in Calls :
       \/ \E kind \in {"admin", "gallery", "change"}, at \in {"sent", "resent"} :
            Send(t, c, kind, at)
       \/ \E a \in Accounts : Submit(t, c, a)
       \/ Logout(t, c)
  \/ Abandon(t) \/ Follow(t) \/ Back(t)
  \/ \E p \in {path[t], "/"} : Reload(t, p)

Next ==
  \/ \E t \in Tabs : \/ \E c \in Calls : Progress(t, c) \/ Timer(t, c)
                      \/ Use(t) \/ Redirect(t) \/ Expire(t)
  \/ \E k \in Tokens : SessionEnds(k)
  \/ ResetPassword

(* Calls are answered or fail, timers fire, and                              *)
(* nobody reloads a tab for ever before anything is answered.               *)
Fairness ==
  /\ \A t \in Tabs : <>[][~\E p \in {path[t], "/"} : Reload(t, p)]_vars
  /\ \A t \in Tabs : \A c \in Calls : WF_vars(Progress(t, c))
  /\ \A t \in Tabs : WF_vars(Timer(t, Clock))

Spec == Init /\ [][Next]_vars

FairSpec == Spec /\ Fairness

-----------------------------------------------------------------------------
Points ==
  {"idle", "asked", "read", "got", "refused", "sent", "resent", "changed",
   "home", "login", "posted", "checked", "granted",
   "leaving", "left"}

CallRecords ==
  [kind : {"none", "timer", "admin", "gallery", "change", "first", "second",
           "logout"},
   at : Points, then : {"end", "retry", "nobody"},
   token : AccessTokens \cup {NoToken} \cup [of : Accounts, must : {FALSE},
                                              fresh : {FALSE}],
   raw : Tokens \cup {None}]

Stores ==
  [token : AccessTokens \cup {NoToken}, role : Accounts \cup {None},
   must : BOOLEAN, auth : BOOLEAN]

(* Every variable stays in the set of values the code can give it.          *)
TypeOK ==
  /\ row \in [Tokens -> Accounts \cup {None}]
  /\ must \in BOOLEAN
  /\ cookie \in Tokens \cup {None}
  /\ store \in [Tabs -> Stores]
  /\ path \in [Tabs -> Paths]
  /\ form \in [Tabs -> {"first", "second"}]
  /\ call \in [Tabs -> [Calls -> CallRecords]]
  /\ broken \in BOOLEAN

(* A tab that signed out holds nothing of its session, whatever answers     *)
(* come in afterwards, and one that is signed in has a token to call with.  *)
SignedOutHoldsNothing ==
  \A t \in Tabs :
    /\ store[t].role = None => store[t] = SignedOut
    /\ store[t].auth => store[t].token # NoToken

(* Nothing is under way that could still change the browser's cookie.       *)
Quiet == \A t \in Tabs, c \in Calls : call[t][c].raw = None

(* Once the answers are in, the cookie is one the server still accepts, in  *)
(* whatever order logins, logouts and refreshes of all tabs were answered,  *)
(* unless the session ended or an answer was lost.                          *)
CookieIsLive == Quiet /\ ~broken /\ cookie # None => Active(cookie)

(* Every call ends: no request is sent again and again.                     *)
EveryCallEnds ==
  \A t \in Tabs, c \in Calls : call[t][c] # Idle ~> call[t][c] = Idle

(* Once the password has been changed, no tab goes on asking for a new one, *)
(* not even one that was given an older answer last.                        *)
FlagClears == \A t \in Tabs : ~must ~> ~store[t].must

(* A redirect comes to rest: it is never answered with the next one, and    *)
(* never takes a tab that may be where it is.                               *)
RedirectsSettle ==
  [][\A t \in Tabs : Redirect(t) => (RequireAuth(t) = path[t])']_vars

-----------------------------------------------------------------------------
(* What the code does not keep.                                             *)

(* A refresh is refused only when the browser has no session.  The timer    *)
(* and a request that was answered with 401 present one cookie; the one     *)
(* that loses signs the tab out of what the other has renewed               *)
(* (authStore.ts:50).                                                       *)
RefusedOnlyWithoutSession ==
  [][\A t \in Tabs, c \in Calls :
       RefreshDenied(t, c) /\ ~broken => ~Active(cookie)]_vars

=============================================================================
