-------------------------- MODULE WebSessionProofs --------------------------
(***************************************************************************)
(* Theorems about WebSession, for any number of tabs, calls, tokens and    *)
(* accounts: type correctness, that a tab that signed out holds nothing,   *)
(* and that the cookie that remains is one the server accepts.             *)
(***************************************************************************)
EXTENDS WebSession, TLAPS

(* Tokens of calls whose account the server or the form has named.          *)
Named == {"posted", "read", "got", "checked", "granted"}

TokensAreNamed ==
  \A t \in Tabs, c \in Calls :
    call[t][c].at \in Named => call[t][c].token.of \in Accounts

TypeInv == TypeOK /\ TokensAreNamed

-----------------------------------------------------------------------------
(* A token that says whose it is is an access token.                        *)
LEMMA NamedIsAccess ==
  ASSUME NEW x \in AccessTokens \cup {NoToken} \cup [of : Accounts, must : {FALSE},
                                                     fresh : {FALSE}],
         x.of \in Accounts
  PROVE  x \in AccessTokens
<1>1. x # NoToken
  BY NoneIsNew DEF NoToken
<1>2. CASE x \in [of : Accounts, must : {FALSE}, fresh : {FALSE}]
  <2>1. [of : Accounts, must : {FALSE}, fresh : {FALSE}] \subseteq AccessTokens
    BY DEF AccessTokens
  <2> QED
    BY <1>2, <2>1
<1> QED
  BY <1>1, <1>2

LEMMA AccessIsToken ==
  ASSUME NEW x \in AccessTokens
  PROVE  x.of \in Accounts /\ x # NoToken
  BY NoneIsNew DEF AccessTokens, NoToken

LEMMA AccessType ==
  ASSUME NEW a \in Accounts, must \in BOOLEAN
  PROVE  Access(a) \in AccessTokens /\ Access(a).of = a
  BY DEF Access, AccessTokens

LEMMA IdleType == Idle \in CallRecords /\ Idle.at \notin Named /\ Idle.raw = None
  BY DEF Idle, CallRecords, Points, NoToken, Named

(* One call changes.                                                        *)
LEMMA CallChanges ==
  ASSUME TypeInv, NEW t \in Tabs, NEW c \in Calls, NEW r \in CallRecords,
         r.at \in Named => r.token.of \in Accounts,
         SetCall(t, c, r)
  PROVE  /\ call' \in [Tabs -> [Calls -> CallRecords]]
         /\ TokensAreNamed'
         /\ call'[t][c] = r
         /\ \A u \in Tabs, d \in Calls :
              <<u, d>> # <<t, c>> => call'[u][d] = call[u][d]
  BY DEF TypeInv, TypeOK, TokensAreNamed, SetCall

LEMMA CallEnds ==
  ASSUME TypeInv, NEW t \in Tabs, NEW c \in Calls, SetCall(t, c, Idle)
  PROVE  /\ call' \in [Tabs -> [Calls -> CallRecords]]
         /\ TokensAreNamed'
  BY CallChanges, IdleType

LEMMA StoreChanges ==
  ASSUME TypeInv, NEW t \in Tabs, NEW s \in Stores, SetStore(t, s)
  PROVE  store' \in [Tabs -> Stores]
  BY DEF TypeInv, TypeOK, SetStore

LEMMA SignedOutType == SignedOut \in Stores
  BY DEF SignedOut, Stores

LEMMA Gone ==
  ASSUME TypeInv, NEW t \in Tabs, NEW p \in Paths, GoTo(t, p)
  PROVE  path' \in [Tabs -> Paths] /\ form' \in [Tabs -> {"first", "second"}]
  BY DEF TypeInv, TypeOK, GoTo

LEMMA GuardType ==
  ASSUME TypeInv, NEW t \in Tabs
  PROVE  RequireAuth(t) \in Paths
  BY DEF TypeInv, TypeOK, RequireAuth, LoginPath, Paths, AdminPaths

LEMMA AskType ==
  ASSUME TypeInv, NEW t \in Tabs, NEW c \in Calls,
         NEW kind \in {"none", "timer", "admin", "gallery", "change", "first", "second",
                       "logout"},
         NEW then \in {"end", "retry", "nobody"},
         Ask(t, c, kind, then)
  PROVE  call' \in [Tabs -> [Calls -> CallRecords]] /\ TokensAreNamed'
<1> DEFINE r == [kind |-> kind, at |-> "asked", then |-> then, token |-> NoToken,
                 raw |-> cookie]
<1>1. r \in CallRecords /\ r.at \notin Named
  BY DEF TypeInv, TypeOK, CallRecords, Points, Named, NoToken
<1>2. SetCall(t, c, r)
  BY DEF Ask
<1> HIDE DEF r
<1> QED
  BY <1>1, <1>2, CallChanges

LEMMA ContinueType ==
  ASSUME NEW v \in CallRecords, NEW x \in AccessTokens \cup {NoToken}
  PROVE  /\ Continue(v, x) \in CallRecords
         /\ Continue(v, x).at \in {"resent", "home", "login", "idle"}
         /\ Continue(v, x).raw = None
  BY DEF Continue, CallRecords, Points, Idle, NoToken

LEMMA IssueType ==
  ASSUME TypeInv, NEW t \in Tabs, NEW c \in Calls, NEW k, NEW a \in Accounts,
         Issue(t, c, k, a)
  PROVE  row' \in [Tokens -> Accounts \cup {None}]
  BY DEF TypeInv, TypeOK, Issue

LEMMA FreshToken ==
  ASSUME NEW t \in Tabs, NEW c \in Calls, Unused(t, c) # {},
         NEW k, k = CHOOSE x \in Unused(t, c) : TRUE
  PROVE  k \in Tokens /\ k \notin HeldBeside(t, c)
<1>1. k \in Unused(t, c)
  OBVIOUS
<1> QED
  BY <1>1 DEF Unused

LEMMA InitTypes == Init => TypeInv
<1> SUFFICES ASSUME Init PROVE TypeInv
  OBVIOUS
<1>1. call \in [Tabs -> [Calls -> CallRecords]] /\ TokensAreNamed
  BY IdleType DEF Init, TokensAreNamed
<1>2. store \in [Tabs -> Stores]
  BY SignedOutType DEF Init
<1>3. path \in [Tabs -> Paths] /\ form \in [Tabs -> {"first", "second"}]
  BY DEF Init, Paths
<1> QED
  BY <1>1, <1>2, <1>3 DEF Init, TypeInv, TypeOK

-----------------------------------------------------------------------------
(* The steps of a refresh.                                                  *)
LEMMA RefreshTypes ==
  ASSUME TypeInv, NEW t \in Tabs, NEW c \in Calls,
         \/ RefreshRead(t, c) \/ RefreshSave(t, c) \/ RefreshRefuse(t, c)
         \/ Refreshed(t, c) \/ RefreshDenied(t, c) \/ RefreshLost(t, c)
         \/ Timer(t, c)
  PROVE  TypeInv'
<1> DEFINE v == call[t][c]
<1>0. v \in CallRecords /\ (v.at \in Named => v.token.of \in Accounts)
  BY DEF TypeInv, TypeOK, TokensAreNamed
<1>1. CASE RefreshRead(t, c)
  <2>1. row[v.raw] \in Accounts
    BY <1>1 DEF TypeInv, TypeOK, RefreshRead, Active
  <2> DEFINE r == [v EXCEPT !.at = "read", !.token = Access(row[v.raw])]
  <2>2. Access(row[v.raw]) \in AccessTokens /\ Access(row[v.raw]).of \in Accounts
    BY <2>1, AccessType DEF TypeInv, TypeOK
  <2>3. r \in CallRecords /\ r.token.of \in Accounts
    BY <1>0, <2>2 DEF CallRecords, Points
  <2>4. SetCall(t, c, r)
    BY <1>1 DEF RefreshRead
  <2> HIDE DEF r
  <2>5. call' \in [Tabs -> [Calls -> CallRecords]] /\ TokensAreNamed'
    BY <2>3, <2>4, CallChanges
  <2> QED
    BY <1>1, <2>5 DEF TypeInv, TypeOK, RefreshRead, server
<1>2. CASE RefreshSave(t, c)
  <2> DEFINE k == CHOOSE x \in Unused(t, c) : TRUE
             r == [v EXCEPT !.at = "got", !.raw = k]
  <2>1. k \in Tokens /\ v.token.of \in Accounts
    BY <1>0, <1>2, FreshToken DEF RefreshSave, Named
  <2>2. SetCall(t, c, r) /\ Issue(t, c, k, v.token.of)
    BY <1>2 DEF RefreshSave
  <2> HIDE DEF k
  <2>3. r \in CallRecords /\ r.token.of \in Accounts
    BY <1>0, <2>1 DEF CallRecords, Points
  <2> HIDE DEF r
  <2>4. call' \in [Tabs -> [Calls -> CallRecords]] /\ TokensAreNamed'
    BY <2>2, <2>3, CallChanges
  <2>5. row' \in [Tokens -> Accounts \cup {None}]
    BY <2>1, <2>2, IssueType
  <2> QED
    BY <1>2, <2>4, <2>5 DEF TypeInv, TypeOK, RefreshSave
<1>3. CASE RefreshRefuse(t, c)
  <2> DEFINE r == [v EXCEPT !.at = "refused"]
  <2>1. r \in CallRecords /\ r.at \notin Named
    BY <1>0 DEF CallRecords, Points, Named
  <2>2. SetCall(t, c, r)
    BY <1>3 DEF RefreshRefuse
  <2> HIDE DEF r
  <2>3. call' \in [Tabs -> [Calls -> CallRecords]] /\ TokensAreNamed'
    BY <2>1, <2>2, CallChanges
  <2> QED
    BY <1>3, <2>3 DEF TypeInv, TypeOK, RefreshRefuse, server
<1>4. CASE Refreshed(t, c)
  <2>1. v.token \in AccessTokens /\ v.raw \in Tokens \cup {None}
    BY <1>0, <1>4, NamedIsAccess DEF Refreshed, Named, CallRecords
  <2>2. Continue(v, v.token) \in CallRecords /\ Continue(v, v.token).at \notin Named
    BY <1>0, <2>1, ContinueType DEF Named
  <2>3. SetCall(t, c, Continue(v, v.token))
    BY <1>4 DEF Refreshed
  <2>4. call' \in [Tabs -> [Calls -> CallRecords]] /\ TokensAreNamed'
    BY <2>2, <2>3, CallChanges
  <2>5. store' \in [Tabs -> Stores]
    <3> DEFINE s == [store[t] EXCEPT !.token = v.token, !.must = v.token.must]
    <3>1. s \in Stores
      <4>1. store[t] \in Stores /\ v.token.must \in BOOLEAN
        BY <2>1 DEF TypeInv, TypeOK, AccessTokens
      <4> HIDE DEF v
      <4> QED
        BY <2>1, <4>1 DEF Stores
    <3>2. CASE store[t].role = None
      BY <1>4, <3>2 DEF TypeInv, TypeOK, Refreshed
    <3>3. CASE store[t].role # None
      <4>1. SetStore(t, s)
        BY <1>4, <3>3 DEF Refreshed
      <4> HIDE DEF s
      <4> QED
        BY <3>1, <4>1, StoreChanges
    <3> QED
      BY <3>2, <3>3
  <2> QED
    BY <1>4, <2>1, <2>4, <2>5 DEF TypeInv, TypeOK, Refreshed, server, Stay
<1>5. CASE RefreshDenied(t, c) \/ RefreshLost(t, c)
  <2>1. Continue(v, NoToken) \in CallRecords /\ Continue(v, NoToken).at \notin Named
    BY <1>0, ContinueType DEF Named
  <2>2. SetCall(t, c, Continue(v, NoToken)) /\ SetStore(t, SignedOut)
    BY <1>5 DEF RefreshDenied, RefreshLost, clearAuth
  <2>3. call' \in [Tabs -> [Calls -> CallRecords]] /\ TokensAreNamed'
    BY <2>1, <2>2, CallChanges
  <2>4. store' \in [Tabs -> Stores]
    BY <2>2, SignedOutType, StoreChanges
  <2>5. cookie' \in Tokens \cup {None} /\ broken' \in BOOLEAN
    BY <1>5 DEF TypeInv, TypeOK, RefreshDenied, RefreshLost
  <2> QED
    BY <1>5, <2>3, <2>4, <2>5 DEF TypeInv, TypeOK, RefreshDenied, RefreshLost, server, Stay
<1>6. CASE Timer(t, c)
  <2>1. Ask(t, c, "timer", "end")
    BY <1>6 DEF Timer
  <2>2. call' \in [Tabs -> [Calls -> CallRecords]] /\ TokensAreNamed'
    BY <2>1, AskType
  <2> QED
    BY <1>6, <2>2 DEF TypeInv, TypeOK, Timer, server
<1> QED
  BY <1>1, <1>2, <1>3, <1>4, <1>5, <1>6

(* The steps of a request of a page.                                        *)
LEMMA RequestTypes ==
  ASSUME TypeInv, NEW t \in Tabs, NEW c \in Calls,
         \/ \E kind \in {"admin", "gallery", "change"}, at \in {"sent", "resent"} :
              Send(t, c, kind, at)
         \/ Answered(t, c) \/ Failed(t, c) \/ Renew(t, c) \/ Leave(t, c)
  PROVE  TypeInv'
<1> DEFINE v == call[t][c]
<1>0. v \in CallRecords
  BY DEF TypeInv, TypeOK
<1>1. CASE \E kind \in {"admin", "gallery", "change"}, at \in {"sent", "resent"} :
             Send(t, c, kind, at)
  <2>1. PICK kind \in {"admin", "gallery", "change"}, at \in {"sent", "resent"} :
          Send(t, c, kind, at)
    BY <1>1
  <2> DEFINE r == [Idle EXCEPT !.kind = kind, !.at = at, !.token = store[t].token]
  <2>2. store[t].token \in AccessTokens \cup {NoToken}
    BY DEF TypeInv, TypeOK, Stores
  <2>3. r \in CallRecords /\ r.at \notin Named
    BY <2>2, IdleType DEF CallRecords, Points, Named
  <2>4. SetCall(t, c, r)
    BY <2>1 DEF Send
  <2> HIDE DEF r
  <2>5. call' \in [Tabs -> [Calls -> CallRecords]] /\ TokensAreNamed'
    BY <2>3, <2>4, CallChanges
  <2> QED
    BY <2>1, <2>5 DEF TypeInv, TypeOK, Send, server
<1>2. CASE Answered(t, c)
  <2>1. \/ SetCall(t, c, [v EXCEPT !.at = "changed"])
        \/ SetCall(t, c, Idle)
        \/ Ask(t, c, v.kind, "retry")
    BY <1>2 DEF Answered
  <2>2. call' \in [Tabs -> [Calls -> CallRecords]] /\ TokensAreNamed'
    <3>1. CASE SetCall(t, c, [v EXCEPT !.at = "changed"])
      <4> DEFINE r == [v EXCEPT !.at = "changed"]
      <4>1. r \in CallRecords /\ r.at \notin Named
        BY <1>0 DEF CallRecords, Points, Named
      <4> HIDE DEF r
      <4> QED
        BY <3>1, <4>1, CallChanges DEF r
    <3>2. CASE SetCall(t, c, Idle)
      BY <3>2, CallEnds
    <3>3. CASE Ask(t, c, v.kind, "retry")
      <4>1. v.kind \in {"none", "timer", "admin", "gallery", "change", "first",
                        "second", "logout"}
        BY <1>0 DEF CallRecords
      <4> HIDE DEF v
      <4> QED
        BY <3>3, <4>1, AskType
    <3> QED
      BY <2>1, <3>1, <3>2, <3>3
  <2>3. must' \in BOOLEAN
    BY <1>2 DEF TypeInv, TypeOK, Answered
  <2> QED
    BY <1>2, <2>2, <2>3 DEF TypeInv, TypeOK, Answered
<1>3. CASE Failed(t, c)
  <2>1. call' \in [Tabs -> [Calls -> CallRecords]] /\ TokensAreNamed'
    BY <1>3, CallEnds DEF Failed
  <2> QED
    BY <1>3, <2>1 DEF TypeInv, TypeOK, Failed, server
<1>4. CASE Renew(t, c)
  <2>1. call' \in [Tabs -> [Calls -> CallRecords]] /\ TokensAreNamed'
    BY <1>4, AskType DEF Renew
  <2> QED
    BY <1>4, <2>1 DEF TypeInv, TypeOK, Renew, server
<1>5. CASE Leave(t, c)
  <2>1. call' \in [Tabs -> [Calls -> CallRecords]] /\ TokensAreNamed'
    BY <1>5, CallEnds DEF Leave
  <2>2. PICK p \in Paths : GoTo(t, p)
    BY <1>5 DEF Leave, Paths, AdminPaths
  <2>3. path' \in [Tabs -> Paths] /\ form' \in [Tabs -> {"first", "second"}]
    BY <2>2, Gone
  <2> QED
    BY <1>5, <2>1, <2>3 DEF TypeInv, TypeOK, Leave, server
<1> QED
  BY <1>1, <1>2, <1>3, <1>4, <1>5

(* The steps of a login.                                                    *)
LEMMA LoginTypes ==
  ASSUME TypeInv, NEW t \in Tabs, NEW c \in Calls,
         \/ \E a \in Accounts : Submit(t, c, a)
         \/ Credentials(t, c) \/ CheckCode(t, c) \/ Grant(t, c) \/ SignedIn(t, c)
  PROVE  TypeInv'
<1> DEFINE v == call[t][c]
<1>0. v \in CallRecords /\ (v.at \in Named => v.token.of \in Accounts)
  BY DEF TypeInv, TypeOK, TokensAreNamed
<1>1. CASE \E a \in Accounts : Submit(t, c, a)
  <2>1. PICK a \in Accounts : Submit(t, c, a)
    BY <1>1
  <2> DEFINE x == [NoToken EXCEPT !.of = a]
             r == [Idle EXCEPT !.kind = form[t], !.at = "posted", !.token = x]
  <2>2. x \in [of : Accounts, must : {FALSE}, fresh : {FALSE}] /\ x.of = a
    BY DEF NoToken
  <2>3. form[t] \in {"first", "second"}
    BY DEF TypeInv, TypeOK
  <2>4. SetCall(t, c, r)
    BY <2>1 DEF Submit
  <2> HIDE DEF x
  <2>5. r \in CallRecords /\ r.token.of \in Accounts
    BY <2>2, <2>3, IdleType DEF CallRecords, Points
  <2> HIDE DEF r
  <2>6. call' \in [Tabs -> [Calls -> CallRecords]] /\ TokensAreNamed'
    BY <2>4, <2>5, CallChanges
  <2> QED
    BY <2>1, <2>6 DEF TypeInv, TypeOK, Submit, server
<1>2. CASE Credentials(t, c)
  <2>1. call' \in [Tabs -> [Calls -> CallRecords]] /\ TokensAreNamed'
    BY <1>2, CallEnds DEF Credentials
  <2>2. form' \in [Tabs -> {"first", "second"}]
    BY <1>2 DEF TypeInv, TypeOK, Credentials
  <2> QED
    BY <1>2, <2>1, <2>2 DEF TypeInv, TypeOK, Credentials, server
<1>3. CASE CheckCode(t, c)
  <2> DEFINE x == Access(v.token.of)
             r == [v EXCEPT !.at = "checked", !.kind = "second", !.token = x]
  <2>1. v.token.of \in Accounts
    BY <1>0, <1>3 DEF CheckCode, Named
  <2>2. x \in AccessTokens /\ x.of \in Accounts
    BY <2>1, AccessType DEF TypeInv, TypeOK
  <2>3. SetCall(t, c, r)
    BY <1>3 DEF CheckCode
  <2> HIDE DEF x
  <2>4. r \in CallRecords /\ r.token.of \in Accounts
    BY <1>0, <2>2 DEF CallRecords, Points
  <2> HIDE DEF r
  <2>5. call' \in [Tabs -> [Calls -> CallRecords]] /\ TokensAreNamed'
    BY <2>3, <2>4, CallChanges
  <2> QED
    BY <1>3, <2>5 DEF TypeInv, TypeOK, CheckCode, server
<1>4. CASE Grant(t, c)
  <2> DEFINE k == CHOOSE x \in Unused(t, c) : TRUE
             r == [v EXCEPT !.at = "granted", !.raw = k]
  <2>1. k \in Tokens
    BY <1>4, FreshToken DEF Grant
  <2>2. SetCall(t, c, r) /\ Issue(t, c, k, v.token.of)
    BY <1>4 DEF Grant
  <2> HIDE DEF k
  <2>3. v.token.of \in Accounts
    BY <1>0, <1>4 DEF Grant, Named
  <2>4. r \in CallRecords /\ r.token.of \in Accounts
    BY <1>0, <2>1, <2>3 DEF CallRecords, Points
  <2> HIDE DEF r
  <2>5. call' \in [Tabs -> [Calls -> CallRecords]] /\ TokensAreNamed'
    BY <2>2, <2>4, CallChanges
  <2>6. row' \in [Tokens -> Accounts \cup {None}]
    BY <2>2, <2>3, IssueType
  <2> QED
    BY <1>4, <2>5, <2>6 DEF TypeInv, TypeOK, Grant
<1>5. CASE SignedIn(t, c)
  <2>1. v.token \in AccessTokens /\ v.raw \in Tokens \cup {None}
    BY <1>0, <1>5, NamedIsAccess DEF SignedIn, Named, CallRecords
  <2>2. call' \in [Tabs -> [Calls -> CallRecords]] /\ TokensAreNamed'
    BY <1>5, CallEnds DEF SignedIn
  <2> DEFINE s == [token |-> v.token, role |-> v.token.of, must |-> v.token.must,
                   auth |-> TRUE]
  <2>3. SetStore(t, s)
    BY <1>5 DEF SignedIn, setAuth
  <2>4. PICK p \in Wanted(v.token.of) : GoTo(t, p)
    BY <1>5 DEF SignedIn
  <2>5. p \in Paths
    BY DEF Wanted, Paths, AdminPaths
  <2>6. cookie' \in Tokens \cup {None}
    BY <1>5, <2>1 DEF SignedIn
  <2> HIDE DEF v
  <2>7. s \in Stores
    BY <2>1 DEF Stores, AccessTokens
  <2> HIDE DEF s
  <2>8. store' \in [Tabs -> Stores]
    BY <2>3, <2>7, StoreChanges
  <2>9. path' \in [Tabs -> Paths] /\ form' \in [Tabs -> {"first", "second"}]
    BY <2>4, <2>5, Gone
  <2> QED
    BY <1>5, <2>2, <2>6, <2>8, <2>9 DEF TypeInv, TypeOK, SignedIn, server
<1> QED
  BY <1>1, <1>2, <1>3, <1>4, <1>5

(* The steps of a logout, and the end of a call nobody waits for.           *)
LEMMA LogoutTypes ==
  ASSUME TypeInv, NEW t \in Tabs, NEW c \in Calls,
         Logout(t, c) \/ Revoke(t, c) \/ LoggedOut(t, c) \/ Unheard(t, c)
  PROVE  TypeInv'
<1> DEFINE v == call[t][c]
<1>0. v \in CallRecords
  BY DEF TypeInv, TypeOK
<1>1. CASE Logout(t, c)
  <2> DEFINE r == [Idle EXCEPT !.kind = "logout", !.at = "leaving", !.raw = cookie]
  <2>1. r \in CallRecords /\ r.at \notin Named
    BY IdleType DEF TypeInv, TypeOK, CallRecords, Points, Named
  <2>2. SetCall(t, c, r)
    BY <1>1 DEF Logout
  <2> HIDE DEF r
  <2>3. call' \in [Tabs -> [Calls -> CallRecords]] /\ TokensAreNamed'
    BY <2>1, <2>2, CallChanges
  <2> QED
    BY <1>1, <2>3 DEF TypeInv, TypeOK, Logout, server
<1>2. CASE Revoke(t, c)
  <2> DEFINE r == [v EXCEPT !.at = "left"]
  <2>1. r \in CallRecords /\ r.at \notin Named
    BY <1>0 DEF CallRecords, Points, Named
  <2>2. SetCall(t, c, r)
    BY <1>2 DEF Revoke
  <2> HIDE DEF r
  <2>3. call' \in [Tabs -> [Calls -> CallRecords]] /\ TokensAreNamed'
    BY <2>1, <2>2, CallChanges
  <2>4. row' \in [Tokens -> Accounts \cup {None}]
    BY <1>2 DEF TypeInv, TypeOK, Revoke
  <2> QED
    BY <1>2, <2>3, <2>4 DEF TypeInv, TypeOK, Revoke
<1>3. CASE LoggedOut(t, c)
  <2>1. call' \in [Tabs -> [Calls -> CallRecords]] /\ TokensAreNamed'
    BY <1>3, CallEnds DEF LoggedOut
  <2>2. store' \in [Tabs -> Stores]
    BY <1>3, SignedOutType, StoreChanges DEF LoggedOut, clearAuth
  <2>3. path' \in [Tabs -> Paths] /\ form' \in [Tabs -> {"first", "second"}]
    BY <1>3, Gone DEF LoggedOut, Paths
  <2> QED
    BY <1>3, <2>1, <2>2, <2>3 DEF TypeInv, TypeOK, LoggedOut, server
<1>4. CASE Unheard(t, c)
  <2>1. call' \in [Tabs -> [Calls -> CallRecords]] /\ TokensAreNamed'
    BY <1>4, CallEnds DEF Unheard
  <2>2. row' \in [Tokens -> Accounts \cup {None}]
    BY <1>4 DEF TypeInv, TypeOK, Unheard
  <2> QED
    BY <1>4, <2>1, <2>2 DEF TypeInv, TypeOK, Unheard
<1> QED
  BY <1>1, <1>2, <1>3, <1>4

(* A reload keeps of the calls what the server is still about to write.     *)
LEMMA ReloadTypes ==
  ASSUME TypeInv, NEW t \in Tabs, NEW p \in Paths, Reload(t, p)
  PROVE  TypeInv'
<1> DEFINE f == [c \in Calls |->
                   IF call[t][c].at \in {"read", "leaving"}
                     THEN [call[t][c] EXCEPT !.then = "nobody"] ELSE Idle]
           s == [store[t] EXCEPT !.auth = FALSE]
<1>1. \A c \in Calls : /\ f[c] \in CallRecords
                       /\ f[c].at \in Named => f[c].token.of \in Accounts
  <2> SUFFICES ASSUME NEW c \in Calls
               PROVE  /\ f[c] \in CallRecords
                      /\ f[c].at \in Named => f[c].token.of \in Accounts
    OBVIOUS
  <2> DEFINE v == call[t][c]
  <2>1. v \in CallRecords /\ (v.at \in Named => v.token.of \in Accounts)
    BY DEF TypeInv, TypeOK, TokensAreNamed
  <2>2. f[c] = IF v.at \in {"read", "leaving"} THEN [v EXCEPT !.then = "nobody"]
               ELSE Idle
    OBVIOUS
  <2> HIDE DEF v, f
  <2> QED
    BY <2>1, <2>2, IdleType DEF CallRecords, Named
<1>2. call' = [call EXCEPT ![t] = f] /\ f \in [Calls -> CallRecords]
  BY <1>1 DEF Reload
<1> HIDE DEF f
<1>3. call' \in [Tabs -> [Calls -> CallRecords]] /\ TokensAreNamed'
  BY <1>1, <1>2 DEF TypeInv, TypeOK, TokensAreNamed
<1>4. store[t] \in Stores /\ SetStore(t, s)
  BY DEF TypeInv, TypeOK, Reload
<1>5. s \in Stores
  BY <1>4 DEF Stores
<1> HIDE DEF s
<1>6. store' \in [Tabs -> Stores]
  BY <1>4, <1>5, StoreChanges
<1>7. path' \in [Tabs -> Paths] /\ form' \in [Tabs -> {"first", "second"}]
  BY DEF TypeInv, TypeOK, Reload
<1>8. broken' \in BOOLEAN
  BY DEF TypeInv, TypeOK, Reload
<1> QED
  BY <1>3, <1>6, <1>7, <1>8 DEF TypeInv, TypeOK, Reload, server

(* The steps of a tab that no call takes.                                   *)
LEMMA TabTypes ==
  ASSUME TypeInv, NEW t \in Tabs,
         \/ Abandon(t) \/ Follow(t) \/ Back(t) \/ Redirect(t) \/ Expire(t)
  PROVE  TypeInv'
<1>1. CASE Abandon(t)
  <2>1. store' \in [Tabs -> Stores]
    BY <1>1, SignedOutType, StoreChanges DEF Abandon, clearAuth
  <2>2. path' \in [Tabs -> Paths] /\ form' \in [Tabs -> {"first", "second"}]
    BY <1>1, Gone DEF Abandon, Paths
  <2> QED
    BY <1>1, <2>1, <2>2 DEF TypeInv, TypeOK, TokensAreNamed, Abandon, server
<1>2. CASE Follow(t) \/ Redirect(t)
  <2>1. PICK p \in Paths : GoTo(t, p)
    BY <1>2, GuardType DEF Follow, Redirect, Paths
  <2>2. path' \in [Tabs -> Paths] /\ form' \in [Tabs -> {"first", "second"}]
    BY <2>1, Gone
  <2> QED
    BY <1>2, <2>2 DEF TypeInv, TypeOK, TokensAreNamed, Follow, Redirect, server
<1>3. CASE Back(t)
  BY <1>3 DEF TypeInv, TypeOK, TokensAreNamed, Back, server
<1>4. CASE Expire(t)
  <2> DEFINE s == [store[t] EXCEPT !.token.fresh = FALSE]
  <2>1. store[t] \in Stores /\ store[t].token.fresh
    BY <1>4 DEF TypeInv, TypeOK, Expire
  <2>2. store[t].token \in AccessTokens
    BY <2>1 DEF Stores, NoToken
  <2>3. [store[t].token EXCEPT !.fresh = FALSE] \in AccessTokens
    BY <2>2 DEF AccessTokens
  <2>4. SetStore(t, s)
    BY <1>4 DEF Expire
  <2>5. s \in Stores
    BY <2>1, <2>3 DEF Stores
  <2> HIDE DEF s
  <2>6. store' \in [Tabs -> Stores]
    BY <2>4, <2>5, StoreChanges
  <2> QED
    BY <1>4, <2>6 DEF TypeInv, TypeOK, TokensAreNamed, Expire, server
<1> QED
  BY <1>1, <1>2, <1>3, <1>4

LEMMA TypeStep == TypeInv /\ [Next]_vars => TypeInv'
<1> SUFFICES ASSUME TypeInv, [Next]_vars PROVE TypeInv'
  OBVIOUS
<1>1. ASSUME NEW t \in Tabs, NEW c \in Calls, Progress(t, c) \/ Timer(t, c)
      PROVE  TypeInv'
  BY <1>1, RefreshTypes, RequestTypes, LoginTypes, LogoutTypes DEF Progress
<1>2. ASSUME NEW t \in Tabs, Use(t)
      PROVE  TypeInv'
  <2>1. \A p \in {path[t], "/"} : p \in Paths
    BY DEF TypeInv, TypeOK, Paths
  <2> QED
    BY <1>2, <2>1, RequestTypes, LoginTypes, LogoutTypes, TabTypes, ReloadTypes DEF Use
<1>3. ASSUME NEW t \in Tabs, Redirect(t) \/ Expire(t)
      PROVE  TypeInv'
  BY <1>3, TabTypes
<1>4. ASSUME NEW k \in Tokens, SessionEnds(k)
      PROVE  TypeInv'
  BY <1>4 DEF TypeInv, TypeOK, TokensAreNamed, SessionEnds
<1>5. CASE ResetPassword
  BY <1>5 DEF TypeInv, TypeOK, TokensAreNamed, ResetPassword
<1>6. CASE UNCHANGED vars
  BY <1>6 DEF TypeInv, TypeOK, TokensAreNamed, vars, server
<1> QED
  BY <1>1, <1>2, <1>3, <1>4, <1>5, <1>6 DEF Next

(* Every variable of a browser's sessions stays in its type, whatever calls *)
(* are answered, lost or reloaded away.                                     *)
THEOREM SessionTypeCorrect == Spec => []TypeOK
<1>1. TypeInv => TypeOK
  BY DEF TypeInv
<1> QED
  BY <1>1, InitTypes, TypeStep, PTL DEF Spec

-----------------------------------------------------------------------------
(* What a store holds, tab by tab.                                          *)
Honest(s) == (s.role = None => s = SignedOut) /\ (s.auth => s.token # NoToken)

LEMMA HonestStore ==
  ASSUME TypeInv, SignedOutHoldsNothing, NEW t \in Tabs, NEW s, Honest(s),
         SetStore(t, s)
  PROVE  SignedOutHoldsNothing'
  BY DEF TypeInv, TypeOK, SignedOutHoldsNothing, Honest, SetStore

LEMMA ClearedIsHonest ==
  ASSUME TypeInv, SignedOutHoldsNothing, NEW t \in Tabs, clearAuth(t)
  PROVE  SignedOutHoldsNothing'
<1>1. Honest(SignedOut)
  BY DEF Honest, SignedOut
<1> QED
  BY <1>1, HonestStore DEF clearAuth

(* The answers that change a store.                                         *)
LEMMA AnswersAreHonest ==
  ASSUME TypeInv, SignedOutHoldsNothing, NEW t \in Tabs, NEW c \in Calls,
         Refreshed(t, c) \/ SignedIn(t, c)
  PROVE  SignedOutHoldsNothing'
<1> DEFINE v == call[t][c]
<1>1. v.token \in AccessTokens /\ v.token.of \in Accounts
  <2>1. v \in CallRecords /\ v.token.of \in Accounts
    BY DEF TypeInv, TypeOK, TokensAreNamed, Named, Refreshed, SignedIn
  <2> QED
    BY <2>1, NamedIsAccess DEF CallRecords
<1>2. v.token # NoToken /\ v.token.of # None
  BY <1>1, AccessIsToken, NoneIsNew
<1>3. CASE Refreshed(t, c)
  <2> DEFINE s == [store[t] EXCEPT !.token = v.token, !.must = v.token.must]
  <2>1. CASE store[t].role = None
    BY <1>3, <2>1 DEF Refreshed, SignedOutHoldsNothing
  <2>2. CASE store[t].role # None
    <3>1. SetStore(t, s) /\ store[t] \in Stores
      BY <1>3, <2>2 DEF Refreshed, TypeInv, TypeOK
    <3> HIDE DEF v
    <3>2. s.role # None /\ s.token # NoToken
      BY <1>2, <2>2, <3>1 DEF Stores
    <3>3. Honest(s)
      BY <3>2 DEF Honest
    <3> HIDE DEF s
    <3> QED
      BY <3>1, <3>3, HonestStore
  <2> QED
    BY <2>1, <2>2
<1>4. CASE SignedIn(t, c)
  <2> DEFINE s == [token |-> v.token, role |-> v.token.of, must |-> v.token.must,
                   auth |-> TRUE]
  <2>1. SetStore(t, s)
    BY <1>4 DEF SignedIn, setAuth
  <2>2. Honest(s)
    BY <1>2 DEF Honest
  <2> HIDE DEF s
  <2> QED
    BY <2>1, <2>2, HonestStore
<1> QED
  BY <1>3, <1>4

LEMMA ReloadIsHonest ==
  ASSUME TypeInv, SignedOutHoldsNothing, NEW t \in Tabs, NEW p, Reload(t, p)
  PROVE  SignedOutHoldsNothing'
<1> DEFINE s == [store[t] EXCEPT !.auth = FALSE]
<1>1. SetStore(t, s) /\ store[t] \in Stores
  BY DEF Reload, TypeInv, TypeOK
<1>2. s.auth = FALSE /\ s.role = store[t].role
  BY <1>1 DEF Stores
<1>3. store[t].role = None => s = SignedOut
  <2>1. ASSUME NEW x \in Stores, x.auth = FALSE
        PROVE  [x EXCEPT !.auth = FALSE] = x
    BY <2>1 DEF Stores
  <2>2. SignedOut.auth = FALSE
    BY DEF SignedOut
  <2> HIDE DEF s
  <2>3. store[t].role = None => store[t] = SignedOut
    BY DEF SignedOutHoldsNothing
  <2> QED
    BY <1>1, <2>1, <2>2, <2>3, SignedOutType DEF s
<1>4. Honest(s)
  BY <1>2, <1>3 DEF Honest
<1> HIDE DEF s
<1> QED
  BY <1>1, <1>4, HonestStore

LEMMA ExpiryIsHonest ==
  ASSUME TypeInv, SignedOutHoldsNothing, NEW t \in Tabs, Expire(t)
  PROVE  SignedOutHoldsNothing'
<1> DEFINE s == [store[t] EXCEPT !.token.fresh = FALSE]
<1>1. SetStore(t, s) /\ store[t] \in Stores /\ store[t].token.fresh
  BY DEF Expire, TypeInv, TypeOK
<1>2. store[t].role # None
  BY <1>1 DEF SignedOutHoldsNothing, SignedOut, NoToken
<1>3. store[t].token \in AccessTokens
  BY <1>1 DEF Stores, NoToken
<1>4. [store[t].token EXCEPT !.fresh = FALSE] \in AccessTokens
  BY <1>3 DEF AccessTokens
<1>5. s.role # None /\ s.token # NoToken
  BY <1>1, <1>2, <1>4, AccessIsToken DEF Stores
<1>6. Honest(s)
  BY <1>5 DEF Honest
<1> HIDE DEF s
<1> QED
  BY <1>1, <1>6, HonestStore

LEMMA HonestStep ==
  TypeInv /\ SignedOutHoldsNothing /\ [Next]_vars => SignedOutHoldsNothing'
<1> SUFFICES ASSUME TypeInv, SignedOutHoldsNothing, [Next]_vars
             PROVE  SignedOutHoldsNothing'
  OBVIOUS
<1>1. ASSUME UNCHANGED store PROVE SignedOutHoldsNothing'
  BY <1>1 DEF SignedOutHoldsNothing
<1>2. ASSUME NEW t \in Tabs, NEW c \in Calls, Progress(t, c) \/ Timer(t, c)
      PROVE  SignedOutHoldsNothing'
  <2>1. \/ UNCHANGED store \/ clearAuth(t)
        \/ Refreshed(t, c) \/ SignedIn(t, c)
    BY <1>2 DEF Progress, Timer, RefreshRead, RefreshSave, RefreshRefuse, RefreshDenied,
      RefreshLost, Answered, Failed, Renew, Leave, Credentials, CheckCode, Grant,
      Revoke, LoggedOut, Unheard
  <2> QED
    BY <1>1, <2>1, ClearedIsHonest, AnswersAreHonest
<1>3. ASSUME NEW t \in Tabs, Use(t) \/ Redirect(t) \/ Expire(t)
      PROVE  SignedOutHoldsNothing'
  <2>1. \/ UNCHANGED store \/ clearAuth(t) \/ Expire(t)
        \/ \E p \in {path[t], "/"} : Reload(t, p)
    BY <1>3 DEF Use, Redirect, Send, Submit, Logout, Abandon, Follow, Back
  <2> QED
    BY <1>1, <2>1, ClearedIsHonest, ReloadIsHonest, ExpiryIsHonest
<1>4. ASSUME NEW k \in Tokens, SessionEnds(k) PROVE SignedOutHoldsNothing'
  BY <1>1, <1>4 DEF SessionEnds
<1>5. CASE ResetPassword
  BY <1>1, <1>5 DEF ResetPassword
<1>6. CASE UNCHANGED vars
  BY <1>1, <1>6 DEF vars
<1> QED
  BY <1>2, <1>3, <1>4, <1>5, <1>6 DEF Next

(* A tab that signed out keeps nothing of its session, whatever answers of  *)
(* refreshes, logins and logouts arrive afterwards.                         *)
THEOREM SignedOutStaysEmpty == Spec => []SignedOutHoldsNothing
<1>1. Init => TypeInv /\ SignedOutHoldsNothing
  <2>1. Init => SignedOutHoldsNothing
    BY DEF Init, SignedOutHoldsNothing, SignedOut
  <2> QED
    BY <2>1, InitTypes
<1>2. TypeInv /\ SignedOutHoldsNothing /\ [Next]_vars
        => (TypeInv /\ SignedOutHoldsNothing)'
  BY TypeStep, HonestStep
<1> QED
  BY <1>1, <1>2, PTL DEF Spec

-----------------------------------------------------------------------------
(* Answers with a cookie bring one nobody else holds, which is good until   *)
(* something breaks; and a cookie the server no longer accepts is about to  *)
(* be replaced by such an answer, or deleted by that of a logout.           *)
Brings(t, c) == call[t][c].at \in {"got", "granted"}

Replaces(t, c) ==
  Brings(t, c) \/ (call[t][c].at = "left" /\ call[t][c].raw # None)

OnlyItsOwn(t, c) ==
  /\ call[t][c].raw \in Tokens
  /\ call[t][c].raw # cookie
  /\ \A u \in Tabs, d \in Calls :
       <<u, d>> # <<t, c>> => call[u][d].raw # call[t][c].raw

AnswersAreNew == \A t \in Tabs, c \in Calls : Brings(t, c) => OnlyItsOwn(t, c)

AnswersAreLive ==
  ~broken => \A t \in Tabs, c \in Calls : Brings(t, c) => row[call[t][c].raw] # None

CookieGoesOn ==
  ~broken /\ cookie # None =>
    Active(cookie) \/ \E t \in Tabs, c \in Calls : Replaces(t, c)

CookieInv == AnswersAreNew /\ AnswersAreLive /\ CookieGoesOn

(* A call moves on, and neither brings a cookie nor brought one unnoticed.  *)
LEMMA MovesOn ==
  ASSUME TypeInv, CookieInv, NEW t \in Tabs, NEW c \in Calls, NEW r \in CallRecords,
         r.at \notin {"got", "granted"}, r.raw \in {None, cookie, call[t][c].raw},
         ~Replaces(t, c) \/ broken', broken => broken',
         SetCall(t, c, r), UNCHANGED <<row, cookie>>
  PROVE  CookieInv'
<1>1. /\ call'[t][c] = r
      /\ \A u \in Tabs, d \in Calls : <<u, d>> # <<t, c>> => call'[u][d] = call[u][d]
  BY DEF SetCall, TypeInv, TypeOK
<1>2. ASSUME NEW u \in Tabs, NEW d \in Calls, Brings(u, d)'
      PROVE  /\ Brings(u, d) /\ call'[u][d] = call[u][d] /\ OnlyItsOwn(u, d)
             /\ <<u, d>> # <<t, c>>
  BY <1>1, <1>2 DEF Brings, CookieInv, AnswersAreNew
<1>3. AnswersAreNew'
  <2> SUFFICES ASSUME NEW u \in Tabs, NEW d \in Calls, Brings(u, d)'
               PROVE  OnlyItsOwn(u, d)'
    BY DEF AnswersAreNew
  <2>1. OnlyItsOwn(u, d) /\ call'[u][d] = call[u][d] /\ <<u, d>> # <<t, c>>
    BY <1>2
  <2>2. r.raw # call[u][d].raw
    BY <2>1, NoneIsNew DEF OnlyItsOwn
  <2> QED
    BY <1>1, <2>1, <2>2 DEF OnlyItsOwn
<1>4. AnswersAreLive'
  BY <1>2 DEF CookieInv, AnswersAreLive
<1>5. CookieGoesOn'
  <2> SUFFICES ASSUME ~broken', cookie # None, ~Active(cookie)
               PROVE  \E u \in Tabs, d \in Calls : Replaces(u, d)'
    BY DEF CookieGoesOn, Active
  <2>1. PICK u \in Tabs, d \in Calls : Replaces(u, d)
    BY DEF CookieInv, CookieGoesOn
  <2> QED
    BY <1>1, <2>1 DEF Replaces, Brings
<1> QED
  BY <1>3, <1>4, <1>5 DEF CookieInv

(* A token is issued: its own answer is what goes on.                       *)
LEMMA IssuesOn ==
  ASSUME TypeInv, CookieInv, NEW t \in Tabs, NEW c \in Calls, NEW r \in CallRecords,
         NEW k \in Tokens, k \notin HeldBeside(t, c), NEW a \in Accounts,
         r.at \in {"got", "granted"}, r.raw = k,
         ~Brings(t, c), Issue(t, c, k, a), SetCall(t, c, r), UNCHANGED <<cookie, broken>>
  PROVE  CookieInv'
<1>1. /\ call'[t][c] = r
      /\ \A u \in Tabs, d \in Calls : <<u, d>> # <<t, c>> => call'[u][d] = call[u][d]
  BY DEF SetCall, TypeInv, TypeOK
<1>2. /\ k # cookie
      /\ \A u \in Tabs, d \in Calls :
           <<u, d>> # <<t, c>> => /\ call[u][d].raw \in HeldBeside(t, c)
                                  /\ call[u][d].raw # k
  <2>1. cookie \in HeldBeside(t, c)
    BY DEF HeldBeside
  <2>2. ASSUME NEW u \in Tabs, NEW d \in Calls, <<u, d>> # <<t, c>>
        PROVE  call[u][d].raw \in HeldBeside(t, c)
    <3>1. <<u, d>> \in (Tabs \X Calls) \ {<<t, c>>}
      BY <2>2
    <3> QED
      BY <3>1 DEF HeldBeside
  <2> QED
    BY <2>1, <2>2
<1>3. AnswersAreNew'
  <2> SUFFICES ASSUME NEW u \in Tabs, NEW d \in Calls, Brings(u, d)'
               PROVE  OnlyItsOwn(u, d)'
    BY DEF AnswersAreNew
  <2>1. CASE <<u, d>> = <<t, c>>
    BY <1>1, <1>2, <2>1 DEF OnlyItsOwn
  <2>2. CASE <<u, d>> # <<t, c>>
    <3>1. OnlyItsOwn(u, d)
      BY <1>1, <2>2 DEF Brings, CookieInv, AnswersAreNew
    <3> QED
      BY <1>1, <1>2, <2>2, <3>1 DEF OnlyItsOwn
  <2> QED
    BY <2>1, <2>2
<1>4. AnswersAreLive'
  <2> SUFFICES ASSUME ~broken, NEW u \in Tabs, NEW d \in Calls, Brings(u, d)'
               PROVE  row'[call'[u][d].raw] # None
    BY DEF AnswersAreLive
  <2>1. CASE <<u, d>> = <<t, c>>
    BY <1>1, <2>1, NoneIsNew DEF Issue
  <2>2. CASE <<u, d>> # <<t, c>>
    <3>1. Brings(u, d) /\ OnlyItsOwn(u, d) /\ row[call[u][d].raw] # None
      BY <1>1, <2>2 DEF Brings, CookieInv, AnswersAreNew, AnswersAreLive
    <3>2. call[u][d].raw # call[t][c].raw /\ call[u][d].raw \in Tokens
      BY <2>2, <3>1 DEF OnlyItsOwn
    <3>3. row'[call[u][d].raw] = row[call[u][d].raw]
      BY <1>2, <2>2, <3>2 DEF Issue
    <3> QED
      BY <1>1, <2>2, <3>1, <3>3
  <2> QED
    BY <2>1, <2>2
<1>5. CookieGoesOn'
  BY <1>1 DEF CookieGoesOn, Replaces, Brings
<1> QED
  BY <1>3, <1>4, <1>5 DEF CookieInv

(* An answer is in: the browser holds the cookie it brought.                *)
LEMMA BroughtOn ==
  ASSUME TypeInv, CookieInv, NEW t \in Tabs, NEW c \in Calls, NEW r \in CallRecords,
         r.at \notin {"got", "granted"}, r.raw = None, Brings(t, c),
         cookie' = call[t][c].raw, SetCall(t, c, r), UNCHANGED <<row, broken>>
  PROVE  CookieInv'
<1>1. /\ call'[t][c] = r
      /\ \A u \in Tabs, d \in Calls : <<u, d>> # <<t, c>> => call'[u][d] = call[u][d]
  BY DEF SetCall, TypeInv, TypeOK
<1>2. OnlyItsOwn(t, c)
  BY DEF CookieInv, AnswersAreNew
<1>3. AnswersAreNew'
  <2> SUFFICES ASSUME NEW u \in Tabs, NEW d \in Calls, Brings(u, d)'
               PROVE  OnlyItsOwn(u, d)'
    BY DEF AnswersAreNew
  <2>1. <<u, d>> # <<t, c>> /\ OnlyItsOwn(u, d)
    BY <1>1 DEF Brings, CookieInv, AnswersAreNew
  <2>2. None # call[u][d].raw
    BY <2>1, NoneIsNew DEF OnlyItsOwn
  <2> QED
    BY <1>1, <1>2, <2>1, <2>2 DEF OnlyItsOwn
<1>4. AnswersAreLive'
  BY <1>1 DEF CookieInv, AnswersAreLive, Brings
<1>5. CookieGoesOn'
  BY <1>2 DEF CookieInv, AnswersAreLive, CookieGoesOn, Active, OnlyItsOwn
<1> QED
  BY <1>3, <1>4, <1>5 DEF CookieInv

(* The browser has no cookie any more.                                      *)
LEMMA ForgottenOn ==
  ASSUME TypeInv, CookieInv, NEW t \in Tabs, NEW c \in Calls, NEW r \in CallRecords,
         r.at \notin {"got", "granted"}, r.raw = None,
         cookie' = None, SetCall(t, c, r), UNCHANGED <<row, broken>>
  PROVE  CookieInv'
<1>1. /\ call'[t][c] = r
      /\ \A u \in Tabs, d \in Calls : <<u, d>> # <<t, c>> => call'[u][d] = call[u][d]
  BY DEF SetCall, TypeInv, TypeOK
<1>2. AnswersAreNew'
  <2> SUFFICES ASSUME NEW u \in Tabs, NEW d \in Calls, Brings(u, d)'
               PROVE  OnlyItsOwn(u, d)'
    BY DEF AnswersAreNew
  <2>1. <<u, d>> # <<t, c>> /\ OnlyItsOwn(u, d)
    BY <1>1 DEF Brings, CookieInv, AnswersAreNew
  <2>2. None # call[u][d].raw
    BY <2>1, NoneIsNew DEF OnlyItsOwn
  <2> QED
    BY <1>1, <2>1, <2>2 DEF OnlyItsOwn
<1>3. AnswersAreLive'
  BY <1>1 DEF CookieInv, AnswersAreLive, Brings
<1> QED
  BY <1>2, <1>3 DEF CookieInv, CookieGoesOn

(* The steps of a refresh.                                                  *)
LEMMA RefreshGoesOn ==
  ASSUME TypeInv, CookieInv, NEW t \in Tabs, NEW c \in Calls,
         \/ RefreshRead(t, c) \/ RefreshSave(t, c) \/ RefreshRefuse(t, c)
         \/ Refreshed(t, c) \/ RefreshDenied(t, c) \/ RefreshLost(t, c)
  PROVE  CookieInv'
<1> DEFINE v == call[t][c]
<1>0. TypeInv' /\ v \in CallRecords /\ call'[t][c] \in CallRecords
  BY RefreshTypes DEF TypeInv, TypeOK
<1>1. CASE RefreshRead(t, c) \/ RefreshRefuse(t, c)
  <2> DEFINE r == IF RefreshRead(t, c)
                    THEN [v EXCEPT !.at = "read", !.token = Access(row[v.raw])]
                    ELSE [v EXCEPT !.at = "refused"]
  <2>1. SetCall(t, c, r)
    BY <1>1 DEF RefreshRead, RefreshRefuse
  <2>2. r.at \notin {"got", "granted"} /\ r.raw = v.raw
    BY <1>0 DEF CallRecords
  <2> HIDE DEF r
  <2>3. r \in CallRecords
    BY <1>0, <2>1 DEF SetCall, TypeInv, TypeOK
  <2>4. ~Replaces(t, c)
    BY <1>1 DEF RefreshRead, RefreshRefuse, Replaces, Brings
  <2> QED
    BY <1>1, <2>1, <2>2, <2>3, <2>4, MovesOn DEF RefreshRead, RefreshRefuse, server
<1>2. CASE RefreshSave(t, c)
  <2> DEFINE k == CHOOSE x \in Unused(t, c) : TRUE
             r == [v EXCEPT !.at = "got", !.raw = k]
  <2>1. k \in Tokens /\ k \notin HeldBeside(t, c)
    BY <1>2, FreshToken DEF RefreshSave
  <2>2. SetCall(t, c, r) /\ Issue(t, c, k, v.token.of)
    BY <1>2 DEF RefreshSave
  <2> HIDE DEF k
  <2>3. r.at = "got" /\ r.raw = k
    BY <1>0 DEF CallRecords
  <2> HIDE DEF r
  <2>4. r \in CallRecords
    BY <1>0, <2>2 DEF SetCall, TypeInv, TypeOK
  <2>5. v.token.of \in Accounts /\ ~Brings(t, c)
    BY <1>2 DEF RefreshSave, TypeInv, TokensAreNamed, Named, Brings
  <2>6. UNCHANGED <<cookie, broken>>
    BY <1>2 DEF RefreshSave
  <2> HIDE DEF v
  <2> QED
    BY <2>1, <2>2, <2>3, <2>4, <2>5, <2>6, IssuesOn
<1>3. CASE Refreshed(t, c)
  <2> DEFINE r == Continue(v, v.token)
  <2>1. SetCall(t, c, r)
    BY <1>3 DEF Refreshed
  <2>2. v.token \in AccessTokens
    BY <1>0, <1>3, NamedIsAccess DEF TypeInv, TokensAreNamed, Refreshed, Named, CallRecords
  <2>3. r \in CallRecords /\ r.at \notin {"got", "granted"} /\ r.raw = None
    BY <1>0, <2>2, ContinueType
  <2> HIDE DEF r
  <2> QED
    BY <1>3, <2>1, <2>3, BroughtOn DEF Refreshed, Brings, server
<1>4. CASE RefreshDenied(t, c) \/ RefreshLost(t, c)
  <2> DEFINE r == Continue(v, NoToken)
  <2>1. SetCall(t, c, r)
    BY <1>4 DEF RefreshDenied, RefreshLost
  <2>2. r \in CallRecords /\ r.at \notin {"got", "granted"} /\ r.raw = None
    BY <1>0, ContinueType
  <2>3. v.at # "left" /\ (~Brings(t, c) \/ broken') /\ (broken => broken')
    <3>1. CASE RefreshDenied(t, c)
      BY <3>1 DEF RefreshDenied, Brings
    <3>2. CASE RefreshLost(t, c)
      <4>1. v.at \in {"asked", "got", "refused"}
        BY <3>2 DEF RefreshLost
      <4>2. broken' = (broken \/ v.at \in CookieAnswers)
        BY <3>2 DEF RefreshLost
      <4> QED
        BY <4>1, <4>2 DEF Brings, CookieAnswers
    <3> QED
      BY <1>4, <3>1, <3>2
  <2> HIDE DEF r
  <2>4. CASE UNCHANGED cookie
    BY <1>4, <2>1, <2>2, <2>3, <2>4, MovesOn DEF RefreshDenied, RefreshLost, Replaces, server
  <2>5. CASE ~UNCHANGED cookie
    BY <1>4, <2>1, <2>2, <2>5, ForgottenOn DEF RefreshDenied, RefreshLost, server
  <2> QED
    BY <2>4, <2>5
<1> QED
  BY <1>1, <1>2, <1>3, <1>4

(* The steps of the requests of a page, ...                                 *)
LEMMA RequestGoesOn ==
  ASSUME TypeInv, CookieInv, NEW t \in Tabs, NEW c \in Calls,
         \/ Answered(t, c) \/ Failed(t, c) \/ Renew(t, c) \/ Leave(t, c)
         \/ Credentials(t, c) \/ CheckCode(t, c) \/ Timer(t, c)
         \/ \E kind \in {"admin", "gallery", "change"}, at \in {"sent", "resent"} :
              Send(t, c, kind, at)
         \/ \E a \in Accounts : Submit(t, c, a)
         \/ Logout(t, c)
  PROVE  CookieInv'
<1> DEFINE v == call[t][c]
           r == call'[t][c]
           Goal == /\ SetCall(t, c, r)
                   /\ r.at \notin {"got", "granted"} /\ r.raw \in {None, cookie, v.raw}
<1>1. TypeInv'
  BY RequestTypes, LoginTypes, LogoutTypes, RefreshTypes
<1>2. r \in CallRecords /\ v \in CallRecords
  BY <1>1 DEF TypeInv, TypeOK
<1>3. UNCHANGED <<row, cookie>> /\ (broken => broken')
  <2>1. CASE Failed(t, c)
    <3>1. broken' = (broken \/ v.at \in CookieAnswers)
      BY <2>1 DEF Failed
    <3> QED
      BY <2>1, <3>1 DEF Failed, server
  <2>2. CASE Answered(t, c)
    BY <2>2 DEF Answered
  <2>3. CASE Renew(t, c) \/ Leave(t, c) \/ Credentials(t, c) \/ CheckCode(t, c)
             \/ Timer(t, c) \/ Logout(t, c)
    BY <2>3 DEF Renew, Leave, Credentials, CheckCode, Timer, Logout, server
  <2>4. CASE \E kind \in {"admin", "gallery", "change"}, at \in {"sent", "resent"} :
               Send(t, c, kind, at)
    BY <2>4 DEF Send, server
  <2>5. CASE \E a \in Accounts : Submit(t, c, a)
    <3>1. PICK a \in Accounts : Submit(t, c, a)
      BY <2>5
    <3> QED
      BY <3>1 DEF Submit, server
  <2> QED
    BY <2>1, <2>2, <2>3, <2>4, <2>5
<1>4. ~Replaces(t, c) \/ broken'
  <2>1. CASE Failed(t, c)
    <3>1. v.at \in {"sent", "resent", "changed", "posted", "leaving", "left"}
      BY <2>1 DEF Failed
    <3>2. broken' = (broken \/ v.at \in CookieAnswers)
      BY <2>1 DEF Failed
    <3> QED
      BY <3>1, <3>2 DEF Replaces, Brings, CookieAnswers
  <2>2. CASE ~Failed(t, c)
    <3>1. v.at \notin {"got", "granted", "left"}
      <4>1. CASE Answered(t, c)
        BY <4>1 DEF Answered
      <4>2. CASE v = Idle
        BY <4>2 DEF Idle
      <4>3. CASE ~Answered(t, c) /\ v # Idle
        BY <2>2, <4>3 DEF Renew, Leave, Credentials, CheckCode, Timer, Send, Submit, Logout
      <4> QED
        BY <4>1, <4>2, <4>3
    <3> QED
      BY <3>1 DEF Replaces, Brings
  <2> QED
    BY <2>1, <2>2
<1>5. Goal
  <2>0. ASSUME NEW x, SetCall(t, c, x)
        PROVE  x = r /\ SetCall(t, c, r)
    BY <2>0 DEF SetCall, TypeInv, TypeOK
  <2>1. ASSUME Ask(t, c, v.kind, "retry") \/ Ask(t, c, "change", "end")
               \/ Ask(t, c, "timer", "end")
        PROVE  Goal
    <3>1. PICK k, th :
            SetCall(t, c, [kind |-> k, at |-> "asked", then |-> th, token |-> NoToken,
                           raw |-> cookie])
      BY <2>1 DEF Ask
    <3> QED
      BY <2>0, <3>1
  <2>2. ASSUME SetCall(t, c, Idle) PROVE Goal
    BY <2>0, <2>2, IdleType DEF Idle
  <2>3. CASE Answered(t, c)
    <3>1. \/ SetCall(t, c, [v EXCEPT !.at = "changed"])
          \/ SetCall(t, c, Idle) \/ Ask(t, c, v.kind, "retry")
      BY <2>3 DEF Answered
    <3>2. CASE SetCall(t, c, [v EXCEPT !.at = "changed"])
      <4>1. r = [v EXCEPT !.at = "changed"] /\ SetCall(t, c, r)
        BY <2>0, <3>2
      <4> QED
        BY <1>2, <4>1 DEF CallRecords
    <3> QED
      BY <2>1, <2>2, <3>1, <3>2
  <2>4. CASE Failed(t, c) \/ Leave(t, c) \/ Credentials(t, c)
    BY <2>2, <2>4 DEF Failed, Leave, Credentials
  <2>5. CASE Renew(t, c) \/ Timer(t, c)
    BY <2>1, <2>5 DEF Renew, Timer
  <2>6. CASE CheckCode(t, c)
    <3>1. PICK x : SetCall(t, c, [v EXCEPT !.at = "checked", !.kind = "second",
                                           !.token = x])
      BY <2>6 DEF CheckCode
    <3>2. r = [v EXCEPT !.at = "checked", !.kind = "second", !.token = x]
          /\ SetCall(t, c, r)
      BY <2>0, <3>1
    <3> QED
      BY <1>2, <3>2 DEF CallRecords
  <2>7. CASE \E kind \in {"admin", "gallery", "change"}, at \in {"sent", "resent"} :
               Send(t, c, kind, at)
    <3>1. PICK kind \in {"admin", "gallery", "change"}, at \in {"sent", "resent"} :
            Send(t, c, kind, at)
      BY <2>7
    <3>2. r = [Idle EXCEPT !.kind = kind, !.at = at, !.token = store[t].token]
          /\ SetCall(t, c, r)
      BY <2>0, <3>1 DEF Send
    <3> QED
      BY <3>2 DEF Idle
  <2>9. CASE \E a \in Accounts : Submit(t, c, a)
    <3>1. PICK a \in Accounts : Submit(t, c, a)
      BY <2>9
    <3>2. r = [Idle EXCEPT !.kind = form[t], !.at = "posted",
                           !.token = [NoToken EXCEPT !.of = a]]
          /\ SetCall(t, c, r)
      BY <2>0, <3>1 DEF Submit
    <3> QED
      BY <3>2 DEF Idle
  <2>8. CASE Logout(t, c)
    <3>1. r = [Idle EXCEPT !.kind = "logout", !.at = "leaving", !.raw = cookie]
          /\ SetCall(t, c, r)
      BY <2>0, <2>8 DEF Logout
    <3> QED
      BY <3>1 DEF Idle
  <2> QED
    BY <2>3, <2>4, <2>5, <2>6, <2>7, <2>8, <2>9
<1> HIDE DEF r
<1> QED
  BY <1>2, <1>3, <1>4, <1>5, MovesOn

(* ... of a login and a logout, ...                                         *)
LEMMA LoginGoesOn ==
  ASSUME TypeInv, CookieInv, NEW t \in Tabs, NEW c \in Calls,
         Grant(t, c) \/ SignedIn(t, c) \/ LoggedOut(t, c)
  PROVE  CookieInv'
<1> DEFINE v == call[t][c]
<1>0. v \in CallRecords /\ Idle \in CallRecords
  BY IdleType DEF TypeInv, TypeOK
<1>1. CASE Grant(t, c)
  <2> DEFINE k == CHOOSE x \in Unused(t, c) : TRUE
             r == [v EXCEPT !.at = "granted", !.raw = k]
  <2>1. k \in Tokens /\ k \notin HeldBeside(t, c)
    BY <1>1, FreshToken DEF Grant
  <2>2. SetCall(t, c, r) /\ Issue(t, c, k, v.token.of)
    BY <1>1 DEF Grant
  <2> HIDE DEF k
  <2>3. r.at = "granted" /\ r.raw = k /\ r \in CallRecords
    BY <1>0, <2>1 DEF CallRecords, Points
  <2> HIDE DEF r
  <2>4. v.token.of \in Accounts /\ ~Brings(t, c)
    BY <1>1 DEF Grant, TypeInv, TokensAreNamed, Named, Brings
  <2>5. UNCHANGED <<cookie, broken>>
    BY <1>1 DEF Grant
  <2> HIDE DEF v
  <2> QED
    BY <2>1, <2>2, <2>3, <2>4, <2>5, IssuesOn
<1>2. CASE SignedIn(t, c)
  BY <1>0, <1>2, BroughtOn, IdleType DEF SignedIn, Brings, server, Idle
<1>3. CASE LoggedOut(t, c)
  BY <1>0, <1>3, ForgottenOn DEF LoggedOut, server, Idle
<1> QED
  BY <1>1, <1>2, <1>3

(* ... and what revokes tokens: the answer of a logout is on its way, or    *)
(* something breaks.                                                        *)
LEMMA RevokeGoesOn ==
  ASSUME TypeInv, CookieInv, NEW t \in Tabs, NEW c \in Calls,
         Revoke(t, c) \/ Unheard(t, c)
  PROVE  CookieInv'
<1> DEFINE v == call[t][c]
           r == call'[t][c]
<1>0. v \in CallRecords
  BY DEF TypeInv, TypeOK
<1>1. \A u \in Tabs, d \in Calls : <<u, d>> # <<t, c>> => call'[u][d] = call[u][d]
  BY DEF TypeInv, TypeOK, Revoke, Unheard, SetCall
<1>2. /\ r.at \notin {"got", "granted"} /\ r.raw \in {None, v.raw}
      /\ Revoke(t, c) => r.at = "left" /\ r.raw = v.raw /\ v.at = "leaving"
  <2>1. CASE Revoke(t, c)
    <3>1. r = [v EXCEPT !.at = "left"]
      BY <2>1 DEF TypeInv, TypeOK, Revoke, SetCall
    <3> QED
      BY <1>0, <2>1, <3>1 DEF CallRecords, Revoke
  <2>2. CASE Unheard(t, c) /\ ~Revoke(t, c)
    <3>1. r = Idle
      BY <2>2 DEF TypeInv, TypeOK, Unheard, SetCall
    <3> QED
      BY <2>2, <3>1 DEF Idle
  <2> QED
    BY <2>1, <2>2
<1>3. /\ UNCHANGED cookie /\ (Revoke(t, c) => UNCHANGED broken)
      /\ (~Revoke(t, c) => broken')
      /\ \A k \in Tokens : k # v.raw => row'[k] = row[k]
  BY DEF Revoke, Unheard
<1> HIDE DEF r
<1>4. ASSUME NEW u \in Tabs, NEW d \in Calls, Brings(u, d)'
      PROVE  /\ <<u, d>> # <<t, c>> /\ Brings(u, d) /\ OnlyItsOwn(u, d)
             /\ call'[u][d] = call[u][d]
  BY <1>1, <1>2, <1>4 DEF Brings, CookieInv, AnswersAreNew, r
<1>5. AnswersAreNew'
  <2> SUFFICES ASSUME NEW u \in Tabs, NEW d \in Calls, Brings(u, d)'
               PROVE  OnlyItsOwn(u, d)'
    BY DEF AnswersAreNew
  <2>1. /\ <<u, d>> # <<t, c>> /\ OnlyItsOwn(u, d) /\ call'[u][d] = call[u][d]
    BY <1>4
  <2>2. r.raw # call[u][d].raw
    BY <1>2, <2>1, NoneIsNew DEF OnlyItsOwn
  <2> QED
    BY <1>1, <1>3, <2>1, <2>2 DEF OnlyItsOwn, r
<1>6. AnswersAreLive'
  <2> SUFFICES ASSUME ~broken', NEW u \in Tabs, NEW d \in Calls, Brings(u, d)'
               PROVE  row'[call'[u][d].raw] # None
    BY DEF AnswersAreLive
  <2>1. /\ <<u, d>> # <<t, c>> /\ Brings(u, d) /\ OnlyItsOwn(u, d)
        /\ call'[u][d] = call[u][d]
    BY <1>4
  <2>2. call[u][d].raw # v.raw /\ call[u][d].raw \in Tokens
    BY <2>1 DEF OnlyItsOwn
  <2> QED
    BY <1>3, <2>1, <2>2 DEF CookieInv, AnswersAreLive
<1>7. CookieGoesOn'
  <2> SUFFICES ASSUME ~broken', cookie' # None, ~Active(cookie)'
               PROVE  \E u \in Tabs, d \in Calls : Replaces(u, d)'
    BY DEF CookieGoesOn
  <2>1. Revoke(t, c) /\ UNCHANGED cookie
    BY <1>3
  <2>2. CASE Active(cookie)
    <3>1. cookie = v.raw
      BY <1>3, <2>1, <2>2 DEF Active
    <3>2. r.at = "left" /\ r.raw # None
      BY <1>2, <2>1, <3>1
    <3> QED
      BY <3>2 DEF Replaces, r
  <2>3. CASE ~Active(cookie)
    <3>1. PICK u \in Tabs, d \in Calls : Replaces(u, d)
      BY <1>3, <2>1, <2>3 DEF CookieInv, CookieGoesOn
    <3>2. <<u, d>> # <<t, c>>
      BY <1>2, <2>1, <3>1 DEF Replaces, Brings
    <3> QED
      BY <1>1, <3>1, <3>2 DEF Replaces, Brings
  <2> QED
    BY <2>2, <2>3
<1> QED
  BY <1>5, <1>6, <1>7 DEF CookieInv

LEMMA ReloadGoesOn ==
  ASSUME TypeInv, CookieInv, NEW t \in Tabs, NEW p, Reload(t, p)
  PROVE  CookieInv'
<1>1. \A u \in Tabs, d \in Calls :
        /\ u # t => call'[u][d] = call[u][d]
        /\ u = t => /\ ~Brings(u, d)'
                    /\ call'[u][d].raw \in {call[u][d].raw, None}
  <2> SUFFICES ASSUME NEW u \in Tabs, NEW d \in Calls
               PROVE  /\ u # t => call'[u][d] = call[u][d]
                      /\ u = t => /\ ~Brings(u, d)'
                                  /\ call'[u][d].raw \in {call[u][d].raw, None}
    OBVIOUS
  <2>1. u # t => call'[u][d] = call[u][d]
    BY DEF Reload, TypeInv, TypeOK
  <2>2. CASE u = t
    <3> DEFINE v == call[t][d]
    <3>1. v \in CallRecords
      BY DEF TypeInv, TypeOK
    <3>2. call'[t][d] = IF v.at \in {"read", "leaving"}
                          THEN [v EXCEPT !.then = "nobody"] ELSE Idle
      BY DEF Reload, TypeInv, TypeOK
    <3> HIDE DEF v
    <3>3. call'[t][d].at \notin {"got", "granted"} /\ call'[t][d].raw \in {v.raw, None}
      BY <3>1, <3>2 DEF CallRecords, Idle
    <3> QED
      BY <2>2, <3>3 DEF Brings, v
  <2> QED
    BY <2>1, <2>2
<1>2. UNCHANGED <<row, must, cookie>>
      /\ broken' = (broken \/ \E c \in Calls : call[t][c].at \in CookieAnswers)
  BY DEF Reload, server
<1>3. ASSUME NEW u \in Tabs, NEW d \in Calls, Brings(u, d)'
      PROVE  u # t /\ Brings(u, d) /\ OnlyItsOwn(u, d) /\ call'[u][d] = call[u][d]
  BY <1>1, <1>3 DEF Brings, CookieInv, AnswersAreNew
<1>4. AnswersAreNew'
  <2> SUFFICES ASSUME NEW u \in Tabs, NEW d \in Calls, Brings(u, d)',
                      NEW w \in Tabs, NEW e \in Calls, <<w, e>> # <<u, d>>
               PROVE  call'[w][e].raw # call'[u][d].raw
    BY <1>2, <1>3 DEF AnswersAreNew, OnlyItsOwn
  <2>1. OnlyItsOwn(u, d) /\ call'[u][d] = call[u][d]
    BY <1>3
  <2>2. call'[w][e].raw \in {call[w][e].raw, None}
    BY <1>1
  <2> QED
    BY <2>1, <2>2, NoneIsNew DEF OnlyItsOwn
<1>5. AnswersAreLive'
  BY <1>2, <1>3 DEF CookieInv, AnswersAreLive
<1>6. CookieGoesOn'
  <2> SUFFICES ASSUME ~broken', cookie # None, ~Active(cookie)
               PROVE  \E u \in Tabs, d \in Calls : Replaces(u, d)'
    BY <1>2 DEF CookieGoesOn, Active
  <2>1. PICK u \in Tabs, d \in Calls : Replaces(u, d)
    BY <1>2 DEF CookieInv, CookieGoesOn
  <2>2. u # t
    BY <1>2, <2>1 DEF Replaces, Brings, CookieAnswers
  <2> QED
    BY <1>1, <2>1, <2>2 DEF Replaces, Brings
<1> QED
  BY <1>4, <1>5, <1>6 DEF CookieInv

LEMMA CookieStep == TypeInv /\ CookieInv /\ [Next]_vars => CookieInv'
<1> SUFFICES ASSUME TypeInv, CookieInv, [Next]_vars PROVE CookieInv'
  OBVIOUS
<1>1. ASSUME UNCHANGED <<row, cookie, call, broken>> PROVE CookieInv'
  BY <1>1 DEF CookieInv, AnswersAreNew, AnswersAreLive, CookieGoesOn, OnlyItsOwn, Brings,
    Replaces, Active
<1>2. ASSUME UNCHANGED <<cookie, call>>, broken' PROVE CookieInv'
  BY <1>2 DEF CookieInv, AnswersAreNew, AnswersAreLive, CookieGoesOn, OnlyItsOwn, Brings
<1>3. ASSUME NEW t \in Tabs, NEW c \in Calls, Progress(t, c) \/ Timer(t, c)
      PROVE  CookieInv'
  BY <1>3, RefreshGoesOn, RequestGoesOn, LoginGoesOn, RevokeGoesOn DEF Progress
<1>4. ASSUME NEW t \in Tabs, Use(t) \/ Redirect(t) \/ Expire(t)
      PROVE  CookieInv'
  <2>1. CASE \E c \in Calls :
               \/ \E kind \in {"admin", "gallery", "change"}, at \in {"sent", "resent"} :
                    Send(t, c, kind, at)
               \/ \E a \in Accounts : Submit(t, c, a)
               \/ Logout(t, c)
    BY <2>1, RequestGoesOn
  <2>2. CASE \E p \in {path[t], "/"} : Reload(t, p)
    BY <2>2, ReloadGoesOn
  <2>3. CASE Abandon(t) \/ Follow(t) \/ Back(t) \/ Redirect(t) \/ Expire(t)
    BY <1>1, <2>3 DEF Abandon, Follow, Back, Redirect, Expire, server
  <2> QED
    BY <1>4, <2>1, <2>2, <2>3 DEF Use
<1>5. ASSUME NEW k \in Tokens, SessionEnds(k) PROVE CookieInv'
  BY <1>2, <1>5 DEF SessionEnds
<1>6. CASE ResetPassword
  BY <1>2, <1>6 DEF ResetPassword
<1>7. CASE UNCHANGED vars
  BY <1>1, <1>7 DEF vars, server
<1> QED
  BY <1>3, <1>4, <1>5, <1>6, <1>7 DEF Next

(* Once every answer is in, the browser's cookie is one the server accepts, *)
(* in whatever order the calls of its tabs were answered.                   *)
THEOREM CookieStaysLive == Spec => []CookieIsLive
<1>1. Init => TypeInv /\ CookieInv
  <2>1. Init => CookieInv
    BY DEF Init, CookieInv, AnswersAreNew, AnswersAreLive, CookieGoesOn, Brings, Idle
  <2> QED
    BY <2>1, InitTypes
<1>2. TypeInv /\ CookieInv /\ [Next]_vars => (TypeInv /\ CookieInv)'
  BY TypeStep, CookieStep
<1>3. TypeInv /\ CookieInv => CookieIsLive
  <2> SUFFICES ASSUME CookieInv, Quiet, ~broken, cookie # None
               PROVE  Active(cookie)
    BY DEF CookieIsLive
  <2>1. \A t \in Tabs, c \in Calls : ~Replaces(t, c)
    BY NoneIsNew DEF Quiet, Replaces, CookieInv, AnswersAreNew, OnlyItsOwn
  <2> QED
    BY <2>1 DEF CookieInv, CookieGoesOn
<1> QED
  BY <1>1, <1>2, <1>3, PTL DEF Spec

-----------------------------------------------------------------------------
(* A redirect is never answered with the next one, and leaves alone a tab   *)
(* that may be where it is, whoever signs in or out in between.             *)
THEOREM RedirectsRest == Spec => RedirectsSettle
<1>1. ASSUME TypeInv, NEW t \in Tabs, Redirect(t)
      PROVE  (RequireAuth(t) = path[t])'
  <2>1. /\ UNCHANGED store /\ path'[t] = RequireAuth(t)
    BY <1>1 DEF Redirect, GoTo, TypeInv, TypeOK
  <2>2. \/ RequireAuth(t) = path[t]
        \/ RequireAuth(t) \in {"/admin/login", "/"}
        \/ /\ RequireAuth(t) = "/admin/change-password"
           /\ store[t].auth /\ store[t].role = "Admin"
    BY DEF RequireAuth, LoginPath, AdminPaths
  <2>3. RequireAuth(t) # path[t]
    BY <1>1 DEF Redirect
  <2>4. CASE path'[t] \in {"/admin/login", "/"}
    BY <2>4 DEF RequireAuth, AdminPaths
  <2>5. CASE /\ path'[t] = "/admin/change-password"
             /\ store[t].auth /\ store[t].role = "Admin"
    BY <2>1, <2>5 DEF RequireAuth, AdminPaths
  <2> QED
    BY <2>1, <2>2, <2>3, <2>4, <2>5
<1>2. TypeInv /\ [Next]_vars
        => [\A t \in Tabs : Redirect(t) => (RequireAuth(t) = path[t])']_vars
  BY <1>1
<1> QED
  BY <1>2, InitTypes, TypeStep, PTL DEF Spec, RedirectsSettle

=============================================================================
