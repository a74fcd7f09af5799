--------------------------- MODULE PasswordPages ---------------------------
(***************************************************************************)
(* The admin's password: the rules for a new one, which the web app checks *)
(* while it is typed and the server checks again, the meter beside the     *)
(* field, and the two pages that set one, by the old password or by a code *)
(* that was mailed.                                                        *)
(*                                                                         *)
(* The rules are written twice. The web app knows the letters of ASCII,    *)
(* and takes every other one for a symbol; the server knows all letters.   *)
(***************************************************************************)
EXTENDS PageVisit

CONSTANTS
  Passwords,    \* what is typed, by its features
  Codes         \* codes of the mails

Kinds == {"lower", "upper", "digit", "symbol", "accented"}

(* size: its length; kinds: what the characters are; spaces: is there one.  *)
AllPasswords == [size : Nat \ {0}, kinds : SUBSET Kinds, spaces : BOOLEAN]

Nothing == [size |-> 0, kinds |-> {}, spaces |-> FALSE]

-----------------------------------------------------------------------------
(* What the web app sees in a password.                                     *)
Seen(p) ==
  (p.kinds \cap {"lower", "upper", "digit"})
    \cup (IF p.kinds \cap {"symbol", "accented"} # {} THEN {"symbol"} ELSE {})

Differs(p, old) == p # old

(* Mutant: two kinds of characters are enough.                              *)
meetsTwoKinds(p) == p.size >= 12 /\ ~p.spaces /\ Cardinality(Seen(p)) >= 2

meetsAdminMinimum(p) == p.size >= 12 /\ ~p.spaces /\ Cardinality(Seen(p)) >= 3

Points(fact, n) == IF fact THEN n ELSE 0

Score(p, old) ==
  Points(p.size >= 12, 2) + Cardinality(Seen(p)) + Points(~p.spaces, 1)
    + Points(old = Nothing \/ Differs(p, old), 1) + Points(p.size >= 16, 1)

(* evaluatePasswordStrength, by its score.                                  *)
tone(p, old) ==
  CASE p = Nothing -> "empty"
    [] p # Nothing /\ Score(p, old) <= 3 -> "weak"
    [] p # Nothing /\ Score(p, old) \in 4..5 -> "fair"
    [] p # Nothing /\ Score(p, old) \in 6..7 -> "good"
    [] OTHER -> "strong"

(* What the server sees; it gets no accent wrong.                           *)
Categories(p) ==
  (p.kinds \cap {"lower", "upper", "digit", "symbol"})
    \cup (IF "accented" \in p.kinds THEN {"lower"} ELSE {})

Validate(p, old) ==
  /\ p.size >= 12 /\ ~p.spaces
  /\ Cardinality(Categories(p)) >= 3
  /\ Differs(p, old)

-----------------------------------------------------------------------------
(* password: the one in force, code: the last that was mailed and not used. *)
Accounts == [password : Passwords, code : Codes \cup {None}]

(* about: the page; step: of the page that resets; old, new, again, code:   *)
(* the fields; success: the password that the page says is in force.        *)
PasswordPage ==
  [about : {"reset", "change"}, step : {"request", "confirm"},
   old : Passwords \cup {Nothing}, new : Passwords \cup {Nothing},
   again : Passwords \cup {Nothing}, code : Codes \cup {None},
   loading : BOOLEAN, error : BOOLEAN, success : Passwords \cup {Nothing}]

(* The mail's link opens the page with its code.                            *)
Init ==
  /\ server \in [password : Passwords, code : Codes \cup {None}]
  /\ page \in [about : {"reset", "change"}, step : {"request", "confirm"},
               old : {Nothing}, new : {Nothing}, again : {Nothing},
               code : {None, server.code}, loading : {FALSE}, error : {FALSE},
               success : {Nothing}]
  /\ page.step = IF page.about = "reset" /\ page.code # None THEN "confirm" ELSE "request"
  /\ page.about = "change" => page.code = None
  /\ call = [c \in Calls |-> Idle]
  /\ disturbed = FALSE
  /\ left = MaxInputs

OnReset(step) == page.about = "reset" /\ page.step = step

passwordsMatch == page.new # Nothing /\ page.again = page.new

Typed(new) == Spend /\ page' = new /\ UNCHANGED <<server, call, disturbed>>

TypeNew(p) ==
  /\ page.about = "change" \/ OnReset("confirm")
  /\ \/ Typed([page EXCEPT !.new = p])
     \/ Typed([page EXCEPT !.again = p])
     \/ page.about = "change" /\ Typed([page EXCEPT !.old = p])

TypeCode(k) == OnReset("confirm") /\ Typed([page EXCEPT !.code = k])

Waiting(error) == [page EXCEPT !.loading = ~error, !.error = error, !.success = Nothing]

handleRequest(c) ==
  /\ OnReset("request") /\ ~page.loading
  /\ Send(c, "request", None)
  /\ page' = Waiting(FALSE)
  /\ UNCHANGED server

(* Mutant: the button stays enabled while the page waits.                   *)
ConfirmTwice(c) ==
  /\ OnReset("confirm") /\ page.code # None /\ page.new # Nothing
  /\ IF meetsAdminMinimum(page.new) /\ passwordsMatch
     THEN /\ Send(c, "confirm", [code |-> page.code, old |-> Nothing, new |-> page.new])
          /\ page' = Waiting(FALSE)
     ELSE page' = Waiting(TRUE) /\ UNCHANGED <<call, disturbed, left>>
  /\ UNCHANGED server

(* handleConfirm refuses what falls short itself.                           *)
handleConfirm(c) ==
  /\ OnReset("confirm") /\ ~page.loading /\ page.code # None /\ page.new # Nothing
  /\ IF meetsAdminMinimum(page.new) /\ passwordsMatch
     THEN /\ Send(c, "confirm", [code |-> page.code, old |-> Nothing, new |-> page.new])
          /\ page' = Waiting(FALSE)
     ELSE page' = Waiting(TRUE) /\ UNCHANGED <<call, disturbed, left>>
  /\ UNCHANGED server

(* The button back to the first step, which is never disabled.              *)
RequestAnother ==
  /\ Spend /\ OnReset("confirm")
  /\ page' = [page EXCEPT !.step = "request", !.code = None, !.error = FALSE,
                          !.success = Nothing]
  /\ UNCHANGED <<server, call, disturbed>>

(* The one past the first step.                                             *)
AlreadyHaveCode ==
  /\ Spend /\ OnReset("request")
  /\ page' = [page EXCEPT !.step = "confirm", !.error = FALSE, !.success = Nothing]
  /\ UNCHANGED <<server, call, disturbed>>

(* canSubmit, and handleSubmit of the page that changes the password.       *)
handleSubmit(c) ==
  /\ page.about = "change" /\ ~page.loading /\ page.old # Nothing
  /\ meetsAdminMinimum(page.new) /\ Differs(page.new, page.old) /\ passwordsMatch
  /\ Send(c, "change", [code |-> None, old |-> page.old, new |-> page.new])
  /\ page' = Waiting(FALSE)
  /\ UNCHANGED server

-----------------------------------------------------------------------------
(* CreateLoginCodeAsync puts a new code in the place of an unused one, and  *)
(* the mail goes out or cannot be sent; or there is no such admin, which is *)
(* not told, or no mail server.                                             *)
RequestReset(c) ==
  /\ Sent(c, "request")
  /\ \/ UNCHANGED server
     \/ \E k \in Codes \ {server.code} : server' = [server EXCEPT !.code = k]
  /\ Serve(c, None) \/ Refuse(c)
  /\ UNCHANGED <<page, disturbed, left>>

(* ConfirmAdminPasswordReset looks at the password before it uses the code, *)
(* and keeps the code as used before it saves the password.                 *)
UseCode(c) ==
  LET arg == call[c].arg IN
  /\ Sent(c, "confirm") /\ arg.code # None
  /\ IF Validate(arg.new, Nothing) /\ server.code = arg.code
     THEN /\ server' = [server EXCEPT !.code = None]
          /\ SetCall(c, [call[c] EXCEPT !.arg.code = None])
     ELSE UNCHANGED server /\ Refuse(c)
  /\ UNCHANGED <<page, disturbed, left>>

(* Codes that were mailed meanwhile go with the one that was used.          *)
SavePassword(c) ==
  /\ Sent(c, "confirm") /\ call[c].arg.code = None
  /\ server' = [password |-> call[c].arg.new, code |-> None]
  /\ Serve(c, None)
  /\ UNCHANGED <<page, disturbed, left>>

ChangePassword(c) ==
  LET arg == call[c].arg IN
  /\ Sent(c, "change")
  /\ IF arg.old = server.password /\ Validate(arg.new, arg.old)
     THEN server' = [server EXCEPT !.password = arg.new] /\ Serve(c, None)
     ELSE UNCHANGED server /\ Refuse(c)
  /\ UNCHANGED <<page, disturbed, left>>

CallFails(c) ==
  /\ call[c].op # "none" /\ Fails(c)
  /\ page' = [page EXCEPT !.loading = FALSE, !.error = TRUE]
  /\ SetCall(c, Idle)
  /\ disturbed' = TRUE
  /\ UNCHANGED server

Answered(c) ==
  /\ call[c].at = "served"
  /\ page' = IF call[c].op = "request"
             THEN [page EXCEPT !.step = "confirm", !.code = None, !.loading = FALSE]
             ELSE [page EXCEPT !.success = call[c].arg.new, !.loading = FALSE]
  /\ SetCall(c, Idle)
  /\ UNCHANGED <<server, disturbed, left>>

Progress(c) ==
  \/ RequestReset(c) \/ UseCode(c) \/ SavePassword(c) \/ ChangePassword(c)
  \/ CallFails(c) \/ Answered(c)

Next ==
  \/ RequestAnother \/ AlreadyHaveCode
  \/ \E p \in Passwords : TypeNew(p)
  \/ \E k \in Codes : TypeCode(k)
  \/ \E c \in Calls : \/ handleRequest(c) \/ handleConfirm(c) \/ handleSubmit(c)
                       \/ Progress(c)

Spec == Init /\ [][Next]_vars

-----------------------------------------------------------------------------
(* Every variable stays in the set of values the code can give it.          *)
TypeOK ==
  /\ server \in Accounts
  /\ page \in PasswordPage
  /\ call \in CallsOf({"request", "confirm", "change"},
                      [code : Codes \cup {None}, old : Passwords \cup {Nothing},
                       new : Passwords], {})
  /\ disturbed \in BOOLEAN /\ left \in 0..MaxInputs

(* The two copies of the rules agree on what is written in ASCII: the pages *)
(* send no such password that the policy of the server refuses, and hold    *)
(* none back that it would take.                                            *)
RulesAgree ==
  /\ \A c \in Calls :
       LET arg == call[c].arg IN
       arg # None /\ "accented" \notin arg.new.kinds => Validate(arg.new, arg.old)
  /\ page.new # Nothing /\ "accented" \notin page.new.kinds =>
       (Validate(page.new, Nothing) => meetsAdminMinimum(page.new))

(* The meter never calls weak or fair what the server takes, and what it    *)
(* calls strong the server refuses for a space only. It adds up points and  *)
(* says no more than that: a space costs a strong password nothing, and     *)
(* good is what many a password is called that lacks kinds of characters.   *)
MeterFollowsPolicy ==
  LET p == page.new
      rated == tone(p, page.old) IN
  p # Nothing /\ "accented" \notin p.kinds /\ Differs(p, page.old) =>
    /\ Validate(p, page.old) => rated \in {"good", "strong"}
    /\ rated = "strong" /\ ~p.spaces => Validate(p, page.old)

(* Not so, though the meter says "Solid for admin use" with the rating good: *)
(* what it describes so is a password that an admin may have.               *)
SolidIsTaken ==
  LET p == page.new IN
  p # Nothing /\ "accented" \notin p.kinds /\ Differs(p, page.old) =>
    (tone(p, page.old) = "good" => Validate(p, page.old))

(* A password is set once: a page waits for one call at a time, so that no  *)
(* second one uses the next code or the password that the first one set.    *)
OneAtATime ==
  /\ page.loading = ~Quiet
  /\ Cardinality({c \in Calls : call[c] # Idle}) <= 1

(* What the page says is in force is.                                       *)
ShowsOwnWork ==
  page.success # Nothing => page.success = server.password

=============================================================================
