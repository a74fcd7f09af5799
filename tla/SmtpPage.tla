------------------------------ MODULE SmtpPage ------------------------------
(***************************************************************************)
(* The mail settings, and the admin page that saves and tests them. Admins *)
(* are asked for a code by mail once a test of the settings has passed. A  *)
(* test reads the stored row, talks to the mail server for as long as that *)
(* takes, and then writes what it changes of the row: the flag, and only   *)
(* when it has another value than the row had.                             *)
(*                                                                         *)
(* The page saves and tests side by side, each with a button of its own.   *)
(***************************************************************************)
EXTENDS PageVisit

CONSTANT Settings     \* contents of the form

(* row: what is stored, verified: IsVerified, passed: history, what the     *)
(* last test that passed was a test of.                                     *)
Stores ==
  [row : Settings \cup {None}, verified : BOOLEAN, passed : Settings \cup {None}]

Init ==
  /\ server \in [row : Settings \cup {None}, verified : BOOLEAN, passed : Settings \cup {None}]
  /\ IF server.verified THEN server.passed = server.row /\ server.row # None
     ELSE server.passed = None
  /\ page \in [form : Settings, loading : {TRUE}, saving : {FALSE},
               testing : {FALSE}, otpReady : {FALSE}, error : {FALSE}]
  /\ VisitInit

-----------------------------------------------------------------------------
(* Mutant: saving leaves the flag as it is.                                 *)
SaveKeepsFlag(s) == server' = [server EXCEPT !.row = s]

(* SaveAsync writes all the settings, which have to be tested again.        *)
SaveAsync(s) == server' = [server EXCEPT !.row = s, !.verified = FALSE]

OthersWrite ==
  /\ Spend
  /\ \E s \in Settings : SaveAsync(s)
  /\ disturbed' = TRUE
  /\ UNCHANGED <<page, call>>

Type(s) ==
  /\ Spend /\ ~page.loading /\ page.form # s
  /\ page' = [page EXCEPT !.form = s]
  /\ UNCHANGED <<server, call, disturbed>>

(* Mutant: settings are saved while others still are.                       *)
SaveTwice(c) ==
  /\ ~page.loading
  /\ Send(c, "save", [row |-> page.form, verified |-> FALSE])
  /\ page' = [page EXCEPT !.saving = TRUE, !.error = FALSE]
  /\ UNCHANGED server

onSave(c) ==
  /\ ~page.loading /\ ~page.saving
  /\ Send(c, "save", [row |-> page.form, verified |-> FALSE])
  /\ page' = [page EXCEPT !.saving = TRUE, !.error = FALSE]
  /\ UNCHANGED server

onTest(c) ==
  /\ ~page.loading /\ ~page.testing
  /\ Send(c, "test", None)
  /\ page' = [page EXCEPT !.testing = TRUE, !.error = FALSE]
  /\ UNCHANGED server

-----------------------------------------------------------------------------
SaveRow(c) ==
  /\ Sent(c, "save")
  /\ SaveAsync(call[c].arg.row)
  /\ Serve(c, None)
  /\ UNCHANGED <<page, disturbed, left>>

(* TestAndVerifyAsync reads the row; without one it refuses.                *)
TestRead(c) ==
  /\ Sent(c, "test") /\ call[c].arg = None
  /\ IF server.row = None THEN Refuse(c)
     ELSE SetCall(c, [call[c] EXCEPT !.arg = [row |-> server.row,
                                              verified |-> server.verified]])
  /\ UNCHANGED <<server, page, disturbed, left>>

(* The mail server took the test mail, or did not.                          *)
TestWrite(c, passes) ==
  LET read == call[c].arg IN
  /\ Sent(c, "test") /\ read # None
  /\ server' = [server EXCEPT
       !.verified = IF passes # read.verified THEN passes ELSE @,
       !.passed = IF passes THEN read.row ELSE @]
  /\ IF passes THEN Serve(c, None) ELSE Refuse(c)
  /\ UNCHANGED <<page, disturbed, left>>

ReadRow(c) ==
  /\ Sent(c, "load")
  /\ Serve(c, [row |-> server.row, verified |-> server.verified])
  /\ UNCHANGED <<server, page, disturbed, left>>

(* The page shows an error. Whether codes are asked for stays as it was,    *)
(* also when the answer of a test that failed says that they are not.       *)
CallFails(c) ==
  /\ call[c].op # "none" /\ Fails(c)
  /\ page' = [page EXCEPT !.error = TRUE,
                !.loading = @ /\ call[c].op # "load", !.saving = @ /\ call[c].op # "save",
                !.testing = @ /\ call[c].op # "test"]
  /\ SetCall(c, Idle)
  /\ disturbed' = (disturbed \/ call[c].op = "load" \/ call[c].at # "refused")
  /\ UNCHANGED server

Loaded(c) ==
  /\ Served(c, "load")
  /\ page' = [page EXCEPT !.loading = FALSE, !.otpReady = call[c].got.verified,
                !.form = IF call[c].got.row = None THEN @ ELSE call[c].got.row]
  /\ SetCall(c, Idle)
  /\ UNCHANGED <<server, disturbed, left>>

Done(c) ==
  /\ \/ Served(c, "save") /\ page' = [page EXCEPT !.saving = FALSE, !.otpReady = FALSE]
     \/ Served(c, "test") /\ page' = [page EXCEPT !.testing = FALSE, !.otpReady = TRUE]
  /\ SetCall(c, Idle)
  /\ UNCHANGED <<server, disturbed, left>>

Progress(c) ==
  \/ SaveRow(c) \/ TestRead(c) \/ \E passes \in BOOLEAN : TestWrite(c, passes)
  \/ ReadRow(c) \/ CallFails(c) \/ Loaded(c) \/ Done(c)

Next ==
  \/ OthersWrite \/ \E s \in Settings : Type(s)
  \/ \E c \in Calls : onSave(c) \/ onTest(c) \/ Progress(c)

Spec == Init /\ [][Next]_vars

-----------------------------------------------------------------------------
(* Every variable stays in the set of values the code can give it.          *)
TypeOK ==
  /\ server \in Stores
  /\ page \in [form : Settings, loading : BOOLEAN, saving : BOOLEAN,
               testing : BOOLEAN, otpReady : BOOLEAN, error : BOOLEAN]
  /\ call \in CallsOf({"load", "save", "test"},
                      [row : Settings, verified : BOOLEAN],
                      [row : Settings \cup {None}, verified : BOOLEAN])
  /\ disturbed \in BOOLEAN /\ left \in 0..MaxInputs

(* Codes are asked for by settings that were tested: as long as no save     *)
(* overlaps a test, the settings that a test enabled are those it tested.   *)
VerifiedIsTested ==
  server.verified /\ ~disturbed => server.passed = server.row

(* Settings are saved one at a time, and tested one at a time.              *)
OneAtATime ==
  \A op \in {"save", "test"} : Cardinality({c \in Calls : call[c].op = op}) <= 1

(* Once its calls are answered, and unless it shows an error, a page that   *)
(* did one thing at a time says whether codes are asked for.                *)
ShowsOwnWork ==
  Quiet /\ ~disturbed /\ ~page.error => page.otpReady = server.verified

=============================================================================
