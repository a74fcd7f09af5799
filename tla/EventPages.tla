----------------------------- MODULE EventPages -----------------------------
(***************************************************************************)
(* The wedding events and the two admin pages about them: the dashboard,   *)
(* with a table of events and the form that creates and edits them, and    *)
(* the page of one event with its panel of invited contacts.               *)
(*                                                                         *)
(* A form holds a copy of the row it was opened from. It can be cancelled  *)
(* while its call is in flight, and the answer still closes the form of    *)
(* its kind that is open by then.                                          *)
(***************************************************************************)
EXTENDS PageVisit

CONSTANTS
  Weddings,     \* events there may ever be
  Emails,       \* contacts to invite
  Days,         \* numbers of days that photos may be kept for
  DefaultDays,  \* what the form says when it knows of no such number
  AlbumLimit    \* albums the server takes of a request

NoRow == [days |-> 0, albums |-> 0]

Rows == [days : Days, albums : 1..AlbumLimit]

NoRows == [e \in Weddings |-> NoRow]

Exists(e) == server.ev[e] # NoRow

(* ev: the rows of events, removed: those deleted, whose ids do not come    *)
(* again, invited: marriage_emails.                                         *)
EventTables ==
  [ev : [Weddings -> Rows \cup {NoRow}], removed : SUBSET Weddings,
   invited : [Weddings -> SUBSET Emails]]

(* of: the event that is edited, or None for a new one; named and blank:    *)
(* the albums with a name and without; touched: the days were edited; by:   *)
(* the calls it sent and waits for.                                         *)
Closed ==
  [open |-> FALSE, of |-> None, days |-> DefaultDays, named |-> 0,
   blank |-> 0, touched |-> FALSE, by |-> {}]

Contacts(emails) == [contacts |-> emails]

NoPanel == [loading |-> FALSE, adding |-> FALSE, invites |-> {}]

Init ==
  /\ server \in [ev : [Weddings -> {NoRow} \cup [days : Days, albums : {1}]],
                 removed : {{}}, invited : [Weddings -> {{}, Emails}]]
  /\ \A e \in Weddings : ~Exists(e) => server.invited[e] = {}
  /\ page \in [about : {None} \cup Weddings, list : {NoRows}, loading : {TRUE},
               error : {FALSE}, form : {Closed}, zip : {FALSE}, panel : {NoPanel}]
  /\ VisitInit

-----------------------------------------------------------------------------
Least(m, n) == IF m < n THEN m ELSE n

(* Mutant: a request without albums is stored as it is.                     *)
NormalizeNothing(n) == Least(n, AlbumLimit)

(* NormalizeAlbums takes the first ones, and the default ones for none.     *)
NormalizeAlbums(n) == IF n = 0 THEN Least(3, AlbumLimit) ELSE Least(n, AlbumLimit)

CreateRow(e, days, n) ==
  /\ ~Exists(e) /\ e \notin server.removed
  /\ server' = [server EXCEPT !.ev[e] = [days |-> days, albums |-> NormalizeAlbums(n)]]

UpdateRow(e, days, n) ==
  /\ Exists(e)
  /\ server' = [server EXCEPT !.ev[e] = [days |-> days, albums |-> NormalizeAlbums(n)]]

(* The invitations go with the event.                                       *)
DeleteRow(e) ==
  /\ Exists(e)
  /\ server' = [server EXCEPT !.ev[e] = NoRow, !.removed = @ \cup {e},
                              !.invited[e] = {}]

Invite(e, emails) ==
  /\ Exists(e)
  /\ server' = [server EXCEPT !.invited[e] = @ \cup emails]

Uninvite(e, m) ==
  /\ m \in server.invited[e]
  /\ server' = [server EXCEPT !.invited[e] = @ \ {m}]

(* Another admin.                                                           *)
OthersWrite ==
  /\ Spend
  /\ \E e \in Weddings :
       \/ \E d \in Days, n \in 0..1 : CreateRow(e, d, n) \/ UpdateRow(e, d, n)
       \/ DeleteRow(e)
       \/ \E m \in Emails : Invite(e, {m}) \/ Uninvite(e, m)
  /\ disturbed' = TRUE
  /\ UNCHANGED <<page, call>>

-----------------------------------------------------------------------------
(* The table is there, and the overlay of no form lies over it.             *)
RowShown(e) ==
  /\ page.about = None /\ ~page.loading /\ ~page.form.open
  /\ page.list[e] # NoRow

Form(new) == page' = [page EXCEPT !.form = new]

(* Mutant: the form knows a number of days only from the default upwards.   *)
retentionDaysFromDefault(days) == IF days >= DefaultDays THEN days ELSE DefaultDays

(* What the form computes from the dates of a row.                          *)
retentionDays(days) == IF days > 0 THEN days ELSE DefaultDays

NewEvent ==
  /\ Spend /\ page.about = None /\ ~page.form.open
  /\ Form([Closed EXCEPT !.open = TRUE, !.named = 3])
  /\ UNCHANGED <<server, call, disturbed>>

EditEvent(e) ==
  /\ Spend /\ RowShown(e)
  /\ Form([Closed EXCEPT !.open = TRUE, !.of = e,
                         !.days = retentionDays(page.list[e].days),
                         !.named = page.list[e].albums])
  /\ UNCHANGED <<server, call, disturbed>>

(* The fields of the form: the days, and the names and number of albums. A  *)
(* field that is hidden again by then may hold what its limits forbid.      *)
TypeDays(d) ==
  /\ Spend /\ page.form.open
  /\ Form([page.form EXCEPT !.days = d, !.touched = TRUE])
  /\ UNCHANGED <<server, call, disturbed>>

updateAlbum ==
  /\ Spend /\ page.form.open /\ page.form.named > 0
  /\ Form([page.form EXCEPT !.named = @ - 1, !.blank = @ + 1])
  /\ UNCHANGED <<server, call, disturbed>>

addAlbum ==
  /\ Spend /\ page.form.open
  /\ Form([page.form EXCEPT !.named = @ + 1])
  /\ UNCHANGED <<server, call, disturbed>>

removeAlbum ==
  /\ Spend /\ page.form.open
  /\ page.form.named + page.form.blank > 1
  /\ \/ page.form.named > 0 /\ Form([page.form EXCEPT !.named = @ - 1])
     \/ page.form.blank > 0 /\ Form([page.form EXCEPT !.blank = @ - 1])
  /\ UNCHANGED <<server, call, disturbed>>

CancelForm ==
  /\ Spend /\ page.form.open
  /\ Form(Closed)
  /\ UNCHANGED <<server, call, disturbed>>

(* Mutant: the button of the form does not look whether it is submitting.   *)
SubmitAgain(c) ==
  /\ page.form.open /\ page.form.named > 0
  /\ Send(c, "save", page.form)
  /\ Form([page.form EXCEPT !.by = @ \cup {c}])
  /\ UNCHANGED server

(* isFormValid and submitting guard the button; handleSubmit sends the      *)
(* albums that have a name, to handleCreate or to handleUpdate.             *)
Submit(c) ==
  /\ page.form.open /\ page.form.by = {} /\ page.form.named > 0
  /\ Send(c, "save", page.form)
  /\ Form([page.form EXCEPT !.by = {c}])
  /\ UNCHANGED server

(* handleDelete, once confirmed.                                            *)
DeleteEvent(c, e) ==
  /\ RowShown(e)
  /\ Send(c, "delete", [Closed EXCEPT !.of = e])
  /\ UNCHANGED <<server, page>>

Dismiss ==
  /\ Spend /\ page.about = None /\ page.error /\ ~page.form.open
  /\ page' = [page EXCEPT !.error = FALSE]
  /\ UNCHANGED <<server, call, disturbed>>

-----------------------------------------------------------------------------
(* The page of an event shows its panel while it has the event.             *)
Mounted == page.about # None /\ ~page.loading /\ ~page.error

(* What the components of a panel that is gone set is lost.                 *)
InPanel(new) == page' = IF Mounted THEN [page EXCEPT !.panel = new] ELSE page

(* Mutant: contacts are added while others still are.                       *)
AddTwice(c, emails) ==
  /\ Mounted
  /\ Send(c, "add", Contacts(emails))
  /\ InPanel([page.panel EXCEPT !.adding = TRUE])
  /\ UNCHANGED server

handleAdd(c, emails) ==
  /\ Mounted /\ ~page.panel.adding
  /\ Send(c, "add", Contacts(emails))
  /\ InPanel([page.panel EXCEPT !.adding = TRUE])
  /\ UNCHANGED server

handleRemove(c, m) ==
  /\ Mounted /\ ~page.panel.loading /\ m \in page.panel.invites
  /\ Send(c, "remove", Contacts({m}))
  /\ UNCHANGED <<server, page>>

DownloadZip(c) ==
  /\ Mounted /\ ~page.zip
  /\ Send(c, "zip", None)
  /\ page' = [page EXCEPT !.zip = TRUE]
  /\ UNCHANGED server

-----------------------------------------------------------------------------
Operations == {"save", "delete", "add", "remove", "zip"}

(* The server carries an operation out, or refuses it for an event or a     *)
(* contact that is not there. Contacts are invited one after the other, and *)
(* a mail that cannot be sent ends it with the last one stored.             *)
Operate(c) ==
  LET arg == call[c].arg
      of == IF call[c].op \in {"save", "delete"} THEN arg.of ELSE page.about IN
  /\ \/ /\ Sent(c, "save") /\ Serve(c, None)
        /\ \/ of = None /\ \E e \in Weddings : CreateRow(e, arg.days, arg.named)
           \/ of # None /\ UpdateRow(of, arg.days, arg.named)
     \/ Sent(c, "delete") /\ DeleteRow(of) /\ Serve(c, None)
     \/ Sent(c, "add") /\ Invite(of, arg.contacts) /\ Serve(c, None)
     \/ /\ Sent(c, "add") /\ Refuse(c)
        /\ \E some \in SUBSET arg.contacts : some # {} /\ Invite(of, some)
     \/ /\ Sent(c, "remove") /\ Serve(c, None)
        /\ \E m \in arg.contacts : Uninvite(of, m)
     \/ /\ Sent(c, "zip") /\ Exists(of) /\ Serve(c, None)
        /\ UNCHANGED server
     \/ /\ call[c].op \in Operations /\ call[c].at = "sent"
        /\ of # None /\ ~Exists(of)
        /\ Refuse(c) /\ UNCHANGED server
     \/ /\ Sent(c, "remove") /\ arg.contacts \cap server.invited[of] = {}
        /\ Refuse(c) /\ UNCHANGED server
  /\ UNCHANGED <<page, disturbed, left>>

(* The handler of the form is over: it may be submitted again.              *)
Resubmittable(c) == [page.form EXCEPT !.by = @ \ {c}]

OperationFails(c) ==
  LET op == call[c].op IN
  /\ op \in Operations /\ Fails(c)
  /\ \/ op \in {"save", "delete"}
        /\ page' = [page EXCEPT !.error = TRUE, !.form = Resubmittable(c)]
     \/ op = "zip" /\ page' = [page EXCEPT !.error = TRUE, !.zip = FALSE, !.panel = NoPanel]
     \/ op = "add" /\ InPanel([page.panel EXCEPT !.adding = FALSE])
     \/ op = "remove" /\ UNCHANGED page
  /\ SetCall(c, Idle)
  /\ disturbed' = TRUE
  /\ UNCHANGED server

(* The answer to a form closes the form of its kind, and the table is       *)
(* loaded; that to a contact merges it into the list.                       *)
Operated(c) ==
  LET op == call[c].op
      arg == call[c].arg IN
  /\ op \in Operations /\ call[c].at = "served"
  /\ \/ /\ op \in {"save", "delete"}
        /\ page' = [page EXCEPT
             !.loading = TRUE, !.error = FALSE,
             !.form = IF op = "save" /\ (arg.of = None) = (page.form.of = None)
                      THEN Closed ELSE @]
        /\ SetCall(c, Loading)
     \/ /\ op = "add" /\ SetCall(c, Idle)
        /\ InPanel([page.panel EXCEPT !.adding = FALSE, !.invites = @ \cup arg.contacts])
     \/ /\ op = "remove" /\ SetCall(c, Idle)
        /\ InPanel([page.panel EXCEPT !.invites = @ \ arg.contacts])
     \/ /\ op = "zip" /\ SetCall(c, Idle)
        /\ page' = [page EXCEPT !.zip = FALSE]
  /\ UNCHANGED <<server, disturbed, left>>

Loads == {"load", "invites"}

(* What the loads read; an event that is not there is not found.            *)
Read(c) ==
  /\ \/ Sent(c, "load") /\ page.about = None /\ Serve(c, server.ev)
     \/ /\ Sent(c, "load") /\ page.about # None /\ Exists(page.about)
        /\ Serve(c, [NoRows EXCEPT ![page.about] = server.ev[page.about]])
     \/ /\ Sent(c, "invites") /\ Exists(page.about)
        /\ Serve(c, Contacts(server.invited[page.about]))
     \/ /\ call[c].op \in Loads /\ call[c].at = "sent"
        /\ page.about # None /\ ~Exists(page.about)
        /\ Refuse(c)
  /\ UNCHANGED <<server, page, disturbed, left>>

LoadFails(c) ==
  /\ call[c].op \in Loads /\ Fails(c)
  /\ \/ call[c].op = "load" /\ page' = [page EXCEPT !.loading = FALSE, !.error = TRUE]
     \/ call[c].op = "invites" /\ InPanel([page.panel EXCEPT !.loading = FALSE])
  /\ SetCall(c, Idle)
  /\ disturbed' = TRUE
  /\ UNCHANGED server

(* loadDashboard ends, or loadData does, which mounts the panel.            *)
Loaded(c) ==
  /\ Served(c, "load")
  /\ page' = [page EXCEPT !.loading = FALSE, !.list = call[c].got,
                !.panel.loading = page.about # None]
  /\ SetCall(c, IF page.about = None THEN Idle ELSE [Loading EXCEPT !.op = "invites"])
  /\ UNCHANGED <<server, disturbed, left>>

(* load of the panel replaces the list, whatever was added meanwhile.       *)
PanelLoaded(c) ==
  /\ Served(c, "invites")
  /\ InPanel([page.panel EXCEPT !.loading = FALSE, !.invites = call[c].got.contacts])
  /\ SetCall(c, Idle)
  /\ UNCHANGED <<server, disturbed, left>>

Progress(c) ==
  \/ Operate(c) \/ OperationFails(c) \/ Operated(c)
  \/ Read(c) \/ LoadFails(c) \/ Loaded(c) \/ PanelLoaded(c)

Type == \/ NewEvent \/ updateAlbum \/ addAlbum \/ removeAlbum \/ CancelForm
        \/ Dismiss \/ \E d \in Days : TypeDays(d)

Click(c) ==
  \/ Submit(c) \/ DownloadZip(c)
  \/ \E e \in Weddings : DeleteEvent(c, e)
  \/ \E emails \in SUBSET Emails \ {{}} : handleAdd(c, emails)
  \/ \E m \in Emails : handleRemove(c, m)

Next ==
  \/ OthersWrite \/ Type
  \/ \E e \in Weddings : EditEvent(e)
  \/ \E c \in Calls : Click(c) \/ Progress(c)

Spec == Init /\ [][Next]_vars

-----------------------------------------------------------------------------
Forms ==
  [open : BOOLEAN, of : Weddings \cup {None}, days : Days,
   named : 0..(AlbumLimit + MaxInputs + 3), blank : 0..MaxInputs,
   touched : BOOLEAN, by : SUBSET Calls]

(* Every variable stays in the set of values the code can give it: an event *)
(* always has an album that a slideshow can open.                           *)
TypeOK ==
  /\ server \in EventTables
  /\ page \in [about : {None} \cup Weddings, list : [Weddings -> Rows \cup {NoRow}],
               loading : BOOLEAN, error : BOOLEAN, form : Forms, zip : BOOLEAN,
               panel : [loading : BOOLEAN, adding : BOOLEAN, invites : SUBSET Emails]]
  /\ call \in CallsOf(Operations \cup Loads, Forms \cup [contacts : SUBSET Emails],
                      [Weddings -> Rows \cup {NoRow}] \cup [contacts : SUBSET Emails])
  /\ disturbed \in BOOLEAN /\ left \in 0..MaxInputs

(* A form about to be saved whose event is there, and whose days nobody     *)
(* touched; nobody else wrote, no calls overlapped, and none failed.        *)
SavesUntouched(c) ==
  LET arg == call[c].arg IN
  /\ Sent(c, "save") /\ ~disturbed
  /\ arg.of # None /\ ~arg.touched /\ Exists(arg.of)

(* An edit of something else sends the days that the event has now, from    *)
(* whichever row the form was opened, unless they are none: then it sends   *)
(* the default, and the photos are kept for that long.                      *)
UntouchedDaysOrDefault ==
  \A c \in Calls : SavesUntouched(c) =>
    LET days == server.ev[call[c].arg.of].days IN
    call[c].arg.days = IF days = 0 THEN DefaultDays ELSE days

(* Not so, though the form is to "Calculate retention from existing event   *)
(* dates": what an untouched form sends is what the dates say, be it none.  *)
UntouchedDaysStay ==
  \A c \in Calls : SavesUntouched(c) =>
    call[c].arg.days = server.ev[call[c].arg.of].days

(* One click is one event, or one set of invitations: what is at work is    *)
(* not sent a second time.                                                  *)
OneAtATime ==
  /\ Cardinality(page.form.by) <= 1
  /\ Cardinality({c \in Calls : call[c].op = "add"}) <= 1

(* Once its calls are answered, a page that did one thing at a time, beside *)
(* nobody else, shows the events and the contacts as they are.              *)
ShowsOwnWork ==
  Quiet /\ ~disturbed /\ ~page.error =>
    /\ \A e \in Weddings : page.about \in {None, e} => page.list[e] = server.ev[e]
    /\ page.about # None => page.panel.invites = server.invited[page.about]

=============================================================================
