---------------------------- MODULE DevicePages ----------------------------
(***************************************************************************)
(* The registry of booths and the two admin pages about it: the dashboard, *)
(* with a row for each device and the form that provisions one, and the    *)
(* page of one device. A visit is to one of them, while booths send their  *)
(* heartbeats and other admins work on the same registry.                  *)
(*                                                                         *)
(* Every operation of a page is followed by a load of everything. A row of *)
(* the table is disabled while the page knows that it is busy, and it      *)
(* knows of one device at a time.                                          *)
(***************************************************************************)
EXTENDS PageVisit

CONSTANTS
  Devices,      \* registrations there may ever be
  Weddings      \* events a device can be assigned to

Gone == "gone"        \* not registered

Values == Weddings \cup {None, Gone}

NothingKnown == [d \in Devices |-> Gone]

(* row: devices, the assigned event of each that is registered; removed:    *)
(* the registrations that were deleted, whose ids do not come again; beat:  *)
(* the row that a heartbeat has read; booth: the event a booth was told.    *)
Registries ==
  [row : [Devices -> Values], removed : SUBSET Devices,
   beat : [Devices -> Values], booth : [Devices -> Weddings \cup {None}]]

(* about: the device of a detail page, or None on the dashboard; list and   *)
(* draft: the assignments that are known and those selected in the forms;   *)
(* assigning, deleting, provisioning: what the page is busy with; package:  *)
(* provisionedDevice, with the only copy of its private key.                *)
DevicePage ==
  [about : Devices \cup {None}, list : [Devices -> Values],
   draft : [Devices -> Values], loading : BOOLEAN, error : BOOLEAN,
   modal : BOOLEAN, assigning : Devices \cup {None},
   deleting : Devices \cup {None}, provisioning : BOOLEAN,
   package : Devices \cup {None}]

Init ==
  /\ server \in [row : [Devices -> {None, Gone}], removed : {{}},
                 beat : {NothingKnown}, booth : {[d \in Devices |-> None]}]
  /\ page \in [about : Devices \cup {None}, list : {NothingKnown},
               draft : {NothingKnown}, loading : {TRUE}, error : {FALSE},
               modal : {FALSE}, assigning : {None}, deleting : {None},
               provisioning : {FALSE}, package : {None}]
  /\ VisitInit

row == server.row

-----------------------------------------------------------------------------
(* ProcessHeartbeatAsync reads the whole row, ...                           *)
HeartbeatRead(d) ==
  /\ row[d] # Gone /\ server.beat[d] = Gone
  /\ server' = [server EXCEPT !.beat[d] = row[d]]
  /\ UNCHANGED <<page, call, disturbed, left>>

(* Mutant: a heartbeat of a device that is not there inserts it.            *)
HeartbeatUpsert(d) ==
  LET read == server.beat[d] IN
  /\ read # Gone
  /\ server' = [server EXCEPT !.beat[d] = Gone, !.row[d] = read, !.booth[d] = read]
  /\ disturbed' = (disturbed \/ read # row[d])
  /\ UNCHANGED <<page, call, left>>

(* ... and UpdateAsync writes all of it back, over an assignment that was   *)
(* made meanwhile. The update of a row that is not there any more fails.    *)
HeartbeatWrite(d) ==
  LET read == server.beat[d] IN
  /\ read # Gone
  /\ server' = IF row[d] = Gone THEN [server EXCEPT !.beat[d] = Gone]
               ELSE [server EXCEPT !.beat[d] = Gone, !.row[d] = read, !.booth[d] = read]
  /\ disturbed' = (disturbed \/ (row[d] # Gone /\ read # row[d]))
  /\ UNCHANGED <<page, call, left>>

(* AssignEventAsync, DeleteAsync and RegisterAsync.                         *)
AssignEvent(d, e) ==
  /\ row[d] # Gone
  /\ server' = [server EXCEPT !.row[d] = e]

DeleteRow(d) ==
  /\ row[d] # Gone
  /\ server' = [server EXCEPT !.row[d] = Gone, !.removed = @ \cup {d}]

Register(d) ==
  /\ row[d] = Gone /\ d \notin server.removed
  /\ server' = [server EXCEPT !.row[d] = None]

(* Another admin, or the console of a booth that registers itself.          *)
OthersWrite ==
  /\ Spend
  /\ \E d \in Devices : \/ \E e \in Weddings \cup {None} : AssignEvent(d, e)
                         \/ DeleteRow(d) \/ Register(d)
  /\ disturbed' = TRUE
  /\ UNCHANGED <<page, call>>

-----------------------------------------------------------------------------
(* A row of the table, or the form of the detail page, is there to be used: *)
(* not while the page loads, and on the detail page not after an error.     *)
RowShown(d) ==
  /\ ~page.loading /\ page.list[d] # Gone
  /\ page.about # None => page.about = d /\ ~page.error

Select(d, e) ==
  /\ Spend /\ RowShown(d)
  /\ page' = [page EXCEPT !.draft[d] = e]
  /\ UNCHANGED <<server, call, disturbed>>

(* handleAssign of the dashboard, and its button; ...                       *)
Assign(c, d) ==
  /\ page.about = None /\ RowShown(d)
  /\ page.draft[d] # page.list[d] /\ page.assigning # d
  /\ Send(c, "assign", [dev |-> d, to |-> page.draft[d]])
  /\ page' = [page EXCEPT !.assigning = d, !.error = FALSE]
  /\ UNCHANGED server

(* ... handleSaveAssignment of the detail page, and its button.             *)
SaveAssignment(c, d) ==
  /\ page.about = d /\ RowShown(d)
  /\ page.draft[d] # page.list[d] /\ page.assigning = None
  /\ Send(c, "assign", [dev |-> d, to |-> page.draft[d]])
  /\ page' = [page EXCEPT !.assigning = d, !.error = FALSE]
  /\ UNCHANGED server

(* handleDelete, once confirmed, remembers the package of this moment.      *)
Delete(c, d) ==
  /\ page.about = None /\ RowShown(d)
  /\ page.assigning # d /\ page.deleting # d
  /\ Send(c, "delete", [dev |-> d, to |-> page.package])
  /\ page' = [page EXCEPT !.deleting = d, !.error = FALSE]
  /\ UNCHANGED server

(* The error of the dashboard is dismissed.                                 *)
Dismiss ==
  /\ Spend /\ page.about = None /\ page.error
  /\ page' = [page EXCEPT !.error = FALSE]
  /\ UNCHANGED <<server, call, disturbed>>

(* The form is opened, cancelled, or closed beside it unless it is busy.    *)
ToggleModal ==
  /\ Spend /\ page.about = None
  /\ page' = [page EXCEPT !.modal = ~@]
  /\ UNCHANGED <<server, call, disturbed>>

(* Mutant: the button of the form is not disabled while it is at work.      *)
ProvisionTwice(c, d) ==
  /\ page.modal
  /\ Send(c, "provision", [dev |-> d, to |-> None])
  /\ page' = [page EXCEPT !.provisioning = TRUE, !.error = FALSE]
  /\ UNCHANGED server

(* handleProvision, and the button of the form.                             *)
Provision(c, d) ==
  /\ page.modal /\ ~page.provisioning
  /\ Send(c, "provision", [dev |-> d, to |-> None])
  /\ page' = [page EXCEPT !.provisioning = TRUE, !.error = FALSE]
  /\ UNCHANGED server

-----------------------------------------------------------------------------
(* The server carries an operation out, or refuses: a device that is not    *)
(* there, or a name that is.                                                *)
Operate(c) ==
  LET d == call[c].arg.dev IN
  /\ \/ /\ Sent(c, "assign") /\ AssignEvent(d, call[c].arg.to) /\ Serve(c, None)
     \/ /\ Sent(c, "delete") /\ DeleteRow(d) /\ Serve(c, None)
     \/ /\ Sent(c, "provision") /\ Register(d) /\ Serve(c, None)
     \/ /\ Sent(c, "assign") \/ Sent(c, "delete")
        /\ row[d] = Gone
        /\ Refuse(c) /\ UNCHANGED server
     \/ /\ Sent(c, "provision")
        /\ row[d] # Gone \/ d \in server.removed
        /\ Refuse(c) /\ UNCHANGED server
  /\ UNCHANGED <<page, disturbed, left>>

(* What a call is loaded for ends with it: the finally of its handler.      *)
Finally(op) ==
  CASE op = "assign" -> [page EXCEPT !.assigning = None]
    [] op = "delete" -> [page EXCEPT !.deleting = None]
    [] op = "provision" -> [page EXCEPT !.provisioning = FALSE]
    [] OTHER -> page

Operations == {"assign", "delete", "provision"}

(* An operation is not carried out, or its answer is lost: then the page    *)
(* does not learn what it did.                                              *)
OperationFails(c) ==
  /\ call[c].op \in Operations /\ Fails(c)
  /\ page' = [Finally(call[c].op) EXCEPT !.error = TRUE]
  /\ SetCall(c, Idle)
  /\ disturbed' = (disturbed \/ call[c].at = "served")
  /\ UNCHANGED server

(* The loads that follow an operation tell which, for its finally.          *)
LoadFor(op) ==
  CASE op = "assign" -> "assigned"
    [] op = "delete" -> "deleted"
    [] op = "provision" -> "provisioned"

Loads == {"load"} \cup {LoadFor(op) : op \in Operations}

OperationOf(load) ==
  IF load = "load" THEN load ELSE CHOOSE op \in Operations : LoadFor(op) = load

(* Mutant: the table is not loaded again after a deletion.                  *)
OperatedUnloaded(c) ==
  LET op == call[c].op
      d == call[c].arg.dev IN
  /\ op \in Operations /\ Served(c, op)
  /\ page' = [IF op = "delete" THEN Finally(op) ELSE [page EXCEPT !.loading = TRUE]
              EXCEPT !.error = FALSE,
                     !.package = IF op = "provision" THEN d ELSE @,
                     !.modal = @ /\ op # "provision"]
  /\ SetCall(c, IF op = "delete" THEN Idle ELSE [Loading EXCEPT !.op = LoadFor(op)])
  /\ UNCHANGED <<server, disturbed, left>>

(* The answer: the package of a new device is shown, that of a deleted one  *)
(* goes, and everything is loaded. A deletion that was confirmed over the   *)
(* package of its device takes away whichever is there by now.              *)
Operated(c) ==
  LET op == call[c].op
      d == call[c].arg.dev IN
  /\ op \in Operations /\ Served(c, op)
  /\ page' = [page EXCEPT !.loading = TRUE, !.error = FALSE,
                          !.package = CASE op = "provision" -> d
                                        [] op = "delete" /\ call[c].arg.to = d -> None
                                        [] OTHER -> @,
                          !.modal = @ /\ op # "provision"]
  /\ SetCall(c, [Loading EXCEPT !.op = LoadFor(op)])
  /\ UNCHANGED <<server, disturbed, left>>

(* GetAllAsync; GetByIdAsync and GetConfigAsync do not find a deleted one.  *)
ReadRows(c) ==
  /\ call[c].op \in Loads /\ call[c].at = "sent"
  /\ \/ page.about = None /\ Serve(c, row)
     \/ /\ page.about # None /\ row[page.about] # Gone
        /\ Serve(c, [NothingKnown EXCEPT ![page.about] = row[page.about]])
     \/ /\ page.about # None /\ row[page.about] = Gone
        /\ Refuse(c)
  /\ UNCHANGED <<server, page, disturbed, left>>

(* loadData ends: with an error, over the rows of before, which the table   *)
(* mounts again, ...                                                        *)
LoadFails(c) ==
  /\ call[c].op \in Loads /\ Fails(c)
  /\ page' = [Finally(OperationOf(call[c].op)) EXCEPT
                !.error = TRUE, !.loading = FALSE,
                !.draft = IF page.loading /\ page.about = None THEN page.list ELSE @]
  /\ SetCall(c, Idle)
  /\ disturbed' = TRUE
  /\ UNCHANGED server

(* ... or with the devices. A row that is mounted again, or is told another *)
(* assignment, selects what is known; one that an earlier load has already  *)
(* brought back keeps what was selected since.                              *)
Loaded(c) ==
  LET got == call[c].got
      Kept(d) == page.about = None /\ ~page.loading /\ got[d] = page.list[d] IN
  /\ call[c].op \in Loads /\ call[c].at = "served"
  /\ page' = [Finally(OperationOf(call[c].op)) EXCEPT
                !.loading = FALSE, !.list = got,
                !.draft = [d \in Devices |-> IF Kept(d) THEN @[d] ELSE got[d]]]
  /\ SetCall(c, Idle)
  /\ UNCHANGED <<server, disturbed, left>>

Heartbeat(d) == HeartbeatRead(d) \/ HeartbeatWrite(d)

Progress(c) ==
  \/ Operate(c) \/ OperationFails(c) \/ Operated(c)
  \/ ReadRows(c) \/ LoadFails(c) \/ Loaded(c)

Click(c, d) ==
  Assign(c, d) \/ SaveAssignment(c, d) \/ Delete(c, d) \/ Provision(c, d)

Next ==
  \/ OthersWrite \/ ToggleModal \/ Dismiss
  \/ \E d \in Devices : \/ Heartbeat(d)
                         \/ \E e \in Weddings \cup {None} : Select(d, e)
                         \/ \E c \in Calls : Click(c, d)
  \/ \E c \in Calls : Progress(c)

Spec == Init /\ [][Next]_vars

-----------------------------------------------------------------------------
(* Every variable stays in the set of values the code can give it.          *)
TypeOK ==
  /\ server \in Registries
  /\ page \in DevicePage
  /\ call \in CallsOf(Operations \cup Loads,
                      [dev : Devices, to : Weddings \cup Devices \cup {None}],
                      [Devices -> Values])
  /\ disturbed \in BOOLEAN /\ left \in 0..MaxInputs

(* A device that was deleted stays so: no heartbeat that read its row       *)
(* before, and no assignment that was on its way, brings it back.           *)
DeletedStaysDeleted == \A d \in server.removed : row[d] = Gone

(* One device is provisioned at a time: the package of one is not replaced  *)
(* by the next while its form is still at work.                             *)
OneProvisioning ==
  \A c, d \in Calls :
    /\ call[c].op \in {"provision", LoadFor("provision")}
    /\ call[d].op \in {"provision", LoadFor("provision")}
    => c = d

(* Once its calls are answered, a page that did one thing at a time, beside *)
(* nobody else, shows the registry as it is.                                *)
ShowsOwnWork ==
  Quiet /\ ~disturbed /\ ~page.error =>
    \A d \in Devices : page.about \in {None, d} => page.list[d] = row[d]

=============================================================================
