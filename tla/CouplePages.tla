---------------------------- MODULE CouplePages ----------------------------
(***************************************************************************)
(* The pages of a couple and its guests about the photos of one event: the *)
(* gallery, where captions are edited and photos deleted, the upload page  *)
(* behind the couple's link, and the download page of one photo.           *)
(*                                                                         *)
(* The files of one drop are uploaded one after the other, two drops side  *)
(* by side. The gallery has one editor, whose text is that of the photo it *)
(* is open for, and one flag for the saving of any caption.                *)
(***************************************************************************)
EXTENDS PageVisit

CONSTANTS
  Photos,       \* photos there may ever be, each with the file it comes from
  Captions      \* captions, an empty one among them

Gone == "gone"        \* not stored

Values == Captions \cup {Gone}

NothingKnown == [p \in Photos |-> Gone]

Statuses == {"none", "pending", "uploading", "done", "error"}

(* photo: images, with their captions; removed: those deleted, whose ids do *)
(* not come again; valid: does the link's token still hold.                 *)
Galleries == [photo : [Photos -> Values], removed : SUBSET Photos, valid : BOOLEAN]

(* list: the photos the page shows; editing and text: the caption editor;   *)
(* item: the files that were dropped. The download page is about a photo.   *)
CouplePage ==
  [about : {"gallery", "upload"} \cup Photos, list : [Photos -> Values],
   loading : BOOLEAN, error : BOOLEAN, editing : Photos \cup {None},
   text : Captions, saving : BOOLEAN, zip : BOOLEAN, item : [Photos -> Statuses]]

Init ==
  /\ server \in [photo : [Photos -> {Gone, CHOOSE t \in Captions : TRUE}],
                 removed : {{}}, valid : BOOLEAN]
  /\ page \in [about : {"gallery", "upload"} \cup Photos, list : {NothingKnown},
               loading : {TRUE}, error : {FALSE}, editing : {None},
               text : {CHOOSE t \in Captions : TRUE}, saving : {FALSE}, zip : {FALSE},
               item : {[p \in Photos |-> "none"]}]
  /\ VisitInit

photo == server.photo

-----------------------------------------------------------------------------
StorePhoto(p) ==
  /\ photo[p] = Gone /\ p \notin server.removed
  /\ server' = [server EXCEPT !.photo[p] = CHOOSE t \in Captions : TRUE]

DeletePhoto(p) ==
  /\ photo[p] # Gone
  /\ server' = [server EXCEPT !.photo[p] = Gone, !.removed = @ \cup {p}]

WriteCaption(p, t) ==
  /\ photo[p] # Gone
  /\ server' = [server EXCEPT !.photo[p] = t]

(* Booths, admins, the other half of the couple; and the event expires.     *)
OthersWrite ==
  /\ Spend
  /\ \/ \E p \in Photos : page.item[p] = "none" /\ StorePhoto(p)
     \/ \E p \in Photos : DeletePhoto(p)
     \/ \E p \in Photos, t \in Captions : WriteCaption(p, t)
     \/ server.valid /\ server' = [server EXCEPT !.valid = FALSE]
  /\ disturbed' = TRUE
  /\ UNCHANGED <<page, call>>

-----------------------------------------------------------------------------
(* A card of the gallery: a photo that is listed.                           *)
Shown(p) == page.about = "gallery" /\ page.list[p] # Gone

startEditCaption(p) ==
  /\ Spend /\ Shown(p) /\ page.editing # p
  /\ page' = [page EXCEPT !.editing = p, !.text = page.list[p]]
  /\ UNCHANGED <<server, call, disturbed>>

TypeCaption(t) ==
  /\ Spend /\ page.editing # None /\ Shown(page.editing)
  /\ page' = [page EXCEPT !.text = t]
  /\ UNCHANGED <<server, call, disturbed>>

CancelCaption ==
  /\ Spend /\ page.editing # None /\ Shown(page.editing)
  /\ page' = [page EXCEPT !.editing = None]
  /\ UNCHANGED <<server, call, disturbed>>

(* Mutant: a second caption is saved while the first still is.              *)
SaveAgain(c, p) ==
  /\ Shown(p) /\ page.editing = p
  /\ Send(c, "save", [of |-> p, text |-> page.text])
  /\ page' = [page EXCEPT !.saving = TRUE]
  /\ UNCHANGED server

(* saveCaption and its button.                                              *)
saveCaption(c, p) ==
  /\ Shown(p) /\ page.editing = p /\ ~page.saving
  /\ Send(c, "save", [of |-> p, text |-> page.text])
  /\ page' = [page EXCEPT !.saving = TRUE]
  /\ UNCHANGED server

(* handleDelete, once confirmed; a card that is edited has no such button.  *)
handleDelete(c, p) ==
  /\ Shown(p) /\ page.editing # p
  /\ Send(c, "delete", [of |-> p])
  /\ UNCHANGED <<server, page>>

handleDownloadEventZip(c) ==
  /\ page.about = "gallery" /\ ~page.zip
  /\ Send(c, "zip", None)
  /\ page' = [page EXCEPT !.zip = TRUE]
  /\ UNCHANGED server

(* onDrop lists all the files, and starts with the first.                   *)
onDrop(c, files, first) ==
  /\ page.about = "upload" /\ ~page.loading /\ ~page.error
  /\ \A p \in files : page.item[p] = "none" /\ photo[p] = Gone /\ p \notin server.removed
  /\ Send(c, "upload", [of |-> first, rest |-> files \ {first}])
  /\ page' = [page EXCEPT !.item = [p \in Photos |->
                CASE p = first -> "uploading"
                  [] p \in files \ {first} -> "pending"
                  [] OTHER -> page.item[p]]]
  /\ UNCHANGED server

-----------------------------------------------------------------------------
Operations == {"save", "delete", "zip", "upload"}

(* The server carries an operation out, or refuses it: for a photo that is  *)
(* not there, a link that is not valid, or a file that is no picture.       *)
Operate(c) ==
  LET arg == call[c].arg IN
  /\ \/ Sent(c, "save") /\ WriteCaption(arg.of, arg.text) /\ Serve(c, None)
     \/ Sent(c, "delete") /\ DeletePhoto(arg.of) /\ Serve(c, None)
     \/ Sent(c, "zip") /\ UNCHANGED server /\ Serve(c, None)
     \/ Sent(c, "upload") /\ server.valid /\ StorePhoto(arg.of) /\ Serve(c, None)
     \/ Sent(c, "upload") /\ UNCHANGED server /\ Refuse(c)
     \/ /\ Sent(c, "save") \/ Sent(c, "delete")
        /\ photo[arg.of] = Gone
        /\ UNCHANGED server /\ Refuse(c)
  /\ UNCHANGED <<page, disturbed, left>>

(* A drop goes on with its next file, in their order, or is over.           *)
NextFile(c, status) ==
  LET arg == call[c].arg
      items == [page.item EXCEPT ![arg.of] = status] IN
  IF arg.rest = {}
  THEN page' = [page EXCEPT !.item = items] /\ SetCall(c, Idle)
  ELSE LET next == CHOOSE p \in arg.rest : TRUE IN
       /\ page' = [page EXCEPT !.item = [items EXCEPT ![next] = "uploading"]]
       /\ SetCall(c, [Loading EXCEPT !.op = "upload",
                                     !.arg = [of |-> next, rest |-> arg.rest \ {next}]])

(* Mutant: a file that fails ends the loop of its drop.                     *)
DropGivesUp(c) ==
  LET op == call[c].op IN
  /\ op \in Operations /\ Fails(c)
  /\ \/ op = "save" /\ page' = [page EXCEPT !.saving = FALSE] /\ SetCall(c, Idle)
     \/ op = "delete" /\ UNCHANGED page /\ SetCall(c, Idle)
     \/ op = "zip" /\ page' = [page EXCEPT !.zip = FALSE, !.error = TRUE] /\ SetCall(c, Idle)
     \/ /\ op = "upload" /\ SetCall(c, Idle)
        /\ page' = [page EXCEPT !.item[call[c].arg.of] = "error"]
  /\ disturbed' = TRUE
  /\ UNCHANGED server

(* An operation fails, or nobody knows: a photo may be stored or a caption  *)
(* written all the same. Most of these errors are not shown.                *)
OperationFails(c) ==
  LET op == call[c].op IN
  /\ op \in Operations /\ Fails(c)
  /\ \/ op = "save" /\ page' = [page EXCEPT !.saving = FALSE] /\ SetCall(c, Idle)
     \/ op = "delete" /\ UNCHANGED page /\ SetCall(c, Idle)
     \/ op = "zip" /\ page' = [page EXCEPT !.zip = FALSE, !.error = TRUE] /\ SetCall(c, Idle)
     \/ op = "upload" /\ NextFile(c, "error")
  /\ disturbed' = TRUE
  /\ UNCHANGED server

(* Mutant: the list takes the text that the editor has by now.              *)
SavedAsTyped(c) ==
  LET arg == call[c].arg IN
  /\ Served(c, "save") /\ SetCall(c, Idle)
  /\ page' = [page EXCEPT !.saving = FALSE, !.editing = None,
                          !.list[arg.of] = IF @ = Gone THEN Gone ELSE page.text]
  /\ UNCHANGED <<server, disturbed, left>>

(* A caption is saved: its photo shows it, and the editor closes, whichever *)
(* photo it is open for by now.                                             *)
Saved(c) ==
  LET arg == call[c].arg IN
  /\ Served(c, "save") /\ SetCall(c, Idle)
  /\ page' = [page EXCEPT !.saving = FALSE, !.editing = None,
                          !.list[arg.of] = IF @ = Gone THEN Gone ELSE arg.text]
  /\ UNCHANGED <<server, disturbed, left>>

Operated(c) ==
  /\ \/ /\ Served(c, "delete") /\ SetCall(c, Idle)
        /\ page' = [page EXCEPT !.list[call[c].arg.of] = Gone]
     \/ /\ Served(c, "zip") /\ SetCall(c, Idle)
        /\ page' = [page EXCEPT !.zip = FALSE]
     \/ Served(c, "upload") /\ NextFile(c, "done")
  /\ UNCHANGED <<server, disturbed, left>>

(* The photos of the event, the photo of the page, or the token's event.    *)
Read(c) ==
  /\ Sent(c, "load")
  /\ CASE page.about = "gallery" -> Serve(c, photo)
       [] page.about = "upload" /\ server.valid -> Serve(c, None)
       [] page.about \in Photos /\ photo[page.about] # Gone ->
            Serve(c, [NothingKnown EXCEPT ![page.about] = photo[page.about]])
       [] OTHER -> Refuse(c)
  /\ UNCHANGED <<server, page, disturbed, left>>

LoadFails(c) ==
  /\ call[c].op = "load" /\ Fails(c)
  /\ page' = [page EXCEPT !.loading = FALSE, !.error = TRUE]
  /\ SetCall(c, Idle)
  /\ disturbed' = TRUE
  /\ UNCHANGED server

Loaded(c) ==
  /\ Served(c, "load")
  /\ page' = [page EXCEPT !.loading = FALSE,
                !.list = IF page.about = "upload" THEN @ ELSE call[c].got]
  /\ SetCall(c, Idle)
  /\ UNCHANGED <<server, disturbed, left>>

Progress(c) ==
  \/ Operate(c) \/ OperationFails(c) \/ Saved(c) \/ Operated(c)
  \/ Read(c) \/ LoadFails(c) \/ Loaded(c)

Edit ==
  \/ CancelCaption
  \/ \E p \in Photos : startEditCaption(p)
  \/ \E t \in Captions : TypeCaption(t)

Click(c) ==
  \/ handleDownloadEventZip(c)
  \/ \E p \in Photos : saveCaption(c, p) \/ handleDelete(c, p)
  \/ \E files \in SUBSET Photos : \E first \in files : onDrop(c, files, first)

Next == OthersWrite \/ Edit \/ \E c \in Calls : Click(c) \/ Progress(c)

Spec == Init /\ [][Next]_vars

-----------------------------------------------------------------------------
(* Every variable stays in the set of values the code can give it.          *)
TypeOK ==
  /\ server \in Galleries
  /\ page \in CouplePage
  /\ call \in CallsOf(Operations \cup {"load"},
                      [of : Photos] \cup [of : Photos, text : Captions]
                        \cup [of : Photos, rest : SUBSET Photos],
                      [Photos -> Values])
  /\ disturbed \in BOOLEAN /\ left \in 0..MaxInputs

(* The list of uploads tells the truth: a file that is done is stored,      *)
(* unless it was deleted since; one that is being uploaded has its call,    *)
(* and one that is pending a drop that will come to it.                     *)
UploadsAreTrue ==
  \A p \in Photos :
    LET loops == {c \in Calls : call[c].op = "upload"} IN
    /\ page.item[p] = "done" => photo[p] # Gone \/ p \in server.removed
    /\ page.item[p] = "uploading" => \E c \in loops : call[c].arg.of = p
    /\ page.item[p] = "pending" => \E c \in loops : p \in call[c].arg.rest

(* Captions are saved one at a time, so that none overtakes another.        *)
OneAtATime == Cardinality({c \in Calls : call[c].op = "save"}) <= 1

(* Once its calls are answered, a gallery that did one thing at a time,     *)
(* beside nobody else, shows the photos and captions as they are, whatever  *)
(* was typed into the editor of another photo meanwhile.                    *)
ShowsOwnWork ==
  Quiet /\ ~disturbed /\ page.about = "gallery" => page.list = photo

=============================================================================
