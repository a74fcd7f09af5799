--------------------------- MODULE PhotoLifecycle ---------------------------
(***************************************************************************)
(* The life of a photo on the server: guest and couple uploads, image and  *)
(* event requests of the admin and the couple, and the retention workers   *)
(* that archive and remove expired events.                                 *)
(*                                                                         *)
(* A photo is a file in the SFTP or local store and a row of the images    *)
(* table; no transaction spans the two, so every handler is a sequence of  *)
(* steps that other handlers and workers interleave with.  One SaveChanges *)
(* is one atomic step.  The API runs in several pods, each with a hosted   *)
(* GdprCleanupJob, beside a cleanup CronJob: Workers are those retention   *)
(* workers, each with an archive directory of its own.                     *)
(***************************************************************************)
EXTENDS Naturals, FiniteSets

CONSTANTS
  Events,       \* ids an event can be created with
  Photos,       \* file names (fresh GUIDs) an upload can draw
  Titles,       \* an event's name and date, which name its archive directory
  Workers,      \* retention workers
  Requests,     \* HTTP requests the API can be serving at a time
  Ephemeral,    \* workers whose archive directory is lost when they restart
  None,         \* no event, no photo
  MaxFaults,    \* bound: storage or database errors met by a worker
  MaxAborts,    \* bound: requests cut off between two steps
  MaxRestarts   \* bound: worker restarts

ASSUME NoneIsNew == None \notin Events /\ None \notin Photos
ASSUME TitlesExist == Titles # {}
ASSUME EphemeralWorkers == Ephemeral \subseteq Workers
ASSUME BoundsAreNat ==
  MaxFaults \in Nat /\ MaxAborts \in Nat /\ MaxRestarts \in Nat

VARIABLES
  event,        \* events table: is the row there, is ExpiresAt in the past
  title,        \* events table: Name and Date of each event
  rows,         \* images table: photos that have a row
  files,        \* store: photos that have a file
  home,         \* the event a file name was drawn for
  req,          \* what each request is doing
  wk,           \* what each retention worker is doing
  archive,      \* per worker, the archive directories with a .completed marker
  faults, aborts, restarts,                             \* spent of the bounds
  acked,        \* history: photos whose upload was answered with success
  discarded,    \* history: photos somebody asked to delete
  doomed,       \* history: events an admin asked to delete
  late          \* history: photos committed too late for a removal under way

db      == <<event, title, rows>>
spent   == <<faults, aborts, restarts>>
history == <<acked, discarded, doomed, late>>
vars    == <<db, files, home, req, wk, archive, spent, history>>

-----------------------------------------------------------------------------
RowStates   == {"live", "expired"}
EventStates == RowStates \cup {"unborn", "gone"}
RequestSteps == {"idle", "uploadChecked", "uploadStored", "imageLoaded",
                 "imageFileGone", "updateLoaded", "deleteLoaded",
                 "deleteFilesGone"}
WorkerSteps == {"idle", "choosing", "zipping", "archived", "emptied"}

RequestRecords == [at : RequestSteps, ev : Events \cup {None},
                   photo : Photos \cup {None}, seen : SUBSET Photos]
WorkerRecords == [at : WorkerSteps, left : SUBSET Events,
                  cur : Events \cup {None}, fetch : SUBSET Photos,
                  pend : SUBSET Events, seen : [Events -> SUBSET Photos],
                  named : [Events -> Titles]]
Archives == [ev : Events, title : Titles, zip : SUBSET Photos]

Exists(e)  == event[e] \in RowStates
RowsOf(e)  == {p \in rows  : home[p] = e}
FilesOf(e) == {p \in files : home[p] = e}

Idle == [at |-> "idle", ev |-> None, photo |-> None, seen |-> {}]

AnyTitles == [e \in Events |-> CHOOSE t \in Titles : TRUE]
Resting   == [at |-> "idle", left |-> {}, cur |-> None, fetch |-> {},
              pend |-> {}, seen |-> [e \in Events |-> {}],
              named |-> AnyTitles]

SetReq(r, v) == req' = [req EXCEPT ![r] = v]
SetWk(w, v)  == wk'  = [wk EXCEPT ![w] = v]

(* An event's archive directory, named by date, name and id, is complete.   *)
HasMarker(w, e, t) == \E a \in archive[w] : a.ev = e /\ a.title = t

(* The events a worker has read and may still remove in this cycle.         *)
Holds(w) == wk[w].left \cup wk[w].pend \cup ({wk[w].cur} \ {None})

(* Some worker has a completed archive of e, under whatever title.          *)
ArchivedBy(w, e) == \E a \in archive[w] : a.ev = e
Archived(e)      == \E w \in Workers : ArchivedBy(w, e)

(* An upload that commits now comes after the photos of e were read, or     *)
(* after e was archived under some title.                                   *)
TooLate(e) == Archived(e) \/ \E w \in Workers : e \in Holds(w)

(* DELETE of an event and of the image rows its DbContext tracks: any row   *)
(* that is not there any more fails the whole SaveChanges.                  *)
Deletable(e, seen) == Exists(e) /\ seen \subseteq rows

RemoveRows(E) ==
  /\ event' = [e \in Events |-> IF e \in E THEN "gone" ELSE event[e]]
  /\ rows'  = {p \in rows : home[p] \notin E}
  /\ UNCHANGED title

Init ==
  /\ event = [e \in Events |-> "unborn"]
  /\ title = AnyTitles
  /\ rows = {} /\ files = {}
  /\ home = [p \in Photos |-> None]
  /\ req = [r \in Requests |-> Idle]
  /\ wk = [w \in Workers |-> Resting]
  /\ archive = [w \in Workers |-> {}]
  /\ faults = 0 /\ aborts = 0 /\ restarts = 0
  /\ acked = {} /\ discarded = {} /\ doomed = {} /\ late = {}

-----------------------------------------------------------------------------
(* Events: creation, for a date that may be long past already, and the      *)
(* passing of ExpiresAt.                                                    *)

CreateEvent(e, s, t) ==
  /\ event[e] = "unborn"
  /\ event' = [event EXCEPT ![e] = s]
  /\ title' = [title EXCEPT ![e] = t]
  /\ UNCHANGED <<rows, files, home, req, wk, archive, spent, history>>

Expire(e) ==
  /\ event[e] = "live"
  /\ event' = [event EXCEPT ![e] = "expired"]
  /\ UNCHANGED <<title, rows, files, home, req, wk, archive, spent, history>>

-----------------------------------------------------------------------------
(* Uploads: the event is checked, the file stored, then the row inserted.   *)

UploadCheck(r, e) ==
  /\ req[r].at = "idle"
  /\ event[e] = "live"
  /\ SetReq(r, [Idle EXCEPT !.at = "uploadChecked", !.ev = e])
  /\ UNCHANGED <<db, files, home, wk, archive, spent, history>>

UploadStore(r, p) ==
  /\ req[r].at = "uploadChecked"
  /\ home[p] = None
  /\ home'  = [home EXCEPT ![p] = req[r].ev]
  /\ files' = files \cup {p}
  /\ SetReq(r, [req[r] EXCEPT !.at = "uploadStored", !.photo = p])
  /\ UNCHANGED <<db, wk, archive, spent, history>>

UploadInsert(r) ==
  LET p == req[r].photo
      e == req[r].ev
  IN  /\ req[r].at = "uploadStored"
      /\ Exists(e)
      /\ rows'  = rows \cup {p}
      /\ acked' = acked \cup {p}
      /\ late'  = IF TooLate(e) THEN late \cup {p} ELSE late
      /\ SetReq(r, Idle)
      /\ UNCHANGED <<event, title, files, home, wk, archive, spent,
                     discarded, doomed>>

(* The event row went away in between: the foreign key refuses the row, and *)
(* nothing takes the stored file back.                                      *)
UploadRefused(r) ==
  /\ req[r].at = "uploadStored"
  /\ ~Exists(req[r].ev)
  /\ SetReq(r, Idle)
  /\ UNCHANGED <<db, files, home, wk, archive, spent, history>>

-----------------------------------------------------------------------------
(* Deleting one image: the file first, then the row.                        *)

ImageLoad(r, p) ==
  /\ req[r].at = "idle"
  /\ p \in rows
  /\ SetReq(r, [Idle EXCEPT !.at = "imageLoaded", !.ev = home[p], !.photo = p])
  /\ discarded' = discarded \cup {p}
  /\ UNCHANGED <<db, files, home, wk, archive, spent, acked, doomed, late>>

(* Mutant: a storage error is swallowed, as for the directory of an event.  *)
ImageDeleteFileSwallows(r) ==
  /\ req[r].at = "imageLoaded"
  /\ files' \in {files, files \ {req[r].photo}}
  /\ SetReq(r, [req[r] EXCEPT !.at = "imageFileGone"])
  /\ UNCHANGED <<db, home, wk, archive, spent, history>>

ImageDeleteFile(r) ==
  /\ req[r].at = "imageLoaded"
  /\ files' = files \ {req[r].photo}
  /\ SetReq(r, [req[r] EXCEPT !.at = "imageFileGone"])
  /\ UNCHANGED <<db, home, wk, archive, spent, history>>

(* When another request or a cascade was faster, nothing is left to delete  *)
(* and the request fails.                                                   *)
ImageDeleteRow(r) ==
  /\ req[r].at = "imageFileGone"
  /\ rows' = rows \ {req[r].photo}
  /\ SetReq(r, Idle)
  /\ UNCHANGED <<event, title, files, home, wk, archive, spent, history>>

-----------------------------------------------------------------------------
(* An admin edits an event: name, date and expiry.  The update writes every *)
(* image row it loaded as well, and fails when one of them is gone.         *)

EventUpdateLoad(r, e) ==
  /\ req[r].at = "idle"
  /\ Exists(e)
  /\ SetReq(r, [Idle EXCEPT !.at = "updateLoaded", !.ev = e, !.seen = RowsOf(e)])
  /\ UNCHANGED <<db, files, home, wk, archive, spent, history>>

EventUpdateSave(r, s, t) ==
  LET e == req[r].ev IN
  /\ req[r].at = "updateLoaded"
  /\ Deletable(e, req[r].seen)
  /\ event' = [event EXCEPT ![e] = s]
  /\ title' = [title EXCEPT ![e] = t]
  /\ SetReq(r, Idle)
  /\ UNCHANGED <<rows, files, home, wk, archive, spent, history>>

EventUpdateConflict(r) ==
  /\ req[r].at = "updateLoaded"
  /\ ~Deletable(req[r].ev, req[r].seen)
  /\ SetReq(r, Idle)
  /\ UNCHANGED <<db, files, home, wk, archive, spent, history>>

-----------------------------------------------------------------------------
(* An admin deletes an event: the directory, whatever comes of it, then the *)
(* row.                                                                     *)

EventDeleteLoad(r, e) ==
  /\ req[r].at = "idle"
  /\ Exists(e)
  /\ SetReq(r, [Idle EXCEPT !.at = "deleteLoaded", !.ev = e, !.seen = RowsOf(e)])
  /\ doomed' = doomed \cup {e}
  /\ UNCHANGED <<db, files, home, wk, archive, spent, acked, discarded, late>>

EventDeleteFiles(r) ==
  /\ req[r].at = "deleteLoaded"
  /\ files' = files \ FilesOf(req[r].ev)
  /\ SetReq(r, [req[r] EXCEPT !.at = "deleteFilesGone"])
  /\ UNCHANGED <<db, home, wk, archive, spent, history>>

(* A storage error half way is swallowed.                                   *)
EventDeleteFilesFails(r) ==
  /\ req[r].at = "deleteLoaded"
  /\ faults < MaxFaults
  /\ \E gone \in SUBSET FilesOf(req[r].ev) : files' = files \ gone
  /\ faults' = faults + 1
  /\ SetReq(r, [req[r] EXCEPT !.at = "deleteFilesGone"])
  /\ UNCHANGED <<db, home, wk, archive, aborts, restarts, history>>

EventDeleteRow(r) ==
  /\ req[r].at = "deleteFilesGone"
  /\ IF Deletable(req[r].ev, req[r].seen)
       THEN RemoveRows({req[r].ev})
       ELSE UNCHANGED db
  /\ SetReq(r, Idle)
  /\ UNCHANGED <<files, home, wk, archive, spent, history>>

(* The client hangs up, a storage or database call throws, the pod dies: a  *)
(* request can end after any of its steps.                                  *)
RequestAbort(r) ==
  /\ req[r].at # "idle"
  /\ aborts < MaxAborts
  /\ aborts' = aborts + 1
  /\ SetReq(r, Idle)
  /\ UNCHANGED <<db, files, home, wk, archive, faults, restarts, history>>

-----------------------------------------------------------------------------
(* A retention cycle: read the expired events with their photos, then, one  *)
(* event after the other, archive it, remove its directory, remove its row. *)

(* Mutant: the expired events are read without their images.                *)
CycleStartNoImages(w) ==
  LET due == {e \in Events : event[e] = "expired"} IN
  /\ wk[w].at = "idle"
  /\ due # {}
  /\ SetWk(w, [Resting EXCEPT !.at = "choosing", !.left = due])
  /\ UNCHANGED <<db, files, home, req, archive, spent, history>>

CycleStart(w) ==
  LET due == {e \in Events : event[e] = "expired"} IN
  /\ wk[w].at = "idle"
  /\ due # {}
  /\ SetWk(w, [Resting EXCEPT !.at = "choosing", !.left = due,
       !.seen  = [e \in Events |-> IF e \in due THEN RowsOf(e) ELSE {}],
       !.named = [e \in Events |-> IF e \in due THEN title[e] ELSE AnyTitles[e]]])
  /\ UNCHANGED <<db, files, home, req, archive, spent, history>>

(* Mutant: every cycle archives anew, whatever it finds.                    *)
PickEventNoMarker(w, e) ==
  /\ wk[w].at = "choosing"
  /\ e \in wk[w].left
  /\ SetWk(w, [wk[w] EXCEPT !.left = @ \ {e}, !.cur = e,
                            !.at = "zipping", !.fetch = wk[w].seen[e]])
  /\ UNCHANGED <<db, files, home, req, archive, spent, history>>

(* The next event; a directory that bears the marker is not written again.  *)
PickEvent(w, e) ==
  /\ wk[w].at = "choosing"
  /\ e \in wk[w].left
  /\ IF HasMarker(w, e, wk[w].named[e])
       THEN SetWk(w, [wk[w] EXCEPT !.left = @ \ {e}, !.cur = e,
                                   !.at = "archived"])
       ELSE SetWk(w, [wk[w] EXCEPT !.left = @ \ {e}, !.cur = e,
                                   !.at = "zipping", !.fetch = wk[w].seen[e]])
  /\ UNCHANGED <<db, files, home, req, archive, spent, history>>

(* What a worker does when handling an event threw.                         *)
GiveUp(w) == [wk[w] EXCEPT !.at = "choosing", !.cur = None, !.fetch = {}]

FetchPhoto(w, p) ==
  /\ wk[w].at = "zipping"
  /\ p \in wk[w].fetch
  /\ SetWk(w, IF p \in files THEN [wk[w] EXCEPT !.fetch = @ \ {p}]
                             ELSE GiveUp(w))
  /\ UNCHANGED <<db, files, home, req, archive, spent, history>>

(* Mutant: the marker is written before the last photo is in the archive.   *)
CompleteArchiveEarly(w) ==
  LET e == wk[w].cur IN
  /\ wk[w].at = "zipping"
  /\ archive' = [archive EXCEPT ![w] = @ \cup
       {[ev |-> e, title |-> wk[w].named[e],
         zip |-> wk[w].seen[e] \ wk[w].fetch]}]
  /\ SetWk(w, [wk[w] EXCEPT !.at = "archived", !.fetch = {}])
  /\ UNCHANGED <<db, files, home, req, spent, history>>

CompleteArchive(w) ==
  LET e == wk[w].cur IN
  /\ wk[w].at = "zipping"
  /\ wk[w].fetch = {}
  /\ archive' = [archive EXCEPT ![w] = @ \cup
       {[ev |-> e, title |-> wk[w].named[e], zip |-> wk[w].seen[e]]}]
  /\ SetWk(w, [wk[w] EXCEPT !.at = "archived"])
  /\ UNCHANGED <<db, files, home, req, spent, history>>

(* Mutant: the directory is removed instead of being archived first.        *)
RemoveDirectoryFirst(w) ==
  /\ wk[w].at = "zipping" \/ wk[w].at = "archived"
  /\ files' = files \ FilesOf(wk[w].cur)
  /\ SetWk(w, [wk[w] EXCEPT !.at = "emptied", !.fetch = {}])
  /\ UNCHANGED <<db, home, req, archive, spent, history>>

RemoveDirectory(w) ==
  /\ wk[w].at = "archived"
  /\ files' = files \ FilesOf(wk[w].cur)
  /\ SetWk(w, [wk[w] EXCEPT !.at = "emptied"])
  /\ UNCHANGED <<db, home, req, archive, spent, history>>

(* Mutant: a storage error half way is swallowed, as EventService does.     *)
RemoveDirectorySwallows(w) ==
  /\ wk[w].at = "archived"
  /\ faults < MaxFaults
  /\ \E gone \in SUBSET FilesOf(wk[w].cur) : files' = files \ gone
  /\ faults' = faults + 1
  /\ SetWk(w, [wk[w] EXCEPT !.at = "emptied"])
  /\ UNCHANGED <<db, home, req, archive, aborts, restarts, history>>

RemoveDirectoryFails(w) ==
  /\ wk[w].at = "archived"
  /\ faults < MaxFaults
  /\ \E gone \in SUBSET FilesOf(wk[w].cur) : files' = files \ gone
  /\ faults' = faults + 1
  /\ SetWk(w, GiveUp(w))
  /\ UNCHANGED <<db, home, req, archive, aborts, restarts, history>>

(* SaveChanges of the worker's DbContext.  Entities a failed SaveChanges    *)
(* left in state Deleted are still pending: every later one tries them too. *)
Flush(w, E) ==
  IF \A e \in E : Deletable(e, wk[w].seen[e])
    THEN RemoveRows(E)
    ELSE UNCHANGED db

RemoveEventRow(w) ==
  LET pend == wk[w].pend \cup {wk[w].cur} IN
  /\ wk[w].at = "emptied"
  /\ Flush(w, pend)
  /\ SetWk(w, [GiveUp(w) EXCEPT !.pend =
       IF \A e \in pend : Deletable(e, wk[w].seen[e]) THEN {} ELSE pend])
  /\ UNCHANGED <<files, home, req, archive, spent, history>>

(* Mutant: the event being handled is forgotten before it is marked Deleted. *)
RemoveEventRowForgets(w) ==
  /\ wk[w].at = "emptied"
  /\ faults < MaxFaults
  /\ faults' = faults + 1
  /\ SetWk(w, [GiveUp(w) EXCEPT !.pend = @ \cup {GiveUp(w).cur}])
  /\ UNCHANGED <<db, files, home, req, archive, aborts, restarts, history>>

RemoveEventRowFails(w) ==
  /\ wk[w].at = "emptied"
  /\ faults < MaxFaults
  /\ faults' = faults + 1
  /\ SetWk(w, [GiveUp(w) EXCEPT !.pend = @ \cup {wk[w].cur}])
  /\ UNCHANGED <<db, files, home, req, archive, aborts, restarts, history>>

(* MarkOfflineAsync ends the cycle with a SaveChanges on the same context.  *)
CycleEnd(w) ==
  /\ wk[w].at = "choosing"
  /\ wk[w].left = {}
  /\ Flush(w, wk[w].pend)
  /\ SetWk(w, Resting)
  /\ UNCHANGED <<files, home, req, archive, spent, history>>

WorkerRestart(w) ==
  /\ restarts < MaxRestarts
  /\ wk[w].at # "idle" \/ w \in Ephemeral
  /\ restarts' = restarts + 1
  /\ SetWk(w, Resting)
  /\ archive' = [archive EXCEPT ![w] = IF w \in Ephemeral THEN {} ELSE @]
  /\ UNCHANGED <<db, files, home, req, faults, aborts, history>>

-----------------------------------------------------------------------------
UploadStep(r) ==
  \/ \E e \in Events : UploadCheck(r, e)
  \/ \E p \in Photos : UploadStore(r, p)
  \/ UploadInsert(r)
  \/ UploadRefused(r)

ImageStep(r) ==
  \/ \E p \in Photos : ImageLoad(r, p)
  \/ ImageDeleteFile(r)
  \/ ImageDeleteRow(r)

AdminStep(r) ==
  \/ \E e \in Events : EventUpdateLoad(r, e)
  \/ \E s \in RowStates, t \in Titles : EventUpdateSave(r, s, t)
  \/ EventUpdateConflict(r)
  \/ \E e \in Events : EventDeleteLoad(r, e)
  \/ EventDeleteFiles(r)
  \/ EventDeleteFilesFails(r)
  \/ EventDeleteRow(r)

(* What a worker does of itself: everything but faults and restarts.        *)
Progress(w) ==
  \/ CycleStart(w)
  \/ \E e \in Events : PickEvent(w, e)
  \/ \E p \in Photos : FetchPhoto(w, p)
  \/ CompleteArchive(w)
  \/ RemoveDirectory(w)
  \/ RemoveEventRow(w)
  \/ CycleEnd(w)

WorkerStep(w) ==
  \/ Progress(w)
  \/ RemoveDirectoryFails(w)
  \/ RemoveEventRowFails(w)
  \/ WorkerRestart(w)

Next ==
  \/ \E e \in Events, s \in RowStates, t \in Titles : CreateEvent(e, s, t)
  \/ \E e \in Events : Expire(e)
  \/ \E r \in Requests : UploadStep(r) \/ ImageStep(r) \/ AdminStep(r)
  \/ \E r \in Requests : RequestAbort(r)
  \/ \E w \in Workers : WorkerStep(w)

Spec == Init /\ [][Next]_vars

(* Kestrel serves a request it has accepted to its end, and GdprCleanupJob   *)
(* starts a cycle every interval for as long as the pod lives.  Nobody is    *)
(* obliged to upload, to delete or to create anything.                       *)
Finish(r) ==
  \/ UploadInsert(r) \/ UploadRefused(r)
  \/ \E p \in Photos : UploadStore(r, p)
  \/ ImageDeleteFile(r) \/ ImageDeleteRow(r)
  \/ EventUpdateConflict(r)
  \/ \E s \in RowStates, t \in Titles : EventUpdateSave(r, s, t)
  \/ EventDeleteFiles(r) \/ EventDeleteRow(r)

FairSpec ==
  /\ Spec
  /\ \A w \in Workers  : WF_vars(Progress(w))
  /\ \A r \in Requests : WF_vars(Finish(r))

-----------------------------------------------------------------------------
(* Every variable stays in the set of values the code can give it.          *)
TypeOK ==
  /\ event \in [Events -> EventStates]
  /\ title \in [Events -> Titles]
  /\ rows \subseteq Photos /\ files \subseteq Photos
  /\ home \in [Photos -> Events \cup {None}]
  /\ req \in [Requests -> RequestRecords]
  /\ wk \in [Workers -> WorkerRecords]
  /\ archive \in [Workers -> SUBSET Archives]
  /\ faults \in 0..MaxFaults /\ aborts \in 0..MaxAborts
  /\ restarts \in 0..MaxRestarts
  /\ acked \subseteq Photos /\ discarded \subseteq Photos
  /\ doomed \subseteq Events /\ late \subseteq Photos

InArchive(p) == \E w \in Workers : \E a \in archive[w] : p \in a.zip

Wanted(p) == p \in acked \ discarded /\ home[p] \notin doomed

(* A photo whose upload was answered with success, that nobody asked to     *)
(* delete and that was committed before its event was read for removal or   *)
(* archived, is in the gallery with its file, or in a completed archive:    *)
(* whatever the retention workers, their restarts and failures, image       *)
(* deletions and event updates do to its event.                             *)
KeptOrArchived ==
  \A p \in Photos : Wanted(p) /\ p \notin late =>
    (p \in rows /\ p \in files) \/ InArchive(p)

(* A worker that may still remove files or the row of an event has archived *)
(* its photos itself, whatever happened to the rest of its cycle: an event  *)
(* left in state Deleted by a failed SaveChanges is one of them.            *)
ArchivedBeforeRemoval ==
  \A w \in Workers, p \in Photos :
    /\ Wanted(p) /\ p \notin late
    /\ \/ home[p] \in wk[w].pend
       \/ wk[w].at \in {"archived", "emptied"} /\ home[p] = wk[w].cur
    => \E a \in archive[w] : p \in a.zip

(* A photo the gallery lists and cannot serve is one somebody deletes or    *)
(* one of an event that some worker archived before it emptied the          *)
(* directory.                                                               *)
GalleryIntact ==
  \A p \in rows \ files :
    \/ p \in discarded
    \/ home[p] \in doomed
    \/ Archived(home[p])

(* Retention leaves no file of an event it removed on the store, save those *)
(* of uploads that committed too late.                                      *)
ErasedWithEvent ==
  \A p \in acked \ late :
    event[home[p]] = "gone" /\ home[p] \notin doomed => p \notin files

(* An expired event is removed in the end, unless an admin extends it: the  *)
(* worker's retries and restarts, the failed SaveChanges and the requests   *)
(* it meets on the way do not leave it there for ever.                      *)
ExpiredEventuallyRemoved ==
  \A e \in Events : event[e] = "expired" ~> event[e] # "expired"

-----------------------------------------------------------------------------
(* What Vault sees: photos that were accepted in time, and events.          *)
Timely == acked \ late

EventNow       == [e \in Events |-> IF Exists(e) THEN "there" ELSE event[e]]
Album          == [p \in Photos |-> IF p \in Timely THEN home[p] ELSE None]
Gallery        == rows \cap Timely
Store          == files \cap Timely
Zips           == {p \in Timely : InArchive(p)}
ArchivedEvents == {e \in Events : Archived(e)}
Withdrawn      == discarded \cap Timely

V == INSTANCE Vault WITH
  event <- EventNow, album <- Album, listed <- Gallery, stored <- Store,
  zipped <- Zips, archived <- ArchivedEvents, withdrawn <- Withdrawn

(* To whoever puts photos on it the server is a vault: accepting, deleting, *)
(* archiving and removing take effect one after the other, in the order     *)
(* that Vault allows, although each is several steps over two stores.       *)
ServesAsVault == V!Spec

-----------------------------------------------------------------------------
(* What the program says of itself and the code does not keep.              *)

(* RetentionMaintenanceService.cs:167 logs "Archived event" and goes on to   *)
(* empty the directory.  The photos the worker read need not be archived: a *)
(* marker from an earlier cycle, before a retry or before the event was     *)
(* extended, is taken for the archive of what is there now.                 *)
ArchiveIsOfThisEvent ==
  \A w \in Workers : wk[w].at = "archived" =>
    \A p \in wk[w].seen[wk[w].cur] \ discarded : InArchive(p)

(* EmailService.cs:121 tells the owners "Your event gallery will be archived *)
(* soon".  The CronJob's pod mounts no volume: its archives go with it.     *)
RemovedIsArchived ==
  \A e \in Events : event[e] = "gone" /\ e \notin doomed => Archived(e)

(* EventForm.tsx:208: photos are deleted the retention period after the     *)
(* date, no earlier.  A worker that read the event as expired removes it    *)
(* although an admin has extended it since.                                 *)
RemovedOnlyWhenDue ==
  [][\A e \in Events :
       event[e] = "live" /\ event'[e] = "gone" => e \in doomed]_vars

=============================================================================
