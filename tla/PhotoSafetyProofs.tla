-------------------------- MODULE PhotoSafetyProofs --------------------------
(***************************************************************************)
(* No photo is lost, no gallery is left with holes and no file survives    *)
(* its event: the safety invariants of PhotoLifecycle for any number of    *)
(* events, photos, workers, requests, faults and restarts.                 *)
(***************************************************************************)
EXTENDS PhotoLifecycleProofs

OnTime(p) == Wanted(p) /\ p \notin late

(* The events whose files a worker may remove, and those whose files it has *)
(* removed.                                                                 *)
Claimed(w) == {e \in Events :
  e \in wk[w].pend \/ (wk[w].at \in {"archived", "emptied"} /\ wk[w].cur = e)}
Cleared(w) == {e \in Events :
  e \in wk[w].pend \/ (wk[w].at = "emptied" /\ wk[w].cur = e)}

-----------------------------------------------------------------------------
(* The inductive invariant.  Requests: a delete has been asked for before   *)
(* anything goes, and an upload under way owns a file name nobody else has. *)
Marked ==
  \A r \in Requests :
    /\ req[r].at \in {"imageLoaded", "imageFileGone"} => req[r].photo \in discarded
    /\ req[r].at \in {"deleteLoaded", "deleteFilesGone"} => req[r].ev \in doomed

Uploading ==
  /\ \A r \in Requests : req[r].at = "uploadStored" =>
       home[req[r].photo] = req[r].ev /\ req[r].photo \notin acked
  /\ \A r, q \in Requests :
       /\ req[r].at = "uploadStored" /\ req[q].at = "uploadStored"
       /\ req[r].photo = req[q].photo
       => r = q

Committed ==
  /\ rows \subseteq acked /\ discarded \subseteq acked
  /\ \A p \in acked : home[p] \in Events

Book == Marked /\ Uploading /\ Committed

(* Workers: what a worker may remove it has archived, in a directory that   *)
(* holds every photo on time, from a reading that saw them all.             *)
OwnArchive == \A w \in Workers : \A e \in Claimed(w) : ArchivedBy(w, e)

Emptied == \A w \in Workers : \A p \in acked \ late :
  home[p] \in Cleared(w) => p \notin files

Read == \A w \in Workers, p \in Photos :
  OnTime(p) /\ home[p] \in Holds(w) => p \in wk[w].seen[home[p]]

Zipped == \A w \in Workers, p \in Photos : \A a \in archive[w] :
  OnTime(p) /\ home[p] = a.ev => p \in a.zip

Listed == \A p \in Photos : OnTime(p) /\ event[home[p]] # "gone" => p \in rows

SafeInv == Book /\ OwnArchive /\ Emptied /\ Read /\ Zipped /\ Listed /\ ErasedWithEvent

(* With archives that survive restarts, a file that is missing was asked to *)
(* go or is archived, and so is an event.                                   *)
Excused(e) == e \in doomed \/ Archived(e)

Filed == \A p \in acked : p \in files \/ p \in discarded \/ Excused(home[p])

StoredFile == \A r \in Requests : req[r].at = "uploadStored" =>
  req[r].photo \in files \/ Excused(req[r].ev)

Removed == \A e \in Events : event[e] = "gone" => Excused(e)

DurableInv == Filed /\ StoredFile /\ Removed

-----------------------------------------------------------------------------
(* What a step of a worker may change.                                      *)
WorkerEffect(w) ==
  /\ UNCHANGED <<req, home, acked, discarded, doomed, late>>
  /\ \A x \in Workers \ {w} : wk'[x] = wk[x] /\ archive'[x] = archive[x]
  /\ \A e \in Events : event'[e] # event[e] => event'[e] = "gone" /\ e \in Cleared(w)
  /\ rows' \subseteq rows
  /\ \A p \in rows \ rows' : event'[home[p]] = "gone"
  /\ files' \subseteq files
  /\ \A p \in files \ files' : home[p] \in Claimed(w)
  /\ \A a \in archive'[w] : a \in archive[w] \/
       (wk[w].cur \in Events /\ a.ev = wk[w].cur /\ a.zip = wk[w].seen[wk[w].cur])
  /\ archive[w] \subseteq archive'[w] \/ (Claimed(w)' = {} /\ Ephemeral # {})
  /\ \A e \in Claimed(w)' : e \in Claimed(w) \/ ArchivedBy(w, e)'
  /\ \A e \in Cleared(w)' : e \in Cleared(w) \/ FilesOf(e)' = {}
  /\ \A e \in Holds(w)' :
       \/ e \in Holds(w) /\ wk'[w].seen[e] = wk[w].seen[e]
       \/ event[e] = "expired" /\ wk'[w].seen[e] = RowsOf(e)

LEMMA GiveUpEffect ==
  ASSUME TypeInv, NEW w \in Workers, NEW pend \in SUBSET Events,
         SetWk(w, [GiveUp(w) EXCEPT !.pend = pend])
  PROVE  /\ wk'[w].pend = pend /\ wk'[w].at = "choosing" /\ wk'[w].cur = None
         /\ wk'[w].left = wk[w].left /\ wk'[w].seen = wk[w].seen
  <1>1. wk[w] \in WorkerRecords
    BY DEF TypeInv, TypeOK
  <1>2. wk'[w] = [GiveUp(w) EXCEPT !.pend = pend]
    BY DEF TypeInv, TypeOK, SetWk
  <1>3. QED
    BY <1>1, <1>2 DEF GiveUp, WorkerRecords

LEMMA FlushEffect ==
  ASSUME TypeInv, NEW E \in SUBSET Events, NEW w \in Workers, Flush(w, E)
  PROVE  /\ \A e \in Events : event'[e] # event[e] => event'[e] = "gone" /\ e \in E
         /\ rows' \subseteq rows
         /\ \A p \in rows \ rows' : home[p] \in E /\ event'[home[p]] = "gone"
  BY DEF Flush, RemoveRows, TypeInv, TypeOK, db

LEMMA WorkerStepEffect ==
  ASSUME TypeInv, NEW w \in Workers, WorkerStep(w)
  PROVE  WorkerEffect(w)
  <1> USE DEF db, spent, history
  <1>0. /\ wk[w] \in WorkerRecords /\ wk \in [Workers -> WorkerRecords]
        /\ WorkerShape(wk[w]) /\ TypeOK
        /\ archive \in [Workers -> SUBSET Archives]
    BY DEF TypeInv, TypeOK, Shaped
  <1>1. CASE CycleStart(w)
    <2> DEFINE due == {e \in Events : event[e] = "expired"}
               seen == [e \in Events |-> IF e \in due THEN RowsOf(e) ELSE {}]
    <2>1. /\ wk'[w].pend = {} /\ wk'[w].at = "choosing" /\ wk'[w].cur = None
          /\ wk'[w].left = due /\ wk'[w].seen = seen
      <3> DEFINE named == [e \in Events |-> IF e \in due THEN title[e]
                                                       ELSE AnyTitles[e]]
      <3>1. wk'[w] = [Resting EXCEPT !.at = "choosing", !.left = due,
                                     !.seen = seen, !.named = named]
        BY <1>0, <1>1 DEF CycleStart, SetWk
      <3> HIDE DEF due, seen, named
      <3>2. QED
        BY <3>1 DEF Resting
    <2>2. Claimed(w)' = {} /\ Cleared(w)' = {} /\ Holds(w)' = due
      BY <2>1 DEF Claimed, Cleared, Holds
    <2>3. \A x \in Workers \ {w} : wk'[x] = wk[x]
      BY <1>0, <1>1, SetWkEffect DEF CycleStart
    <2>4. QED
      BY <1>1, <2>1, <2>2, <2>3 DEF CycleStart, WorkerEffect
  <1>2. ASSUME NEW e \in Events, PickEvent(w, e) PROVE WorkerEffect(w)
    <2>1. /\ wk'[w].pend = wk[w].pend /\ wk'[w].cur = e
          /\ wk'[w].left = wk[w].left \ {e} /\ wk'[w].seen = wk[w].seen
          /\ wk'[w].at = IF HasMarker(w, e, wk[w].named[e]) THEN "archived"
                                                            ELSE "zipping"
      <3>1. wk'[w] = IF HasMarker(w, e, wk[w].named[e])
                       THEN [wk[w] EXCEPT !.left = @ \ {e}, !.cur = e,
                                          !.at = "archived"]
                       ELSE [wk[w] EXCEPT !.left = @ \ {e}, !.cur = e,
                               !.at = "zipping", !.fetch = wk[w].seen[e]]
        BY <1>0, <1>2 DEF PickEvent, SetWk
      <3>2. QED
        BY <1>0, <3>1 DEF WorkerRecords
    <2>2. Cleared(w)' \subseteq Cleared(w) /\ Holds(w)' \subseteq Holds(w)
      BY <1>2, <2>1 DEF Cleared, Holds, PickEvent
    <2>3. \A f \in Claimed(w)' : f \in Claimed(w) \/ ArchivedBy(w, f)'
      BY <1>2, <2>1 DEF Claimed, HasMarker, ArchivedBy, PickEvent
    <2>4. \A x \in Workers \ {w} : wk'[x] = wk[x]
      BY <1>0, <1>2, SetWkEffect DEF PickEvent
    <2>5. QED
      BY <1>2, <2>1, <2>2, <2>3, <2>4 DEF PickEvent, WorkerEffect
  <1>3. ASSUME NEW p \in Photos, FetchPhoto(w, p) PROVE WorkerEffect(w)
    <2>1. /\ wk'[w].pend = wk[w].pend /\ wk'[w].left = wk[w].left
          /\ wk'[w].seen = wk[w].seen
          /\ \/ wk'[w].at = "zipping" /\ wk'[w].cur = wk[w].cur
             \/ wk'[w].at = "choosing" /\ wk'[w].cur = None
      <3>1. wk'[w] = IF p \in files THEN [wk[w] EXCEPT !.fetch = @ \ {p}]
                                     ELSE GiveUp(w)
        BY <1>0, <1>3 DEF FetchPhoto, SetWk
      <3>2. wk[w].at = "zipping"
        BY <1>3 DEF FetchPhoto
      <3>3. QED
        BY <1>0, <3>1, <3>2 DEF WorkerRecords, GiveUp
    <2>2. /\ Cleared(w)' \subseteq Cleared(w) /\ Claimed(w)' \subseteq Claimed(w)
          /\ Holds(w)' \subseteq Holds(w)
      BY <2>1 DEF Cleared, Claimed, Holds
    <2>3. \A x \in Workers \ {w} : wk'[x] = wk[x]
      BY <1>0, <1>3, SetWkEffect DEF FetchPhoto
    <2>4. QED
      BY <1>3, <2>1, <2>2, <2>3 DEF FetchPhoto, WorkerEffect
  <1>4. CASE CompleteArchive(w)
    <2> DEFINE new == [ev |-> wk[w].cur, title |-> wk[w].named[wk[w].cur],
                       zip |-> wk[w].seen[wk[w].cur]]
    <2>1. /\ wk'[w].pend = wk[w].pend /\ wk'[w].left = wk[w].left
          /\ wk'[w].seen = wk[w].seen /\ wk'[w].cur = wk[w].cur
          /\ wk'[w].at = "archived"
      <3>1. wk'[w] = [wk[w] EXCEPT !.at = "archived"]
        BY <1>0, <1>4 DEF CompleteArchive, SetWk
      <3>2. QED
        BY <1>0, <3>1 DEF WorkerRecords
    <2>2. archive'[w] = archive[w] \cup {new} /\ wk[w].cur \in Events
      BY <1>0, <1>4 DEF CompleteArchive, WorkerShape
    <2>3. Cleared(w)' \subseteq Cleared(w) /\ Holds(w)' \subseteq Holds(w)
      BY <2>1 DEF Cleared, Holds
    <2>4. \A e \in Claimed(w)' : e \in Claimed(w) \/ ArchivedBy(w, e)'
      <3>1. new \in archive'[w] /\ new.ev = wk[w].cur
        BY <2>2
      <3>2. \A e \in Claimed(w)' : e \in Claimed(w) \/ e = wk[w].cur
        BY <2>1 DEF Claimed
      <3> HIDE DEF new
      <3>3. QED
        BY <3>1, <3>2 DEF ArchivedBy
    <2>5. \A x \in Workers \ {w} : wk'[x] = wk[x] /\ archive'[x] = archive[x]
      BY <1>0, <1>4, SetWkEffect DEF CompleteArchive
    <2>6. QED
      BY <1>4, <2>1, <2>2, <2>3, <2>4, <2>5 DEF CompleteArchive, WorkerEffect
  <1>5. CASE RemoveDirectory(w)
    <2>1. /\ wk'[w].pend = wk[w].pend /\ wk'[w].left = wk[w].left
          /\ wk'[w].seen = wk[w].seen /\ wk'[w].cur = wk[w].cur
          /\ wk'[w].at = "emptied"
      <3>1. wk'[w] = [wk[w] EXCEPT !.at = "emptied"]
        BY <1>0, <1>5 DEF RemoveDirectory, SetWk
      <3>2. QED
        BY <1>0, <3>1 DEF WorkerRecords
    <2>2. wk[w].cur \in Claimed(w) /\ \A p \in files' : home'[p] # wk[w].cur
      BY <1>0, <1>5 DEF RemoveDirectory, FilesOf, Claimed, WorkerShape
    <2>3. /\ Claimed(w)' \subseteq Claimed(w) /\ Holds(w)' \subseteq Holds(w)
          /\ \A e \in Cleared(w)' : e \in Cleared(w) \/ FilesOf(e)' = {}
      BY <1>5, <2>1, <2>2 DEF Cleared, Claimed, Holds, RemoveDirectory, FilesOf
    <2>4. \A p \in files \ files' : home[p] \in Claimed(w)
      BY <1>5, <2>2 DEF RemoveDirectory, FilesOf
    <2>5. \A x \in Workers \ {w} : wk'[x] = wk[x]
      BY <1>0, <1>5, SetWkEffect DEF RemoveDirectory
    <2>6. QED
      BY <1>5, <2>1, <2>3, <2>4, <2>5 DEF RemoveDirectory, WorkerEffect
  <1>6. CASE RemoveEventRow(w)
    <2> DEFINE pend == wk[w].pend \cup {wk[w].cur}
               kept == IF \A e \in pend : Deletable(e, wk[w].seen[e]) THEN {} ELSE pend
    <2>1. pend \in SUBSET Events /\ kept \in SUBSET Events /\ Cleared(w) = pend
      BY <1>0, <1>6 DEF RemoveEventRow, WorkerShape, WorkerRecords, Cleared
    <2>2. SetWk(w, [GiveUp(w) EXCEPT !.pend = kept]) /\ Flush(w, pend)
      BY <1>6 DEF RemoveEventRow
    <2>3. /\ wk'[w].pend = kept /\ wk'[w].at = "choosing" /\ wk'[w].cur = None
          /\ wk'[w].left = wk[w].left /\ wk'[w].seen = wk[w].seen
      BY <2>1, <2>2, GiveUpEffect
    <2>4. /\ Claimed(w)' \subseteq Claimed(w) /\ Holds(w)' \subseteq Holds(w)
          /\ Cleared(w)' \subseteq Cleared(w)
      BY <1>6, <2>1, <2>3, NoneIsNew DEF Claimed, Holds, Cleared, RemoveEventRow
    <2>5. \A x \in Workers \ {w} : wk'[x] = wk[x]
      BY <1>0, <1>6, SetWkEffect DEF RemoveEventRow
    <2> HIDE DEF pend, kept
    <2>6. QED
      BY <1>6, <2>1, <2>2, <2>3, <2>4, <2>5, FlushEffect
      DEF RemoveEventRow, WorkerEffect
  <1>7. CASE CycleEnd(w)
    <2>1. wk'[w] = Resting /\ \A x \in Workers \ {w} : wk'[x] = wk[x]
      BY <1>0, <1>7, SetWkEffect DEF CycleEnd
    <2>2. Claimed(w)' = {} /\ Cleared(w)' = {} /\ Holds(w)' = {}
      BY <2>1 DEF Claimed, Cleared, Holds, Resting
    <2>3. wk[w].pend \in SUBSET Events /\ wk[w].pend \subseteq Cleared(w)
      BY <1>0 DEF WorkerRecords, Cleared
    <2>4. QED
      BY <1>7, <2>1, <2>2, <2>3, FlushEffect DEF CycleEnd, WorkerEffect
  <1>8. CASE RemoveDirectoryFails(w)
    <2>1. /\ wk'[w].pend = wk[w].pend /\ wk'[w].at = "choosing"
          /\ wk'[w].cur = None /\ wk'[w].left = wk[w].left
          /\ wk'[w].seen = wk[w].seen
      <3>1. wk'[w] = GiveUp(w)
        BY <1>0, <1>8 DEF RemoveDirectoryFails, SetWk
      <3>2. QED
        BY <1>0, <3>1 DEF GiveUp, WorkerRecords
    <2>2. /\ Cleared(w)' \subseteq Cleared(w) /\ Claimed(w)' \subseteq Claimed(w)
          /\ Holds(w)' \subseteq Holds(w)
      BY <2>1 DEF Cleared, Claimed, Holds
    <2>3. \A p \in files \ files' : home[p] \in Claimed(w)
      BY <1>0, <1>8 DEF RemoveDirectoryFails, FilesOf, Claimed, WorkerShape
    <2>4. \A x \in Workers \ {w} : wk'[x] = wk[x]
      BY <1>0, <1>8, SetWkEffect DEF RemoveDirectoryFails
    <2>5. files' \subseteq files
      BY <1>8 DEF RemoveDirectoryFails
    <2>6. QED
      BY <1>8, <2>1, <2>2, <2>3, <2>4, <2>5 DEF RemoveDirectoryFails, WorkerEffect
  <1>9. CASE RemoveEventRowFails(w)
    <2> DEFINE pend == wk[w].pend \cup {wk[w].cur}
    <2>1. pend \in SUBSET Events /\ Cleared(w) = pend
      BY <1>0, <1>9 DEF RemoveEventRowFails, WorkerShape, WorkerRecords, Cleared
    <2>2. SetWk(w, [GiveUp(w) EXCEPT !.pend = pend])
      BY <1>0, <1>9 DEF RemoveEventRowFails, GiveUp, WorkerRecords
    <2>3. /\ wk'[w].pend = pend /\ wk'[w].at = "choosing" /\ wk'[w].cur = None
          /\ wk'[w].left = wk[w].left /\ wk'[w].seen = wk[w].seen
      BY <2>1, <2>2, GiveUpEffect
    <2>4. /\ Claimed(w)' \subseteq Claimed(w) /\ Holds(w)' \subseteq Holds(w)
          /\ Cleared(w)' \subseteq Cleared(w)
      BY <1>9, <2>1, <2>3, NoneIsNew DEF Claimed, Holds, Cleared, RemoveEventRowFails
    <2>5. \A x \in Workers \ {w} : wk'[x] = wk[x]
      BY <1>0, <1>9, SetWkEffect DEF RemoveEventRowFails
    <2>6. QED
      BY <1>9, <2>3, <2>4, <2>5 DEF RemoveEventRowFails, WorkerEffect
  <1>10. CASE WorkerRestart(w)
    <2>1. wk'[w] = Resting /\ \A x \in Workers \ {w} : wk'[x] = wk[x]
      BY <1>0, <1>10, SetWkEffect DEF WorkerRestart
    <2>2. Claimed(w)' = {} /\ Cleared(w)' = {} /\ Holds(w)' = {}
      BY <2>1 DEF Claimed, Cleared, Holds, Resting
    <2>3. /\ \A x \in Workers \ {w} : archive'[x] = archive[x]
          /\ (archive'[w] = {} /\ w \in Ephemeral) \/ archive'[w] = archive[w]
      BY <1>0, <1>10 DEF WorkerRestart
    <2>4. QED
      BY <1>10, <2>1, <2>2, <2>3 DEF WorkerRestart, WorkerEffect
  <1>11. QED
    BY <1>1, <1>2, <1>3, <1>4, <1>5, <1>6, <1>7, <1>8, <1>9, <1>10
    DEF WorkerStep, Progress

-----------------------------------------------------------------------------
(* What a step of a request, or of an event's own life, may change.         *)
RequestEffect ==
  /\ UNCHANGED <<wk, archive>>
  /\ \A e \in Events :
       /\ event[e] = "gone" => event'[e] = "gone"
       /\ event'[e] = "gone" => event[e] = "gone" \/ e \in doomed
  /\ acked \subseteq acked' /\ discarded \subseteq discarded'
  /\ doomed \subseteq doomed'
  /\ late \subseteq late' /\ late' \subseteq late \cup acked'
  /\ \A p \in Photos : home'[p] = home[p] \/ home[p] = None
  /\ \A p \in acked' \ acked :
       /\ \E r \in Requests : req[r].at = "uploadStored" /\ req[r].photo = p
       /\ p \in rows' /\ Exists(home[p])
       /\ p \in late' \/ ~TooLate(home[p])
       /\ files' = files
  /\ \A p \in rows \ rows' : p \in discarded \/ event'[home[p]] = "gone"
  /\ \A p \in files \ files' : p \in discarded \/ home[p] \in doomed
  /\ \A p \in files' \ files : home[p] = None

LEMMA EventEffect ==
  ASSUME TypeInv, NEW e \in Events,
         (\E s \in RowStates, t \in Titles : CreateEvent(e, s, t)) \/ Expire(e)
  PROVE  RequestEffect /\ UNCHANGED <<req, home, rows, files, history>>
  BY DEF RequestEffect, CreateEvent, Expire, TypeInv, TypeOK, RowStates, history

LEMMA UploadEffect ==
  ASSUME TypeInv, Book, NEW r \in Requests, UploadStep(r)
  PROVE  RequestEffect
  <1> USE DEF db, spent, history
  <1>1. ASSUME NEW e \in Events, UploadCheck(r, e) PROVE RequestEffect
    BY <1>1 DEF UploadCheck, RequestEffect
  <1>2. ASSUME NEW p \in Photos, UploadStore(r, p) PROVE RequestEffect
    BY <1>2 DEF UploadStore, RequestEffect, TypeInv, TypeOK
  <1>3. CASE UploadInsert(r)
    <2>1. req[r].photo \in Photos /\ home[req[r].photo] = req[r].ev
      BY <1>3 DEF UploadInsert, TypeInv, Shaped, RequestShape, Book, Uploading
    <2>2. QED
      BY <1>3, <2>1 DEF UploadInsert, RequestEffect
  <1>4. CASE UploadRefused(r)
    BY <1>4 DEF UploadRefused, RequestEffect
  <1>5. QED
    BY <1>1, <1>2, <1>3, <1>4 DEF UploadStep

LEMMA ImageEffect ==
  ASSUME TypeInv, Book, NEW r \in Requests, ImageStep(r)
  PROVE  RequestEffect
  <1> USE DEF db, spent, history
  <1>1. ASSUME NEW p \in Photos, ImageLoad(r, p) PROVE RequestEffect
    BY <1>1 DEF ImageLoad, RequestEffect
  <1>2. CASE ImageDeleteFile(r)
    BY <1>2 DEF ImageDeleteFile, RequestEffect, Book, Marked
  <1>3. CASE ImageDeleteRow(r)
    BY <1>3 DEF ImageDeleteRow, RequestEffect, Book, Marked
  <1>4. QED
    BY <1>1, <1>2, <1>3 DEF ImageStep

LEMMA AdminEffect ==
  ASSUME TypeInv, Book, NEW r \in Requests, AdminStep(r)
  PROVE  RequestEffect
  <1> USE DEF db, spent, history
  <1>1. ASSUME NEW e \in Events, EventUpdateLoad(r, e) \/ EventDeleteLoad(r, e)
        PROVE  RequestEffect
    BY <1>1 DEF EventUpdateLoad, EventDeleteLoad, RequestEffect
  <1>2. ASSUME NEW s \in RowStates, NEW t \in Titles, EventUpdateSave(r, s, t)
        PROVE  RequestEffect
    BY <1>2 DEF EventUpdateSave, Deletable, Exists, RowStates, RequestEffect,
                TypeInv, TypeOK
  <1>3. CASE EventUpdateConflict(r)
    BY <1>3 DEF EventUpdateConflict, RequestEffect
  <1>4. CASE EventDeleteFiles(r) \/ EventDeleteFilesFails(r)
    <2>1. req[r].ev \in doomed
      BY <1>4 DEF EventDeleteFiles, EventDeleteFilesFails, Book, Marked
    <2>2. /\ UNCHANGED <<event, rows, home, wk, archive, history>>
          /\ files' \subseteq files
          /\ \A p \in files \ files' : home[p] = req[r].ev
      BY <1>4 DEF EventDeleteFiles, EventDeleteFilesFails, FilesOf
    <2>3. QED
      BY <2>1, <2>2 DEF RequestEffect
  <1>5. CASE EventDeleteRow(r)
    <2>1. req[r].ev \in doomed
      BY <1>5 DEF EventDeleteRow, Book, Marked
    <2>2. /\ UNCHANGED <<files, home, wk, archive, history>>
          /\ rows' \subseteq rows
          /\ \A e \in Events : event'[e] # event[e] => event'[e] = "gone" /\ e = req[r].ev
          /\ \A p \in rows \ rows' : event'[home[p]] = "gone"
      <3>1. CASE RemoveRows({req[r].ev})
        <4>1. req[r].ev \in Events
          BY <1>5 DEF EventDeleteRow, TypeInv, Shaped, RequestShape
        <4>2. QED
          BY <1>5, <3>1, <4>1 DEF EventDeleteRow, RemoveRows, TypeInv, TypeOK
      <3>2. CASE UNCHANGED db
        BY <1>5, <3>2 DEF EventDeleteRow
      <3>3. QED
        BY <1>5, <3>1, <3>2 DEF EventDeleteRow
    <2>3. QED
      BY <2>1, <2>2 DEF RequestEffect
  <1>6. QED
    BY <1>1, <1>2, <1>3, <1>4, <1>5 DEF AdminStep

LEMMA AbortEffect ==
  ASSUME NEW r \in Requests, RequestAbort(r)
  PROVE  RequestEffect
  BY DEF RequestAbort, RequestEffect, db, history

-----------------------------------------------------------------------------
(* The bookkeeping of requests is inductive.                                *)

(* A request that does not end up with a stored file leaves the others'.    *)
LEMMA BookByOthers ==
  ASSUME TypeInv, Book, NEW r \in Requests, NEW v, SetReq(r, v),
         v.at # "uploadStored",
         v.at \in {"imageLoaded", "imageFileGone"} => v.photo \in discarded',
         v.at \in {"deleteLoaded", "deleteFilesGone"} => v.ev \in doomed',
         discarded \subseteq discarded', doomed \subseteq doomed',
         home' = home, acked \subseteq acked',
         rows' \subseteq acked', discarded' \subseteq acked',
         \A p \in acked' \ acked : req[r].at = "uploadStored" /\ req[r].photo = p
  PROVE  Book'
  <1>1. \A q \in Requests : req'[q] = IF q = r THEN v ELSE req[q]
    BY SetReqEffect DEF TypeInv
  <1>2. Marked'
    BY <1>1 DEF Book, Marked
  <1>3. Uploading'
    BY <1>1 DEF Book, Uploading
  <1>4. Committed'
    <2>1. ASSUME NEW p \in acked' \ acked PROVE home[p] \in Events
      BY <2>1 DEF TypeInv, Shaped, RequestShape, Book, Uploading
    <2>2. QED
      BY <2>1 DEF Book, Committed
  <1>5. QED
    BY <1>2, <1>3, <1>4 DEF Book

LEMMA RequestBook ==
  ASSUME TypeInv, Book, NEW r \in Requests,
         UploadStep(r) \/ ImageStep(r) \/ AdminStep(r) \/ RequestAbort(r)
  PROVE  Book'
  <1> USE DEF db, spent, history
  <1>0. req[r] \in RequestRecords /\ Marked
        /\ rows \subseteq acked /\ discarded \subseteq acked
    BY DEF TypeInv, TypeOK, Book, Committed
  <1>1. ASSUME NEW e \in Events, UploadCheck(r, e) PROVE Book'
    <2>1. [Idle EXCEPT !.at = "uploadChecked", !.ev = e].at = "uploadChecked"
      BY DEF Idle
    <2>2. QED
      BY <1>0, <1>1, <2>1, BookByOthers DEF UploadCheck
  <1>2. ASSUME NEW p \in Photos, UploadStore(r, p) PROVE Book'
    <2>1. req'[r] = [req[r] EXCEPT !.at = "uploadStored", !.photo = p]
      BY <1>2 DEF UploadStore, SetReq, TypeInv, TypeOK
    <2>2. /\ req'[r].at = "uploadStored" /\ req'[r].photo = p
          /\ req'[r].ev = req[r].ev /\ req[r].ev \in Events
      BY <1>0, <1>2, <2>1
      DEF UploadStore, RequestRecords, TypeInv, Shaped, RequestShape
    <2>3. \A q \in Requests : q # r => req'[q] = req[q]
      BY <1>2, SetReqEffect DEF UploadStore, TypeInv
    <2>4. /\ home[p] = None /\ home'[p] = req[r].ev
          /\ \A x \in Photos \ {p} : home'[x] = home[x]
          /\ UNCHANGED <<rows, acked, discarded, doomed>>
      BY <1>2 DEF UploadStore, TypeInv, TypeOK
    <2>5. p \notin acked
      BY <2>4, NoneIsNew DEF Book, Committed
    <2>6. \A q \in Requests : req[q].at = "uploadStored" =>
            /\ req[q].photo # p /\ req[q].photo \in Photos
            /\ home[req[q].photo] = req[q].ev /\ req[q].photo \notin acked
      BY <2>4, NoneIsNew DEF Book, Uploading, TypeInv, Shaped, RequestShape
    <2>7. Marked'
      BY <2>2, <2>3, <2>4 DEF Book, Marked
    <2>8. Uploading'
      BY <2>2, <2>3, <2>4, <2>5, <2>6 DEF Book, Uploading
    <2>9. Committed'
      BY <2>2, <2>4, <2>5 DEF Book, Committed, TypeInv, TypeOK
    <2>10. QED
      BY <2>7, <2>8, <2>9 DEF Book
  <1>3. ASSUME NEW p \in Photos, ImageLoad(r, p) PROVE Book'
    <2> DEFINE v == [Idle EXCEPT !.at = "imageLoaded", !.ev = home[p], !.photo = p]
    <2>1. v.at = "imageLoaded" /\ v.photo = p
      BY DEF Idle
    <2>2. SetReq(r, v)
      BY <1>3 DEF ImageLoad
    <2> HIDE DEF v
    <2>3. QED
      BY <1>0, <1>3, <2>1, <2>2, BookByOthers DEF ImageLoad
  <1>4. CASE ImageDeleteFile(r)
    <2> DEFINE v == [req[r] EXCEPT !.at = "imageFileGone"]
    <2>1. v.at = "imageFileGone" /\ v.photo = req[r].photo
      BY <1>0 DEF RequestRecords
    <2>2. SetReq(r, v) /\ req[r].photo \in discarded
      BY <1>0, <1>4 DEF ImageDeleteFile, Marked
    <2> HIDE DEF v
    <2>3. QED
      BY <1>0, <1>4, <2>1, <2>2, BookByOthers DEF ImageDeleteFile
  <1>5. ASSUME NEW e \in Events, EventUpdateLoad(r, e) \/ EventDeleteLoad(r, e)
        PROVE  Book'
    <2> DEFINE v(at) == [Idle EXCEPT !.at = at, !.ev = e, !.seen = RowsOf(e)]
    <2>1. ASSUME NEW at PROVE v(at).at = at /\ v(at).ev = e
      BY DEF Idle
    <2>2. CASE EventUpdateLoad(r, e)
      <3>1. SetReq(r, v("updateLoaded"))
        BY <2>2 DEF EventUpdateLoad
      <3> HIDE DEF v
      <3>2. QED
        BY <1>0, <2>1, <2>2, <3>1, BookByOthers DEF EventUpdateLoad
    <2>3. CASE EventDeleteLoad(r, e)
      <3>1. SetReq(r, v("deleteLoaded"))
        BY <2>3 DEF EventDeleteLoad
      <3> HIDE DEF v
      <3>2. QED
        BY <1>0, <2>1, <2>3, <3>1, BookByOthers DEF EventDeleteLoad
    <2>4. QED
      BY <1>5, <2>2, <2>3
  <1>6. CASE EventDeleteFiles(r) \/ EventDeleteFilesFails(r)
    <2> DEFINE v == [req[r] EXCEPT !.at = "deleteFilesGone"]
    <2>1. v.at = "deleteFilesGone" /\ v.ev = req[r].ev
      BY <1>0 DEF RequestRecords
    <2>2. /\ SetReq(r, v) /\ req[r].ev \in doomed
          /\ UNCHANGED <<rows, home, acked, discarded, doomed>>
      BY <1>0, <1>6 DEF EventDeleteFiles, EventDeleteFilesFails, Marked
    <2> HIDE DEF v
    <2>3. QED
      BY <1>0, <2>1, <2>2, BookByOthers
  <1>7. CASE UploadInsert(r)
    BY <1>0, <1>7, BookByOthers DEF UploadInsert, Idle
  <1>8. CASE EventDeleteRow(r)
    <2>1. rows' \subseteq rows
      BY <1>8 DEF EventDeleteRow, RemoveRows
    <2>2. QED
      BY <1>0, <1>8, <2>1, BookByOthers DEF EventDeleteRow, Idle
  <1>9. CASE \/ UploadRefused(r) \/ ImageDeleteRow(r)
             \/ EventUpdateConflict(r) \/ RequestAbort(r)
             \/ \E s \in RowStates, t \in Titles : EventUpdateSave(r, s, t)
    <2>1. /\ SetReq(r, Idle) /\ rows' \subseteq rows
          /\ UNCHANGED <<home, acked, discarded, doomed>>
      BY <1>9 DEF UploadRefused, ImageDeleteRow, EventUpdateConflict,
                  RequestAbort, EventUpdateSave
    <2>2. QED
      BY <1>0, <2>1, BookByOthers DEF Idle
  <1>10. QED
    BY <1>1, <1>2, <1>3, <1>4, <1>5, <1>6, <1>7, <1>8, <1>9
    DEF UploadStep, ImageStep, AdminStep

-----------------------------------------------------------------------------
(* SafeInv is inductive.                                                    *)

LEMMA InitSafe == Init => SafeInv /\ DurableInv
  <1> SUFFICES ASSUME Init PROVE SafeInv /\ DurableInv
    OBVIOUS
  <1>1. /\ acked = {} /\ discarded = {} /\ rows = {}
        /\ \A e \in Events : event[e] = "unborn"
        /\ \A r \in Requests : req[r] = Idle
        /\ \A w \in Workers : wk[w] = Resting /\ archive[w] = {}
    BY DEF Init
  <1>2. /\ Idle.at = "idle" /\ Resting.at = "idle" /\ Resting.pend = {}
        /\ Resting.left = {} /\ Resting.cur = None
    BY DEF Idle, Resting
  <1>3. \A w \in Workers : Claimed(w) = {} /\ Cleared(w) = {} /\ Holds(w) = {}
    BY <1>1, <1>2 DEF Claimed, Cleared, Holds
  <1>4. Book
    BY <1>1, <1>2 DEF Book, Marked, Uploading, Committed
  <1>5. SafeInv
    BY <1>1, <1>3, <1>4
    DEF SafeInv, OwnArchive, Emptied, Read, Zipped, Listed, ErasedWithEvent,
        OnTime, Wanted
  <1>6. DurableInv
    BY <1>1, <1>2 DEF DurableInv, Filed, StoredFile, Removed
  <1>7. QED
    BY <1>5, <1>6

LEMMA ClearedIsHeld ==
  ASSUME NEW w \in Workers
  PROVE  Cleared(w) \subseteq Holds(w)
  BY NoneIsNew DEF Cleared, Holds

(* A photo that is answered for now has its event's name, and if it is in   *)
(* time no worker has its event in hand.                                    *)
LEMMA FreshPhoto ==
  ASSUME TypeInv, Book, RequestEffect, NEW p \in acked' \ acked
  PROVE  /\ home[p] \in Events /\ home'[p] = home[p] /\ Exists(home[p])
         /\ p \in rows' /\ files' = files
         /\ p \notin late' =>
              ~Archived(home[p]) /\ \A w \in Workers : home[p] \notin Holds(w)
  <1>1. PICK r \in Requests : req[r].at = "uploadStored" /\ req[r].photo = p
    BY DEF RequestEffect
  <1>2. home[p] \in Events /\ p \in Photos
    BY <1>1 DEF Book, Uploading, TypeInv, Shaped, RequestShape
  <1>3. home'[p] = home[p]
    BY <1>2, NoneIsNew DEF RequestEffect
  <1>4. QED
    BY <1>2, <1>3 DEF RequestEffect, TooLate

LEMMA OldPhoto ==
  ASSUME TypeInv, Book, RequestEffect, NEW p \in acked
  PROVE  /\ p \in Photos /\ home[p] \in Events /\ home'[p] = home[p]
         /\ OnTime(p)' => OnTime(p)
         /\ p \in files' => p \in files
  <1>1. p \in Photos /\ home[p] \in Events
    BY DEF TypeInv, TypeOK, Book, Committed
  <1>2. home'[p] = home[p]
    BY <1>1, NoneIsNew DEF RequestEffect
  <1>3. OnTime(p)' => OnTime(p)
    BY <1>2 DEF OnTime, Wanted, RequestEffect
  <1>4. QED
    BY <1>1, <1>2, <1>3, NoneIsNew DEF RequestEffect

LEMMA RequestSafe ==
  ASSUME TypeInv, TypeInv', SafeInv, RequestEffect, Book'
  PROVE  SafeInv'
  <1>0. Book /\ wk' = wk /\ archive' = archive
    BY DEF SafeInv, RequestEffect
  <1>1. OwnArchive'
    BY <1>0 DEF SafeInv, OwnArchive, Claimed, ArchivedBy
  <1>2. \A w \in Workers : Cleared(w)' = Cleared(w) /\ Holds(w)' = Holds(w)
    BY <1>0 DEF Cleared, Holds
  <1>3. Emptied'
    <2> SUFFICES ASSUME NEW w \in Workers, NEW p \in acked' \ late',
                        home'[p] \in Cleared(w)
                 PROVE  p \notin files'
      BY <1>2 DEF Emptied
    <2>1. CASE p \in acked
      <3>1. p \in acked \ late
        BY <2>1 DEF RequestEffect
      <3>2. QED
        BY <1>0, <3>1, OldPhoto DEF SafeInv, Emptied
    <2>2. CASE p \notin acked
      BY <1>0, <2>2, FreshPhoto, ClearedIsHeld
    <2>3. QED
      BY <2>1, <2>2
  <1>4. Read'
    <2> SUFFICES ASSUME NEW w \in Workers, NEW p \in Photos, OnTime(p)',
                        home'[p] \in Holds(w)
                 PROVE  p \in wk[w].seen[home'[p]]
      BY <1>0, <1>2 DEF Read
    <2>1. CASE p \in acked
      BY <1>0, <2>1, OldPhoto DEF SafeInv, Read
    <2>2. CASE p \notin acked
      BY <1>0, <2>2, FreshPhoto DEF OnTime, Wanted
    <2>3. QED
      BY <2>1, <2>2
  <1>5. Zipped'
    <2> SUFFICES ASSUME NEW w \in Workers, NEW p \in Photos,
                        NEW a \in archive[w], OnTime(p)', home'[p] = a.ev
                 PROVE  p \in a.zip
      BY <1>0 DEF Zipped
    <2>1. CASE p \in acked
      BY <1>0, <2>1, OldPhoto DEF SafeInv, Zipped
    <2>2. CASE p \notin acked
      BY <1>0, <2>2, FreshPhoto DEF OnTime, Wanted, Archived, ArchivedBy
    <2>3. QED
      BY <2>1, <2>2
  <1>6. Listed'
    <2> SUFFICES ASSUME NEW p \in Photos, OnTime(p)', event'[home'[p]] # "gone"
                 PROVE  p \in rows'
      BY DEF Listed
    <2>1. CASE p \in acked
      <3>1. OnTime(p) /\ home'[p] = home[p] /\ home[p] \in Events
        BY <1>0, <2>1, OldPhoto
      <3>2. event[home[p]] # "gone" /\ p \notin discarded
        BY <3>1 DEF RequestEffect, OnTime, Wanted
      <3>3. QED
        BY <3>1, <3>2 DEF SafeInv, Listed, RequestEffect
    <2>2. CASE p \notin acked
      BY <1>0, <2>2, FreshPhoto DEF OnTime, Wanted
    <2>3. QED
      BY <2>1, <2>2
  <1>7. ErasedWithEvent'
    <2> SUFFICES ASSUME NEW p \in acked' \ late', event'[home'[p]] = "gone",
                        home'[p] \notin doomed'
                 PROVE  p \notin files'
      BY DEF ErasedWithEvent
    <2>1. CASE p \in acked
      <3>1. home'[p] = home[p] /\ home[p] \in Events /\ (p \in files' => p \in files)
        BY <1>0, <2>1, OldPhoto
      <3>2. event[home[p]] = "gone" /\ home[p] \notin doomed /\ p \notin late
        BY <3>1 DEF RequestEffect
      <3>3. QED
        BY <2>1, <3>1, <3>2 DEF SafeInv, ErasedWithEvent
    <2>2. CASE p \notin acked
      BY <1>0, <2>2, FreshPhoto DEF RequestEffect, Exists, RowStates
    <2>3. QED
      BY <2>1, <2>2
  <1>8. QED
    BY <1>1, <1>3, <1>4, <1>5, <1>6, <1>7 DEF SafeInv

LEMMA WorkerSafe ==
  ASSUME TypeInv, SafeInv, NEW w \in Workers, WorkerEffect(w)
  PROVE  SafeInv'
  <1>0. /\ UNCHANGED <<req, home, acked, discarded, doomed, late>>
        /\ \A x \in Workers \ {w} : wk'[x] = wk[x] /\ archive'[x] = archive[x]
        /\ rows' \subseteq rows /\ files' \subseteq files
    BY DEF WorkerEffect
  <1>1. Book'
    BY <1>0 DEF SafeInv, Book, Marked, Uploading, Committed
  <1>2. \A p \in Photos : OnTime(p)' <=> OnTime(p)
    BY <1>0 DEF OnTime, Wanted
  <1>3. \A p \in acked : p \in Photos /\ home[p] \in Events
    BY DEF SafeInv, Book, Committed, TypeInv, TypeOK
  <1>4. \A x \in Workers \ {w} : /\ Claimed(x)' = Claimed(x)
                                 /\ Cleared(x)' = Cleared(x)
                                 /\ Holds(x)' = Holds(x)
                                 /\ \A e \in Events : ArchivedBy(x, e)' = ArchivedBy(x, e)
    BY <1>0 DEF Claimed, Cleared, Holds, ArchivedBy
  <1>5. OwnArchive'
    <2>1. ASSUME NEW e \in Claimed(w)' PROVE ArchivedBy(w, e)'
      <3>1. CASE e \in Claimed(w)
        BY <3>1 DEF WorkerEffect, SafeInv, OwnArchive, ArchivedBy
      <3>2. QED
        BY <3>1 DEF WorkerEffect
    <2>2. ASSUME NEW x \in Workers \ {w}, NEW e \in Claimed(x)'
          PROVE  ArchivedBy(x, e)'
      BY <1>4 DEF SafeInv, OwnArchive, Claimed
    <2>3. QED
      BY <2>1, <2>2 DEF OwnArchive
  <1>6. Emptied'
    <2> SUFFICES ASSUME NEW x \in Workers, NEW p \in acked \ late,
                        home[p] \in Cleared(x)'
                 PROVE  p \notin files'
      BY <1>0 DEF Emptied
    <2>1. CASE home[p] \in Cleared(x)
      BY <1>0, <2>1 DEF SafeInv, Emptied
    <2>2. CASE x = w /\ FilesOf(home[p])' = {}
      BY <1>0, <2>2 DEF FilesOf
    <2>3. QED
      BY <1>4, <2>1, <2>2 DEF WorkerEffect
  <1>7. Read'
    <2> SUFFICES ASSUME NEW x \in Workers, NEW p \in Photos, OnTime(p),
                        home[p] \in Holds(x)'
                 PROVE  p \in wk'[x].seen[home[p]]
      BY <1>0, <1>2 DEF Read
    <2>1. CASE x # w
      BY <1>0, <1>4, <2>1 DEF SafeInv, Read
    <2>2. CASE x = w /\ home[p] \in Holds(w) /\ wk'[w].seen[home[p]] = wk[w].seen[home[p]]
      BY <2>2 DEF SafeInv, Read
    <2>3. CASE x = w /\ event[home[p]] = "expired" /\ wk'[w].seen[home[p]] = RowsOf(home[p])
      BY <2>3 DEF SafeInv, Listed, RowsOf
    <2>4. QED
      BY <2>1, <2>2, <2>3 DEF WorkerEffect
  <1>8. Zipped'
    <2> SUFFICES ASSUME NEW x \in Workers, NEW p \in Photos,
                        NEW a \in archive'[x], OnTime(p), home[p] = a.ev
                 PROVE  p \in a.zip
      BY <1>0, <1>2 DEF Zipped
    <2>1. CASE a \in archive[x]
      BY <2>1 DEF SafeInv, Zipped
    <2>2. CASE x = w /\ wk[w].cur \in Events /\ a.ev = wk[w].cur
               /\ a.zip = wk[w].seen[wk[w].cur]
      <3>1. home[p] \in Holds(w)
        BY <2>2, NoneIsNew DEF Holds
      <3>2. QED
        BY <2>2, <3>1 DEF SafeInv, Read
    <2>3. QED
      BY <1>0, <2>1, <2>2 DEF WorkerEffect
  <1>9. Listed'
    BY <1>0, <1>2, <1>3 DEF WorkerEffect, SafeInv, Listed, OnTime, Wanted
  <1>10. ErasedWithEvent'
    BY <1>0, <1>3 DEF WorkerEffect, SafeInv, ErasedWithEvent, Emptied
  <1>11. QED
    BY <1>1, <1>5, <1>6, <1>7, <1>8, <1>9, <1>10 DEF SafeInv

-----------------------------------------------------------------------------
(* DurableInv is inductive when no archive directory is ever lost.          *)

(* Only a store gives a request a stored upload.                            *)
LEMMA NewUploads ==
  ASSUME TypeInv, NEW r \in Requests,
         UploadStep(r) \/ ImageStep(r) \/ AdminStep(r) \/ RequestAbort(r)
  PROVE  \A q \in Requests : req'[q].at = "uploadStored" =>
           req'[q] = req[q] \/ req'[q].photo \in files'
  <1> DEFINE Goal == \A q \in Requests : req'[q].at = "uploadStored" =>
                       req'[q] = req[q] \/ req'[q].photo \in files'
  <1>0. req[r] \in RequestRecords
    BY DEF TypeInv, TypeOK
  <1>1. ASSUME NEW v, SetReq(r, v), v.at # "uploadStored" PROVE Goal
    BY <1>1, SetReqEffect DEF TypeInv
  <1>2. ASSUME NEW p \in Photos, UploadStore(r, p) PROVE Goal
    <2> DEFINE v == [req[r] EXCEPT !.at = "uploadStored", !.photo = p]
    <2>1. v.photo = p
      BY <1>0 DEF RequestRecords
    <2>2. SetReq(r, v) /\ p \in files'
      BY <1>2 DEF UploadStore
    <2> HIDE DEF v
    <2>3. QED
      BY <2>1, <2>2, SetReqEffect DEF TypeInv
  <1>3. Idle.at # "uploadStored"
    BY DEF Idle
  <1>4. ASSUME NEW at \in RequestSteps \ {"uploadStored"}
        PROVE  [req[r] EXCEPT !.at = at].at # "uploadStored"
    BY <1>0, <1>4 DEF RequestRecords
  <1>5. ASSUME NEW e \in Events, UploadCheck(r, e) PROVE Goal
    <2>1. [Idle EXCEPT !.at = "uploadChecked", !.ev = e].at # "uploadStored"
      BY DEF Idle
    <2> HIDE DEF Goal
    <2>2. QED
      BY <1>1, <1>5, <2>1 DEF UploadCheck
  <1>6. ASSUME NEW p \in Photos, ImageLoad(r, p) PROVE Goal
    <2> DEFINE v == [Idle EXCEPT !.at = "imageLoaded", !.ev = home[p], !.photo = p]
    <2>1. v.at # "uploadStored"
      BY DEF Idle
    <2>2. SetReq(r, v)
      BY <1>6 DEF ImageLoad
    <2> HIDE DEF Goal, v
    <2>3. QED
      BY <1>1, <2>1, <2>2
  <1>7. ASSUME NEW e \in Events, EventUpdateLoad(r, e) \/ EventDeleteLoad(r, e)
        PROVE  Goal
    <2> DEFINE v(at) == [Idle EXCEPT !.at = at, !.ev = e, !.seen = RowsOf(e)]
    <2>1. v("updateLoaded").at # "uploadStored" /\ v("deleteLoaded").at # "uploadStored"
      BY DEF Idle
    <2>2. SetReq(r, v("updateLoaded")) \/ SetReq(r, v("deleteLoaded"))
      BY <1>7 DEF EventUpdateLoad, EventDeleteLoad
    <2> HIDE DEF Goal, v
    <2>3. QED
      BY <1>1, <2>1, <2>2
  <1>8. ASSUME ImageDeleteFile(r) \/ EventDeleteFiles(r) \/ EventDeleteFilesFails(r)
        PROVE  Goal
    <2> DEFINE v(at) == [req[r] EXCEPT !.at = at]
    <2>1. v("imageFileGone").at # "uploadStored" /\ v("deleteFilesGone").at # "uploadStored"
      BY <1>4 DEF RequestSteps
    <2>2. SetReq(r, v("imageFileGone")) \/ SetReq(r, v("deleteFilesGone"))
      BY <1>8 DEF ImageDeleteFile, EventDeleteFiles, EventDeleteFilesFails
    <2> HIDE DEF Goal, v
    <2>3. QED
      BY <1>1, <2>1, <2>2
  <1> HIDE DEF Goal
  <1>9. ASSUME \/ UploadInsert(r) \/ UploadRefused(r) \/ ImageDeleteRow(r)
               \/ EventUpdateConflict(r) \/ EventDeleteRow(r) \/ RequestAbort(r)
               \/ \E s \in RowStates, t \in Titles : EventUpdateSave(r, s, t)
        PROVE  Goal
    <2>1. SetReq(r, Idle)
      BY <1>9 DEF UploadInsert, UploadRefused, ImageDeleteRow, RequestAbort,
                  EventUpdateConflict, EventDeleteRow, EventUpdateSave
    <2>2. QED
      BY <1>1, <1>3, <2>1
  <1>10. Goal
    BY <1>2, <1>5, <1>6, <1>7, <1>8, <1>9 DEF UploadStep, ImageStep, AdminStep
  <1>11. QED
    BY <1>10 DEF Goal

LEMMA RequestDurable ==
  ASSUME TypeInv, SafeInv, DurableInv, RequestEffect,
         \A q \in Requests : req'[q].at = "uploadStored" =>
           req'[q] = req[q] \/ req'[q].photo \in files'
  PROVE  DurableInv'
  <1>0. Book /\ doomed \subseteq doomed' /\ discarded \subseteq discarded'
    BY DEF SafeInv, RequestEffect
  <1>1. \A e \in Events : Excused(e) => Excused(e)'
    BY <1>0 DEF Excused, Archived, ArchivedBy, RequestEffect
  <1>2. Filed'
    <2> SUFFICES ASSUME NEW p \in acked'
                 PROVE  p \in files' \/ p \in discarded' \/ Excused(home[p])'
      BY DEF Filed
    <2>1. CASE p \in acked
      <3>1. home'[p] = home[p] /\ home[p] \in Events
        BY <1>0, <2>1, OldPhoto
      <3>2. p \in files \/ p \in discarded \/ Excused(home[p])
        BY <2>1 DEF DurableInv, Filed
      <3>3. p \in files \ files' => p \in discarded \/ home[p] \in doomed
        BY DEF RequestEffect
      <3>4. QED
        BY <1>0, <1>1, <3>1, <3>2, <3>3 DEF Excused, Archived, ArchivedBy, RequestEffect
    <2>2. CASE p \notin acked
      <3>1. PICK r \in Requests : req[r].at = "uploadStored" /\ req[r].photo = p
        BY <2>2 DEF RequestEffect
      <3>2. home[p] = req[r].ev /\ (p \in files \/ Excused(home[p]))
        BY <3>1, <1>0 DEF DurableInv, StoredFile, Book, Uploading
      <3>3. home'[p] = home[p] /\ home[p] \in Events /\ files' = files
        BY <1>0, <2>2, FreshPhoto
      <3>4. QED
        BY <1>0, <3>2, <3>3 DEF Excused, Archived, ArchivedBy, RequestEffect
    <2>3. QED
      BY <2>1, <2>2
  <1>3. StoredFile'
    <2> SUFFICES ASSUME NEW q \in Requests, req'[q].at = "uploadStored",
                        req'[q] = req[q]
                 PROVE  req[q].photo \in files' \/ Excused(req[q].ev)'
      BY DEF StoredFile, Excused, Archived, ArchivedBy
    <2>1. /\ req[q].photo \in files \/ Excused(req[q].ev)
          /\ req[q].photo \notin discarded /\ home[req[q].photo] = req[q].ev
          /\ req[q].ev \in Events
      BY <1>0 DEF DurableInv, StoredFile, Book, Uploading, Committed, TypeInv,
                  Shaped, RequestShape
    <2>2. req[q].photo \in files \ files' => req[q].ev \in doomed
      BY <2>1 DEF RequestEffect
    <2>3. QED
      BY <1>0, <2>1, <2>2 DEF Excused, Archived, ArchivedBy, RequestEffect
  <1>4. Removed'
    BY <1>0, <1>1 DEF DurableInv, Removed, Excused, RequestEffect
  <1>5. QED
    BY <1>2, <1>3, <1>4 DEF DurableInv

LEMMA WorkerDurable ==
  ASSUME TypeInv, SafeInv, DurableInv, Ephemeral = {},
         NEW w \in Workers, WorkerEffect(w)
  PROVE  DurableInv'
  <1>0. /\ UNCHANGED <<req, home, acked, discarded, doomed>>
        /\ \A x \in Workers : archive[x] \subseteq archive'[x]
    BY DEF WorkerEffect
  <1>1. ASSUME NEW e PROVE Archived(e) => Archived(e)'
    BY <1>0 DEF Archived, ArchivedBy
  <1>2. ASSUME NEW e PROVE Excused(e) => Excused(e)'
    BY <1>0, <1>1 DEF Excused
  <1>3. ASSUME NEW e \in Claimed(w) PROVE Excused(e)'
    BY <1>1 DEF SafeInv, OwnArchive, Archived, Excused
  <1>4. Filed'
    <2> SUFFICES ASSUME NEW p \in acked
                 PROVE  p \in files' \/ p \in discarded \/ Excused(home[p])'
      BY <1>0 DEF Filed, Excused, Archived, ArchivedBy
    <2>1. QED
      BY <1>2, <1>3 DEF DurableInv, Filed, WorkerEffect
  <1>5. StoredFile'
    <2> SUFFICES ASSUME NEW r \in Requests, req[r].at = "uploadStored"
                 PROVE  req[r].photo \in files' \/ Excused(req[r].ev)'
      BY <1>0 DEF StoredFile, Excused, Archived, ArchivedBy
    <2>1. home[req[r].photo] = req[r].ev
      BY DEF SafeInv, Book, Uploading
    <2>2. QED
      BY <1>2, <1>3, <2>1 DEF DurableInv, StoredFile, WorkerEffect
  <1>6. Removed'
    <2>1. Cleared(w) \subseteq Claimed(w)
      BY DEF Cleared, Claimed
    <2>2. QED
      BY <1>2, <1>3, <2>1 DEF DurableInv, Removed, WorkerEffect
  <1>7. QED
    BY <1>4, <1>5, <1>6 DEF DurableInv

-----------------------------------------------------------------------------
(* The two invariants of the specification, and what they imply.            *)

LEMMA SafeStep == TypeInv /\ SafeInv /\ [Next]_vars => SafeInv'
  <1> SUFFICES ASSUME TypeInv, SafeInv, [Next]_vars PROVE SafeInv'
    OBVIOUS
  <1>0. TypeInv' /\ Book
    BY TypeStep DEF SafeInv
  <1>1. ASSUME NEW e \in Events,
               (\E s \in RowStates, t \in Titles : CreateEvent(e, s, t)) \/ Expire(e)
        PROVE  SafeInv'
    <2>1. RequestEffect /\ UNCHANGED <<req, home, rows, files, history>>
      BY <1>1, EventEffect
    <2>2. Book'
      BY <1>0, <2>1 DEF Book, Marked, Uploading, Committed, history
    <2>3. QED
      BY <1>0, <2>1, <2>2, RequestSafe
  <1>2. ASSUME NEW r \in Requests,
               UploadStep(r) \/ ImageStep(r) \/ AdminStep(r) \/ RequestAbort(r)
        PROVE  SafeInv'
    <2>1. RequestEffect
      BY <1>0, <1>2, UploadEffect, ImageEffect, AdminEffect, AbortEffect
    <2>2. QED
      BY <1>0, <1>2, <2>1, RequestBook, RequestSafe
  <1>3. ASSUME NEW w \in Workers, WorkerStep(w) PROVE SafeInv'
    BY <1>3, WorkerStepEffect, WorkerSafe
  <1>4. CASE UNCHANGED vars
    BY <1>4
    DEF vars, db, history, SafeInv, Book, Marked, Uploading, Committed,
        OwnArchive, Emptied, Read, Zipped, Listed, ErasedWithEvent, Claimed,
        Cleared, Holds, ArchivedBy, OnTime, Wanted
  <1>5. QED
    BY <1>1, <1>2, <1>3, <1>4 DEF Next

LEMMA DurableStep ==
  ASSUME Ephemeral = {}
  PROVE  TypeInv /\ SafeInv /\ DurableInv /\ [Next]_vars => DurableInv'
  <1> SUFFICES ASSUME TypeInv, SafeInv, DurableInv, [Next]_vars PROVE DurableInv'
    OBVIOUS
  <1>0. Book
    BY DEF SafeInv
  <1>1. ASSUME NEW e \in Events,
               (\E s \in RowStates, t \in Titles : CreateEvent(e, s, t)) \/ Expire(e)
        PROVE  DurableInv'
    BY <1>1, EventEffect, RequestDurable
  <1>2. ASSUME NEW r \in Requests,
               UploadStep(r) \/ ImageStep(r) \/ AdminStep(r) \/ RequestAbort(r)
        PROVE  DurableInv'
    <2>1. RequestEffect
      BY <1>0, <1>2, UploadEffect, ImageEffect, AdminEffect, AbortEffect
    <2>2. QED
      BY <1>2, <2>1, NewUploads, RequestDurable
  <1>3. ASSUME NEW w \in Workers, WorkerStep(w) PROVE DurableInv'
    BY <1>3, WorkerStepEffect, WorkerDurable
  <1>4. CASE UNCHANGED vars
    BY <1>4 DEF vars, db, history, DurableInv, Filed, StoredFile, Removed,
                Excused, Archived, ArchivedBy
  <1>5. QED
    BY <1>1, <1>2, <1>3, <1>4 DEF Next

LEMMA SafeInvariant == Spec => [](TypeInv /\ SafeInv)
  <1>1. Init => TypeInv /\ SafeInv
    BY InitType, InitSafe
  <1>2. TypeInv /\ SafeInv /\ [Next]_vars => (TypeInv /\ SafeInv)'
    BY TypeStep, SafeStep
  <1>3. QED
    BY <1>1, <1>2, PTL DEF Spec

LEMMA DurableInvariant ==
  ASSUME Ephemeral = {}
  PROVE  Spec => [](TypeInv /\ SafeInv /\ DurableInv)
  <1>1. Init => TypeInv /\ SafeInv /\ DurableInv
    BY InitType, InitSafe
  <1>2. TypeInv /\ SafeInv /\ DurableInv /\ [Next]_vars
          => (TypeInv /\ SafeInv /\ DurableInv)'
    BY TypeStep, SafeStep, DurableStep
  <1>3. QED
    BY <1>1, <1>2, PTL DEF Spec

(* A worker has archived, itself, the photos of every event it may still    *)
(* empty or remove: also of the events a failed SaveChanges left behind.    *)
THEOREM ArchivedFirst == Spec => []ArchivedBeforeRemoval
  <1>1. TypeInv /\ SafeInv => ArchivedBeforeRemoval
    <2> SUFFICES ASSUME TypeInv, SafeInv, NEW w \in Workers, NEW p \in Photos,
                        Wanted(p), p \notin late,
                        \/ home[p] \in wk[w].pend
                        \/ /\ wk[w].at \in {"archived", "emptied"}
                           /\ home[p] = wk[w].cur
                 PROVE  \E a \in archive[w] : p \in a.zip
      BY DEF ArchivedBeforeRemoval
    <2>1. home[p] \in Claimed(w)
      BY DEF Claimed, SafeInv, Book, Committed, Wanted
    <2>2. PICK a \in archive[w] : a.ev = home[p]
      BY <2>1 DEF SafeInv, OwnArchive, ArchivedBy
    <2>3. QED
      BY <2>2 DEF SafeInv, Zipped, OnTime
  <1>2. QED
    BY <1>1, SafeInvariant, PTL

(* No file of an event that retention removed outlives the event's row.     *)
THEOREM Erased == Spec => []ErasedWithEvent
  <1>1. TypeInv /\ SafeInv => ErasedWithEvent
    BY DEF SafeInv
  <1>2. QED
    BY <1>1, SafeInvariant, PTL

(* With archive directories that survive restarts, a photo that was in time *)
(* and that nobody deleted is in the gallery or in an archive.              *)
THEOREM NothingLost ==
  ASSUME Ephemeral = {}
  PROVE  Spec => []KeptOrArchived
  <1>1. TypeInv /\ SafeInv /\ DurableInv => KeptOrArchived
    <2> SUFFICES ASSUME TypeInv, SafeInv, DurableInv, NEW p \in Photos, OnTime(p)
                 PROVE  (p \in rows /\ p \in files) \/ InArchive(p)
      BY DEF KeptOrArchived, OnTime
    <2>1. p \in acked \ discarded /\ home[p] \in Events /\ home[p] \notin doomed
      BY DEF OnTime, Wanted, SafeInv, Book, Committed
    <2>2. ASSUME Archived(home[p]) PROVE InArchive(p)
      BY <2>2 DEF Archived, ArchivedBy, InArchive, SafeInv, Zipped
    <2>3. CASE event[home[p]] = "gone"
      BY <2>1, <2>2, <2>3 DEF DurableInv, Removed, Excused
    <2>4. CASE event[home[p]] # "gone"
      BY <2>1, <2>2, <2>4 DEF SafeInv, Listed, DurableInv, Filed, Excused
    <2>5. QED
      BY <2>3, <2>4
  <1>2. QED
    BY <1>1, DurableInvariant, PTL

(* With archive directories that survive restarts, a photo the gallery      *)
(* lists has its file, or was deleted, or its event is archived.            *)
THEOREM GalleryWhole ==
  ASSUME Ephemeral = {}
  PROVE  Spec => []GalleryIntact
  <1>1. TypeInv /\ SafeInv /\ DurableInv => GalleryIntact
    BY DEF SafeInv, Book, Committed, DurableInv, Filed, Excused, GalleryIntact
  <1>2. QED
    BY <1>1, DurableInvariant, PTL

-----------------------------------------------------------------------------
(* The refinement: PhotoLifecycle implements Vault. On top of SafeInv and   *)
(* DurableInv it needs that an image request deletes the row only once the  *)
(* file is gone, and that what a worker read or archived of an event are    *)
(* its photos.                                                              *)
FileGone == \A r \in Requests :
  req[r].at = "imageFileGone" => req[r].photo \notin files

AtHome == \A w \in Workers :
  /\ \A e \in Holds(w) : \A p \in wk[w].seen[e] : home[p] = e
  /\ \A a \in archive[w] : \A p \in a.zip : home[p] = a.ev

Belated == late \subseteq acked

VaultInv == SafeInv /\ DurableInv /\ FileGone /\ AtHome /\ Belated

LEMMA RequestAtHome ==
  ASSUME TypeInv, AtHome, RequestEffect
  PROVE  AtHome'
  <1> SUFFICES ASSUME NEW w \in Workers
               PROVE  /\ \A e \in Holds(w) : \A p \in wk[w].seen[e] : home'[p] = e
                      /\ \A a \in archive[w] : \A p \in a.zip : home'[p] = a.ev
    BY DEF AtHome, Holds, RequestEffect
  <1>1. ASSUME NEW e \in Events, NEW p \in Photos, home[p] = e PROVE home'[p] = e
    BY <1>1, NoneIsNew DEF RequestEffect
  <1>2. ASSUME NEW e \in Holds(w), NEW p \in wk[w].seen[e]
        PROVE  e \in Events /\ p \in Photos
    <2>1. wk[w] \in WorkerRecords
      BY DEF TypeInv, TypeOK
    <2>2. QED
      BY <1>2, <2>1 DEF WorkerRecords, Holds
  <1>3. ASSUME NEW a \in archive[w], NEW p \in a.zip
        PROVE  a.ev \in Events /\ p \in Photos
    BY <1>3 DEF TypeInv, TypeOK, Archives
  <1>4. QED
    BY <1>1, <1>2, <1>3 DEF AtHome

LEMMA WorkerAtHome ==
  ASSUME TypeInv, AtHome, NEW w \in Workers, WorkerEffect(w)
  PROVE  AtHome'
  <1>1. /\ home' = home
        /\ \A x \in Workers \ {w} : wk'[x] = wk[x] /\ archive'[x] = archive[x]
    BY DEF WorkerEffect
  <1>2. ASSUME NEW e \in Holds(w)', NEW p \in wk'[w].seen[e] PROVE home[p] = e
    <2>1. CASE e \in Holds(w) /\ wk'[w].seen[e] = wk[w].seen[e]
      BY <2>1, <1>2 DEF AtHome
    <2>2. CASE wk'[w].seen[e] = RowsOf(e)
      BY <2>2, <1>2 DEF RowsOf
    <2>3. QED
      BY <2>1, <2>2 DEF WorkerEffect
  <1>3. ASSUME NEW a \in archive'[w], NEW p \in a.zip PROVE home[p] = a.ev
    <2>1. CASE a \in archive[w]
      BY <1>3, <2>1 DEF AtHome
    <2>2. CASE /\ wk[w].cur \in Events /\ a.ev = wk[w].cur
               /\ a.zip = wk[w].seen[wk[w].cur]
      BY <1>3, <2>2, NoneIsNew DEF AtHome, Holds
    <2>3. QED
      BY <2>1, <2>2 DEF WorkerEffect
  <1>4. QED
    BY <1>1, <1>2, <1>3 DEF AtHome, Holds

LEMMA RequestFileGone ==
  ASSUME TypeInv, Book, FileGone, NEW r \in Requests,
         UploadStep(r) \/ ImageStep(r) \/ AdminStep(r) \/ RequestAbort(r)
  PROVE  FileGone'
  <1> DEFINE Goal == FileGone'
  <1>0. req[r] \in RequestRecords /\ RequestEffect
    BY UploadEffect, ImageEffect, AdminEffect, AbortEffect DEF TypeInv, TypeOK
  <1>1. \A q \in Requests : req[q].at = "imageFileGone" => req[q].photo \notin files'
    BY <1>0, NoneIsNew
    DEF FileGone, RequestEffect, Book, Marked, Committed
  <1>2. ASSUME NEW v, SetReq(r, v), v.at # "imageFileGone" \/ v.photo \notin files'
        PROVE  Goal
    BY <1>1, <1>2, SetReqEffect DEF TypeInv, FileGone
  <1>3. ASSUME NEW at \in RequestSteps \ {"imageFileGone"}, NEW p
        PROVE  /\ [req[r] EXCEPT !.at = at].at # "imageFileGone"
               /\ [req[r] EXCEPT !.at = at, !.photo = p].at # "imageFileGone"
    BY <1>0, <1>3 DEF RequestRecords
  <1>4. ASSUME NEW e \in Events,
               UploadCheck(r, e) \/ EventUpdateLoad(r, e) \/ EventDeleteLoad(r, e)
        PROVE  Goal
    <2> DEFINE u == [Idle EXCEPT !.at = "uploadChecked", !.ev = e]
               v(at) == [Idle EXCEPT !.at = at, !.ev = e, !.seen = RowsOf(e)]
    <2>1. /\ u.at # "imageFileGone" /\ v("updateLoaded").at # "imageFileGone"
          /\ v("deleteLoaded").at # "imageFileGone"
      BY DEF Idle
    <2>2. SetReq(r, u) \/ SetReq(r, v("updateLoaded")) \/ SetReq(r, v("deleteLoaded"))
      BY <1>4 DEF UploadCheck, EventUpdateLoad, EventDeleteLoad
    <2> HIDE DEF Goal, u, v
    <2>3. QED
      BY <1>2, <2>1, <2>2
  <1>5. ASSUME NEW p \in Photos, UploadStore(r, p) \/ ImageLoad(r, p) PROVE Goal
    <2> DEFINE u == [req[r] EXCEPT !.at = "uploadStored", !.photo = p]
               v == [Idle EXCEPT !.at = "imageLoaded", !.ev = home[p], !.photo = p]
    <2>1. u.at # "imageFileGone" /\ v.at # "imageFileGone"
      <3>1. v.at # "imageFileGone"
        BY DEF Idle
      <3>2. QED
        BY <1>3, <3>1 DEF RequestSteps
    <2>2. SetReq(r, u) \/ SetReq(r, v)
      BY <1>5 DEF UploadStore, ImageLoad
    <2> HIDE DEF Goal, u, v
    <2>3. QED
      BY <1>2, <2>1, <2>2
  <1>6. ASSUME ImageDeleteFile(r) PROVE Goal
    <2> DEFINE v == [req[r] EXCEPT !.at = "imageFileGone"]
    <2>1. SetReq(r, v) /\ req[r].photo \notin files'
      BY <1>6 DEF ImageDeleteFile
    <2>2. v.photo = req[r].photo
      BY <1>0 DEF RequestRecords
    <2> HIDE DEF Goal, v
    <2>3. QED
      BY <1>2, <2>1, <2>2
  <1>7. ASSUME EventDeleteFiles(r) \/ EventDeleteFilesFails(r) PROVE Goal
    <2> DEFINE v == [req[r] EXCEPT !.at = "deleteFilesGone"]
    <2>1. SetReq(r, v)
      BY <1>7 DEF EventDeleteFiles, EventDeleteFilesFails
    <2>2. v.at # "imageFileGone"
      BY <1>3 DEF RequestSteps
    <2> HIDE DEF Goal, v
    <2>3. QED
      BY <1>2, <2>1, <2>2
  <1>8. ASSUME \/ UploadInsert(r) \/ UploadRefused(r) \/ ImageDeleteRow(r)
               \/ EventUpdateConflict(r) \/ EventDeleteRow(r) \/ RequestAbort(r)
               \/ \E s \in RowStates, t \in Titles : EventUpdateSave(r, s, t)
        PROVE  Goal
    <2>1. SetReq(r, Idle)
      BY <1>8 DEF UploadInsert, UploadRefused, ImageDeleteRow, RequestAbort,
                  EventUpdateConflict, EventDeleteRow, EventUpdateSave
    <2>2. Idle.at # "imageFileGone"
      BY DEF Idle
    <2> HIDE DEF Goal
    <2>3. QED
      BY <1>2, <2>1, <2>2
  <1> HIDE DEF Goal
  <1>9. Goal
    BY <1>4, <1>5, <1>6, <1>7, <1>8 DEF UploadStep, ImageStep, AdminStep
  <1>10. QED
    BY <1>9 DEF Goal

LEMMA VaultInvStep ==
  ASSUME Ephemeral = {}
  PROVE  TypeInv /\ VaultInv /\ [Next]_vars => VaultInv'
  <1> SUFFICES ASSUME TypeInv, VaultInv, [Next]_vars PROVE VaultInv'
    OBVIOUS
  <1> DEFINE Goal == FileGone' /\ AtHome' /\ Belated'
  <1>0. Book /\ SafeInv' /\ DurableInv'
    BY SafeStep, DurableStep DEF VaultInv, SafeInv
  <1>1. ASSUME RequestEffect PROVE Belated'
    BY <1>1 DEF RequestEffect, VaultInv, Belated
  <1>2. ASSUME NEW e \in Events,
               (\E s \in RowStates, t \in Titles : CreateEvent(e, s, t)) \/ Expire(e)
        PROVE  Goal
    <2>1. RequestEffect /\ UNCHANGED <<req, files>>
      BY <1>2, EventEffect DEF CreateEvent, Expire
    <2>2. QED
      BY <1>1, <2>1, RequestAtHome DEF VaultInv, FileGone
  <1>3. ASSUME NEW r \in Requests,
               UploadStep(r) \/ ImageStep(r) \/ AdminStep(r) \/ RequestAbort(r)
        PROVE  Goal
    <2>1. RequestEffect
      BY <1>0, <1>3, UploadEffect, ImageEffect, AdminEffect, AbortEffect
    <2>2. QED
      BY <1>0, <1>1, <1>3, <2>1, RequestFileGone, RequestAtHome DEF VaultInv
  <1>4. ASSUME NEW w \in Workers, WorkerStep(w) PROVE Goal
    <2>1. WorkerEffect(w)
      BY <1>4, WorkerStepEffect
    <2>2. FileGone' /\ Belated'
      BY <2>1 DEF WorkerEffect, VaultInv, FileGone, Belated
    <2>3. QED
      BY <2>1, <2>2, WorkerAtHome DEF VaultInv
  <1>5. ASSUME UNCHANGED vars PROVE Goal
    BY <1>5 DEF vars, db, history, VaultInv, FileGone, AtHome, Holds, Belated
  <1> HIDE DEF Goal
  <1>6. Goal
    BY <1>2, <1>3, <1>4, <1>5 DEF Next
  <1>7. QED
    BY <1>0, <1>6 DEF Goal, VaultInv

(* The mapping: an accepted photo is of the event it was drawn for, and     *)
(* what is released or archived may go.                                     *)
LEMMA TimelyPhotos ==
  ASSUME TypeInv, VaultInv, NEW p \in Timely
  PROVE  /\ p \in Photos /\ home[p] \in Events /\ Album[p] = home[p]
         /\ V!Wanted(p) <=> OnTime(p)
         /\ OnTime(p) /\ Archived(home[p]) => p \in Zips
         /\ event[home[p]] = "gone" \/ p \in discarded \/ p \in rows \/ home[p] \in doomed
  <1>1. p \in acked \ late /\ p \in Photos /\ home[p] \in Events
    BY DEF Timely, TypeInv, TypeOK, VaultInv, SafeInv, Book, Committed
  <1>2. Album[p] = home[p]
    BY <1>1 DEF Album
  <1>3. V!Wanted(p) <=> OnTime(p)
    BY <1>1, <1>2 DEF V!Wanted, OnTime, Wanted, Withdrawn, Timely
  <1>4. OnTime(p) /\ Archived(home[p]) => p \in Zips
    BY <1>1 DEF VaultInv, SafeInv, Zipped, Archived, ArchivedBy, Zips, InArchive,
                Timely
  <1>5. QED
    BY <1>1, <1>2, <1>3, <1>4 DEF VaultInv, SafeInv, Listed, OnTime, Wanted

LEMMA MappedVars ==
  ASSUME UNCHANGED <<acked, late, discarded, doomed, home, rows, files, event, archive>>
  PROVE  UNCHANGED V!vars
  BY DEF V!vars, V!photos, V!events, EventNow, Album, Gallery, Store, Zips,
         ArchivedEvents, Withdrawn, Timely, Exists, Archived, ArchivedBy, InArchive

(* Files that go are an Erase.                                              *)
LEMMA FilesErased ==
  ASSUME TypeInv, VaultInv, files' \subseteq files,
         \A p \in Timely \cap (files \ files') : OnTime(p) => p \in Zips,
         UNCHANGED <<acked, late, discarded, doomed, home, rows, event, archive>>
  PROVE  V!Next
  <1> DEFINE P == Store \ Store'
  <1>1. /\ UNCHANGED <<Album, Gallery, Zips, Withdrawn, V!events>>
        /\ Store' = Store \ P
    BY DEF V!events, EventNow, Album, Gallery, Store, Zips, ArchivedEvents,
           Withdrawn, Timely, Exists, Archived, ArchivedBy, InArchive
  <1>2. \A p \in P : V!Wanted(p) => p \in Zips
    BY TimelyPhotos DEF Store, Timely
  <1>3. V!Erase(P)
    BY <1>1, <1>2 DEF V!Erase
  <1>4. P \in SUBSET Store
    OBVIOUS
  <1>5. QED
    BY <1>3, <1>4 DEF V!Next

(* Rows that a SaveChanges deletes are a Remove.                            *)
LEMMA RowsRemoved ==
  ASSUME TypeInv, VaultInv, NEW E \in SUBSET Events, RemoveRows(E),
         \A e \in E : /\ Exists(e)
                      /\ e \in doomed \/ (Archived(e) /\ FilesOf(e) \cap Timely = {}),
         UNCHANGED <<acked, late, discarded, doomed, home, files, archive>>
  PROVE  V!Next
  <1>1. UNCHANGED <<Album, Store, Zips, Withdrawn, ArchivedEvents, doomed>>
    BY DEF Album, Store, Zips, ArchivedEvents, Withdrawn, Timely, Archived,
           ArchivedBy, InArchive
  <1>2. EventNow' = [e \in Events |-> IF e \in E THEN "gone" ELSE EventNow[e]]
    <2>1. \A e \in Events : EventNow'[e] = IF e \in E THEN "gone" ELSE EventNow[e]
      BY DEF RemoveRows, EventNow, Exists, RowStates
    <2>2. QED
      BY <2>1 DEF EventNow
  <1>3. Gallery' = {p \in Gallery : Album[p] \notin E}
    BY TimelyPhotos DEF RemoveRows, Gallery, Timely
  <1>4. ASSUME NEW e \in E
        PROVE  /\ EventNow[e] = "there"
               /\ e \in doomed \/ (e \in ArchivedEvents /\ V!Of(e) \cap Store = {})
    BY <1>4, TimelyPhotos DEF EventNow, ArchivedEvents, V!Of, Store, FilesOf, Album
  <1>5. V!Remove(E)
    BY <1>1, <1>2, <1>3, <1>4 DEF V!Remove
  <1>6. QED
    BY <1>5 DEF V!Next

LEMMA EventsServe ==
  ASSUME TypeInv, NEW e \in Events, NEW s \in RowStates, NEW t \in Titles,
         CreateEvent(e, s, t) \/ Expire(e)
  PROVE  [V!Next]_(V!vars)
  <1>1. UNCHANGED <<Album, Gallery, Store, Zips, Withdrawn, ArchivedEvents, doomed>>
    BY DEF CreateEvent, Expire, Album, Gallery, Store, Zips, ArchivedEvents,
           Withdrawn, Timely, Archived, ArchivedBy, InArchive, history
  <1>2. CASE CreateEvent(e, s, t)
    <2>1. EventNow[e] = "unborn" /\ EventNow' = [EventNow EXCEPT ![e] = "there"]
      BY <1>2 DEF CreateEvent, EventNow, Exists, RowStates, TypeInv, TypeOK
    <2>2. V!Create(e)
      BY <1>1, <2>1 DEF V!Create, V!photos
    <2>3. QED
      BY <2>2 DEF V!Next
  <1>3. CASE Expire(e)
    <2>1. EventNow' = EventNow
      BY <1>3 DEF Expire, EventNow, Exists, RowStates, TypeInv, TypeOK
    <2>2. QED
      BY <1>1, <2>1 DEF V!vars, V!photos, V!events
  <1>4. QED
    BY <1>2, <1>3

LEMMA UploadServes ==
  ASSUME TypeInv, VaultInv, NEW r \in Requests, UploadStep(r)
  PROVE  [V!Next]_(V!vars)
  <1> USE DEF db, spent, history
  <1>1. ASSUME NEW e \in Events, UploadCheck(r, e) PROVE UNCHANGED V!vars
    BY <1>1, MappedVars DEF UploadCheck
  <1>2. ASSUME NEW p \in Photos, UploadStore(r, p) PROVE UNCHANGED V!vars
    <2>1. p \notin Timely
      BY <1>2, TimelyPhotos, NoneIsNew DEF UploadStore
    <2>2. \A q \in Photos \ {p} : home'[q] = home[q]
      BY <1>2 DEF UploadStore, TypeInv, TypeOK
    <2>3. Timely' = Timely /\ UNCHANGED <<event, rows, archive, discarded, doomed>>
      BY <1>2 DEF UploadStore, Timely
    <2>4. Album' = Album
      BY <2>1, <2>2, <2>3 DEF Album
    <2>5. Store' = Store
      BY <1>2, <2>1, <2>3 DEF UploadStore, Store
    <2>6. QED
      BY <2>3, <2>4, <2>5 DEF V!vars, V!photos, V!events, EventNow, Gallery,
         Zips, ArchivedEvents, Withdrawn, Exists, Archived, ArchivedBy, InArchive
  <1>3. CASE UploadInsert(r)
    <2> DEFINE p == req[r].photo
               e == req[r].ev
    <2>1. /\ p \in Photos /\ e \in Events /\ home[p] = e /\ p \notin acked
          /\ p \notin discarded
      BY <1>3 DEF UploadInsert, TypeInv, Shaped, RequestShape, VaultInv,
                  SafeInv, Book, Uploading, Committed
    <2>2. UNCHANGED <<event, files, home, archive, discarded, doomed>>
      BY <1>3 DEF UploadInsert
    <2>3. UNCHANGED <<EventNow, ArchivedEvents, doomed>>
      BY <2>2 DEF EventNow, ArchivedEvents, Exists, Archived, ArchivedBy
    <2>4. CASE TooLate(e)
      <3>1. Timely' = Timely /\ p \notin Timely /\ rows' = rows \cup {p}
        BY <1>3, <2>1, <2>4 DEF UploadInsert, Timely
      <3>2. QED
        BY <2>2, <2>3, <3>1 DEF V!vars, V!photos, V!events, Album, Gallery,
           Store, Zips, Withdrawn, InArchive
    <2>5. CASE ~TooLate(e)
      <3>1. /\ Timely' = Timely \cup {p} /\ p \notin Timely
            /\ rows' = rows \cup {p}
        BY <1>3, <2>1, <2>5 DEF UploadInsert, Timely, VaultInv, Belated
      <3>2. Album[p] = None /\ Album' = [Album EXCEPT ![p] = e]
        BY <2>1, <2>2, <3>1 DEF Album
      <3>3. Gallery' = Gallery \cup {p}
        BY <3>1 DEF Gallery, VaultInv, SafeInv, Book, Committed, Timely
      <3>4. \/ Store' = Store \cup {p}
            \/ e \in doomed /\ Store' = Store
        BY <1>3, <2>1, <2>2, <2>5, <3>1
        DEF UploadInsert, Store, VaultInv, DurableInv, StoredFile, Excused, TooLate
      <3>5. Zips' = Zips /\ Withdrawn' = Withdrawn
        <4>1. ~InArchive(p)
          BY <2>1, <2>5 DEF InArchive, TooLate, Archived, ArchivedBy, AtHome,
                                   VaultInv
        <4>2. QED
          BY <2>1, <2>2, <3>1, <4>1 DEF Zips, Withdrawn, InArchive
      <3>6. EventNow[e] = "there" /\ e \notin ArchivedEvents
        BY <1>3, <2>1, <2>5 DEF UploadInsert, EventNow, ArchivedEvents, TooLate
      <3> HIDE DEF p, e
      <3>7. V!Accept(p, e)
        BY <2>3, <3>2, <3>3, <3>4, <3>5, <3>6 DEF V!Accept, V!events
      <3>8. QED
        BY <2>1, <3>7 DEF V!Next
    <2>6. QED
      BY <2>4, <2>5
  <1>4. CASE UploadRefused(r)
    BY <1>4, MappedVars DEF UploadRefused
  <1>5. QED
    BY <1>1, <1>2, <1>3, <1>4 DEF UploadStep

LEMMA ImageServes ==
  ASSUME TypeInv, VaultInv, NEW r \in Requests, ImageStep(r)
  PROVE  [V!Next]_(V!vars)
  <1> USE DEF db, spent, history
  <1>0. Book
    BY DEF VaultInv, SafeInv
  <1>1. ASSUME NEW p \in Photos, ImageLoad(r, p) PROVE [V!Next]_(V!vars)
    <2>1. UNCHANGED <<acked, late, doomed, home, rows, files, event, archive>>
      BY <1>1 DEF ImageLoad
    <2>2. UNCHANGED <<Album, Gallery, Store, Zips, V!events>>
      BY <2>1 DEF Album, Gallery, Store, Zips, V!events, EventNow, ArchivedEvents,
                  Timely, Exists, Archived, ArchivedBy, InArchive
    <2>3. CASE p \in Timely
      <3>1. p \in Gallery /\ Withdrawn' = Withdrawn \cup {p}
        BY <1>1, <2>1, <2>3 DEF ImageLoad, Gallery, Withdrawn, Timely
      <3>2. V!Withdraw(p)
        BY <2>2, <3>1 DEF V!Withdraw
      <3>3. QED
        BY <3>2 DEF V!Next
    <2>4. CASE p \notin Timely
      <3>1. Withdrawn' = Withdrawn
        BY <1>1, <2>1, <2>4 DEF ImageLoad, Withdrawn, Timely
      <3>2. QED
        BY <2>2, <3>1 DEF V!vars, V!photos
    <2>5. QED
      BY <2>3, <2>4
  <1>2. CASE ImageDeleteFile(r)
    <2>1. req[r].photo \in discarded
      BY <1>0, <1>2 DEF ImageDeleteFile, Book, Marked
    <2>2. QED
      BY <1>2, <2>1, FilesErased DEF ImageDeleteFile, OnTime, Wanted
  <1>3. CASE ImageDeleteRow(r)
    <2> DEFINE p == req[r].photo
    <2>1. p \in discarded \ files /\ p \in Photos
      BY <1>0, <1>3 DEF ImageDeleteRow, VaultInv, FileGone, Book, Marked, Committed,
                        TypeInv, TypeOK
    <2>2. UNCHANGED <<Album, Store, Zips, Withdrawn, V!events>>
      BY <1>3 DEF ImageDeleteRow, Album, Store, Zips, Withdrawn, V!events, EventNow,
                  ArchivedEvents, Timely, Exists, Archived, ArchivedBy, InArchive
    <2>3. Gallery' = Gallery \ {p}
      BY <1>3 DEF ImageDeleteRow, Gallery, Timely
    <2>4. CASE p \in Timely
      <3>1. p \in Withdrawn \ Store
        BY <2>1, <2>4 DEF Withdrawn, Store
      <3>2. V!Unlist(p)
        BY <2>2, <2>3, <3>1 DEF V!Unlist
      <3>3. QED
        BY <2>1, <3>2 DEF V!Next
    <2>5. CASE p \notin Timely
      BY <2>2, <2>3, <2>5 DEF Gallery, V!vars, V!photos
    <2>6. QED
      BY <2>4, <2>5
  <1>4. QED
    BY <1>1, <1>2, <1>3 DEF ImageStep

LEMMA AdminServes ==
  ASSUME TypeInv, VaultInv, NEW r \in Requests, AdminStep(r)
  PROVE  [V!Next]_(V!vars)
  <1> USE DEF db, spent, history
  <1>0. Book
    BY DEF VaultInv, SafeInv
  <1>1. ASSUME NEW e \in Events, EventUpdateLoad(r, e) PROVE UNCHANGED V!vars
    BY <1>1, MappedVars DEF EventUpdateLoad
  <1>2. ASSUME NEW s \in RowStates, NEW t \in Titles, EventUpdateSave(r, s, t)
        PROVE  UNCHANGED V!vars
    <2>1. EventNow' = EventNow
      BY <1>2 DEF EventUpdateSave, Deletable, EventNow, Exists, RowStates,
                  TypeInv, TypeOK
    <2>2. QED
      BY <1>2, <2>1
      DEF EventUpdateSave, V!vars, V!photos, V!events, Album, Gallery, Store,
          Zips, ArchivedEvents, Withdrawn, Timely, Archived, ArchivedBy, InArchive
  <1>3. CASE EventUpdateConflict(r)
    BY <1>3, MappedVars DEF EventUpdateConflict
  <1>4. ASSUME NEW e \in Events, EventDeleteLoad(r, e) PROVE V!Next
    <2>1. UNCHANGED <<V!photos, EventNow, ArchivedEvents>>
      BY <1>4 DEF EventDeleteLoad, V!photos, Album, Gallery, Store, Zips, Withdrawn,
                  EventNow, ArchivedEvents, Timely, Exists, Archived, ArchivedBy,
                  InArchive
    <2>2. EventNow[e] = "there" /\ doomed' = doomed \cup {e}
      BY <1>4 DEF EventDeleteLoad, EventNow
    <2>3. V!Doom(e)
      BY <2>1, <2>2 DEF V!Doom
    <2>4. QED
      BY <2>3 DEF V!Next
  <1>5. CASE EventDeleteFiles(r) \/ EventDeleteFilesFails(r)
    <2>1. req[r].ev \in doomed
      BY <1>0, <1>5 DEF EventDeleteFiles, EventDeleteFilesFails, Book, Marked
    <2>2. /\ UNCHANGED <<event, rows, home, archive, history>>
          /\ files' \subseteq files
          /\ \A p \in files \ files' : home[p] = req[r].ev
      BY <1>5 DEF EventDeleteFiles, EventDeleteFilesFails, FilesOf
    <2>3. QED
      BY <2>1, <2>2, FilesErased DEF OnTime, Wanted
  <1>6. CASE EventDeleteRow(r)
    <2> DEFINE e == req[r].ev
    <2>1. e \in doomed /\ e \in Events
      BY <1>0, <1>6 DEF EventDeleteRow, Book, Marked, TypeInv, Shaped, RequestShape
    <2>2. CASE Deletable(e, req[r].seen) /\ RemoveRows({e})
      <3>1. Exists(e) /\ UNCHANGED <<files, home, archive, history>>
        BY <1>6, <2>2 DEF EventDeleteRow, Deletable
      <3> HIDE DEF e
      <3>2. QED
        BY <2>1, <2>2, <3>1, RowsRemoved
    <2>3. CASE UNCHANGED db
      BY <1>6, <2>3, MappedVars DEF EventDeleteRow
    <2>4. QED
      BY <1>6, <2>2, <2>3 DEF EventDeleteRow
  <1>7. QED
    BY <1>1, <1>2, <1>3, <1>4, <1>5, <1>6 DEF AdminStep

(* What the worker's DbContext holds in state Deleted is archived and has   *)
(* no file that was in time.                                                *)
LEMMA FlushServes ==
  ASSUME TypeInv, VaultInv, NEW w \in Workers, NEW E \in SUBSET Cleared(w),
         Flush(w, E),
         UNCHANGED <<acked, late, discarded, doomed, home, files, archive>>
  PROVE  [V!Next]_(V!vars)
  <1>1. E \in SUBSET Events
    BY DEF Cleared
  <1>2. ASSUME NEW e \in E PROVE Archived(e) /\ FilesOf(e) \cap Timely = {}
    BY <1>2 DEF VaultInv, SafeInv, OwnArchive, Emptied, Archived, Cleared, Claimed,
                FilesOf, Timely
  <1>3. CASE RemoveRows(E) /\ \A e \in E : Deletable(e, wk[w].seen[e])
    BY <1>1, <1>2, <1>3, RowsRemoved DEF Deletable
  <1>4. CASE UNCHANGED db
    BY <1>4, MappedVars DEF db
  <1>5. QED
    BY <1>3, <1>4 DEF Flush

LEMMA WorkerServes ==
  ASSUME TypeInv, VaultInv, Ephemeral = {}, NEW w \in Workers, WorkerStep(w)
  PROVE  [V!Next]_(V!vars)
  <1> USE DEF db, spent, history
  <1>0. wk[w] \in WorkerRecords /\ WorkerShape(wk[w]) /\ archive \in [Workers -> SUBSET Archives]
    BY DEF TypeInv, TypeOK, Shaped
  <1>1. ASSUME \/ CycleStart(w) \/ (\E e \in Events : PickEvent(w, e))
               \/ (\E p \in Photos : FetchPhoto(w, p))
               \/ RemoveEventRowFails(w) \/ WorkerRestart(w)
        PROVE  UNCHANGED V!vars
    <2>1. CASE WorkerRestart(w)
      <3>1. archive' = archive
        BY <1>0, <2>1 DEF WorkerRestart
      <3>2. QED
        BY <2>1, <3>1, MappedVars DEF WorkerRestart
    <2>2. ASSUME NEW e \in Events, PickEvent(w, e) PROVE UNCHANGED V!vars
      BY <2>2, MappedVars DEF PickEvent
    <2>3. ASSUME NEW p \in Photos, FetchPhoto(w, p) PROVE UNCHANGED V!vars
      BY <2>3, MappedVars DEF FetchPhoto
    <2>4. CASE CycleStart(w) \/ RemoveEventRowFails(w)
      BY <2>4, MappedVars DEF CycleStart, RemoveEventRowFails
    <2>5. QED
      BY <1>1, <2>1, <2>2, <2>3, <2>4
  <1>2. CASE CompleteArchive(w)
    <2> DEFINE e == wk[w].cur
               zip == wk[w].seen[e] \cap Timely
               a == [ev |-> e, title |-> wk[w].named[e], zip |-> wk[w].seen[e]]
    <2>1. e \in Events /\ e \in Holds(w)
      BY <1>0, <1>2, NoneIsNew DEF CompleteArchive, WorkerShape, Holds
    <2>2. /\ \A x \in Workers \ {w} : archive'[x] = archive[x]
          /\ archive'[w] = archive[w] \cup {a}
      BY <1>0, <1>2 DEF CompleteArchive
    <2>3. a.ev = e /\ a.zip = wk[w].seen[e]
      OBVIOUS
    <2> HIDE DEF a
    <2>4. \A p : InArchive(p)' <=> InArchive(p) \/ p \in wk[w].seen[e]
      BY <2>2, <2>3 DEF InArchive
    <2>5. \A f : Archived(f)' <=> Archived(f) \/ f = e
      BY <2>2, <2>3 DEF Archived, ArchivedBy
    <2>6. UNCHANGED <<event, rows, files, home, acked, late, discarded, doomed>>
      BY <1>2 DEF CompleteArchive
    <2>7. Timely' = Timely /\ UNCHANGED <<Album, Gallery, Store, Withdrawn, EventNow>>
      BY <2>6 DEF Timely, Album, Gallery, Store, Withdrawn, EventNow, Exists
    <2>8. Zips' = Zips \cup zip /\ ArchivedEvents' = ArchivedEvents \cup {e}
      BY <2>1, <2>4, <2>5, <2>7 DEF Zips, ArchivedEvents
    <2>9. zip \in SUBSET V!Of(e)
      BY <2>1, TimelyPhotos DEF V!Of, VaultInv, AtHome
    <2>10. {p \in V!Of(e) : V!Wanted(p)} \subseteq zip
      <3>1. ASSUME NEW p \in Photos, Album[p] = e, V!Wanted(p) PROVE p \in zip
        <4>1. p \in Timely
          BY <2>1, <3>1, NoneIsNew DEF Album
        <4>2. OnTime(p) /\ home[p] = e
          BY <3>1, <4>1, TimelyPhotos
        <4>3. QED
          BY <2>1, <3>1, <4>1, <4>2 DEF VaultInv, SafeInv, Read
      <3>2. QED
        BY <3>1 DEF V!Of
    <2> HIDE DEF e, zip
    <2>11. V!Archive(e)
      BY <2>6, <2>7, <2>8, <2>9, <2>10 DEF V!Archive
    <2>12. QED
      BY <2>1, <2>11 DEF V!Next
  <1>3. CASE RemoveDirectory(w) \/ RemoveDirectoryFails(w)
    <2>1. /\ UNCHANGED <<event, rows, home, archive, history>>
          /\ files' \subseteq files
          /\ \A p \in files \ files' : home[p] = wk[w].cur
      BY <1>3 DEF RemoveDirectory, RemoveDirectoryFails, FilesOf
    <2>2. Archived(wk[w].cur)
      BY <1>0, <1>3 DEF RemoveDirectory, RemoveDirectoryFails, WorkerShape, Claimed,
                        VaultInv, SafeInv, OwnArchive, Archived
    <2>3. QED
      BY <2>1, <2>2, FilesErased, TimelyPhotos
  <1>4. CASE RemoveEventRow(w)
    <2>1. wk[w].pend \cup {wk[w].cur} \in SUBSET Cleared(w)
      BY <1>0, <1>4 DEF RemoveEventRow, WorkerShape, WorkerRecords, Cleared
    <2>2. QED
      BY <1>4, <2>1, FlushServes DEF RemoveEventRow
  <1>5. CASE CycleEnd(w)
    <2>1. wk[w].pend \in SUBSET Cleared(w)
      BY <1>0 DEF WorkerRecords, Cleared
    <2>2. QED
      BY <1>5, <2>1, FlushServes DEF CycleEnd
  <1>6. QED
    BY <1>1, <1>2, <1>3, <1>4, <1>5 DEF WorkerStep, Progress

LEMMA NextServes ==
  ASSUME TypeInv, VaultInv, Ephemeral = {}, [Next]_vars
  PROVE  [V!Next]_(V!vars)
  <1>1. ASSUME NEW r \in Requests, RequestAbort(r) PROVE UNCHANGED V!vars
    BY <1>1, MappedVars DEF RequestAbort, db, history
  <1>2. CASE UNCHANGED vars
    BY <1>2, MappedVars DEF vars, db, history
  <1>3. ASSUME NEW e \in Events, NEW s \in RowStates, NEW t \in Titles,
               CreateEvent(e, s, t) \/ Expire(e)
        PROVE  [V!Next]_(V!vars)
    BY <1>3, EventsServe
  <1>4. ASSUME NEW e \in Events, Expire(e) PROVE [V!Next]_(V!vars)
    <2>1. "live" \in RowStates /\ \E t : t \in Titles
      BY TitlesExist DEF RowStates
    <2>2. QED
      BY <1>3, <1>4, <2>1
  <1>5. ASSUME NEW r \in Requests, UploadStep(r) \/ ImageStep(r) \/ AdminStep(r)
        PROVE  [V!Next]_(V!vars)
    BY <1>5, UploadServes, ImageServes, AdminServes
  <1>6. ASSUME NEW w \in Workers, WorkerStep(w) PROVE [V!Next]_(V!vars)
    BY <1>6, WorkerServes
  <1>7. QED
    BY <1>1, <1>2, <1>3, <1>4, <1>5, <1>6 DEF Next

(* With archive directories that survive restarts, the server is a vault    *)
(* for the photos that are put into it in time: whatever requests, workers, *)
(* failures and restarts come between, files, rows and events go in the     *)
(* order in which nothing that is wanted is lost.                           *)
THEOREM ImplementsVault ==
  ASSUME Ephemeral = {}
  PROVE  Spec => ServesAsVault
  <1>1. Init => V!Init
    <2> SUFFICES ASSUME Init PROVE V!Init
      OBVIOUS
    <2>1. Timely = {} /\ rows = {} /\ files = {} /\ discarded = {} /\ doomed = {}
          /\ event = [e \in Events |-> "unborn"]
          /\ \A w \in Workers : archive[w] = {}
      BY DEF Init, Timely
    <2>2. EventNow = [e \in Events |-> "unborn"]
      BY <2>1 DEF EventNow, Exists, RowStates
    <2>3. QED
      BY <2>1, <2>2 DEF V!Init, Album, Gallery, Store, Zips, ArchivedEvents, Withdrawn,
                        Archived, ArchivedBy
  <1>2. Init => TypeInv /\ VaultInv
    <2> SUFFICES ASSUME Init PROVE TypeInv /\ VaultInv
      OBVIOUS
    <2>1. \A w \in Workers : Holds(w) = {} /\ archive[w] = {}
      BY DEF Init, Holds, Resting
    <2>2. FileGone /\ AtHome /\ Belated
      BY <2>1 DEF Init, FileGone, AtHome, Belated, Idle
    <2>3. QED
      BY <2>2, InitType, InitSafe DEF VaultInv
  <1>3. TypeInv /\ VaultInv /\ [Next]_vars => (TypeInv /\ VaultInv)'
    BY TypeStep, VaultInvStep
  <1>4. TypeInv /\ VaultInv /\ [Next]_vars => [V!Next]_(V!vars)
    BY NextServes
  <1>5. QED
    BY <1>1, <1>2, <1>3, <1>4, PTL DEF Spec, ServesAsVault, V!Spec

(* What a vault is good for: a photo that is wanted stays in the gallery    *)
(* with its file until it is in an archive.                                 *)
THEOREM VaultKeeps == V!Spec => []V!Kept
  <1> DEFINE I == Album \in [Photos -> Events \cup {None}] /\ V!Kept
  <1>1. V!Init => I
    BY DEF V!Init, V!Kept
  <1>2. I /\ [V!Next]_(V!vars) => I'
    <2> SUFFICES ASSUME I, [V!Next]_(V!vars) PROVE I'
      OBVIOUS
    <2>1. ASSUME NEW e \in Events, V!Create(e) \/ V!Doom(e) \/ V!Archive(e) PROVE I'
      BY <2>1 DEF V!Create, V!Doom, V!Archive, V!Kept, V!Wanted, V!Of, V!photos
    <2>2. ASSUME NEW p \in Photos, V!Withdraw(p) \/ V!Unlist(p) PROVE I'
      BY <2>2 DEF V!Withdraw, V!Unlist, V!Kept, V!Wanted, V!events
    <2>3. ASSUME NEW p \in Photos, NEW e \in Events, V!Accept(p, e) PROVE I'
      BY <2>3 DEF V!Accept, V!Kept, V!Wanted, V!events
    <2>4. ASSUME NEW P \in SUBSET Store, V!Erase(P) PROVE I'
      BY <2>4 DEF V!Erase, V!Kept, V!Wanted, V!events
    <2>5. ASSUME NEW E \in SUBSET Events, V!Remove(E) PROVE I'
      BY <2>5 DEF V!Remove, V!Kept, V!Wanted, V!Of
    <2>6. CASE UNCHANGED V!vars
      BY <2>6 DEF V!vars, V!photos, V!events, V!Kept, V!Wanted
    <2>7. QED
      BY <2>1, <2>2, <2>3, <2>4, <2>5, <2>6 DEF V!Next
  <1>3. QED
    BY <1>1, <1>2, PTL DEF V!Spec

(* In a vault an event that nobody deleted goes last, archived and empty.   *)
THEOREM VaultClears == V!Spec => []V!GoneLast
  <1> DEFINE I == /\ Album \in [Photos -> Events \cup {None}]
                  /\ EventNow \in [Events -> {"unborn", "there", "gone"}]
                  /\ V!GoneLast
  <1>1. V!Init => I
    BY DEF V!Init, V!GoneLast
  <1>2. I /\ [V!Next]_(V!vars) => I'
    <2> SUFFICES ASSUME I, [V!Next]_(V!vars) PROVE I'
      OBVIOUS
    <2>1. ASSUME NEW e \in Events, V!Create(e) \/ V!Doom(e) \/ V!Archive(e) PROVE I'
      BY <2>1 DEF V!Create, V!Doom, V!Archive, V!GoneLast, V!Of, V!photos
    <2>2. ASSUME NEW p \in Photos, V!Withdraw(p) \/ V!Unlist(p) PROVE I'
      BY <2>2 DEF V!Withdraw, V!Unlist, V!GoneLast, V!Of, V!events
    <2>3. ASSUME NEW p \in Photos, NEW e \in Events, V!Accept(p, e) PROVE I'
      BY <2>3 DEF V!Accept, V!GoneLast, V!Of, V!events
    <2>4. ASSUME NEW P \in SUBSET Store, V!Erase(P) PROVE I'
      BY <2>4 DEF V!Erase, V!GoneLast, V!Of, V!events
    <2>5. ASSUME NEW E \in SUBSET Events, V!Remove(E) PROVE I'
      BY <2>5 DEF V!Remove, V!GoneLast, V!Of
    <2>6. CASE UNCHANGED V!vars
      BY <2>6 DEF V!vars, V!photos, V!events, V!GoneLast, V!Of
    <2>7. QED
      BY <2>1, <2>2, <2>3, <2>4, <2>5, <2>6 DEF V!Next
  <1>3. QED
    BY <1>1, <1>2, PTL DEF V!Spec

(* So the server keeps what its mail promises, an event that retention      *)
(* removed has an archive, as long as the archives outlive the pods.        *)
THEOREM RemovedOnesAreArchived ==
  ASSUME Ephemeral = {}
  PROVE  Spec => []RemovedIsArchived
  <1>1. V!GoneLast => RemovedIsArchived
    BY DEF V!GoneLast, RemovedIsArchived, EventNow, ArchivedEvents, Exists, RowStates
  <1>2. Spec => V!Spec
    BY ImplementsVault DEF ServesAsVault
  <1>3. QED
    BY <1>1, <1>2, VaultClears, PTL

=============================================================================
