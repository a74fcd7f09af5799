------------------------ MODULE PhotoLifecycleProofs ------------------------
(***************************************************************************)
(* Proofs about PhotoLifecycle, for any number of events, photos, workers  *)
(* and requests.                                                           *)
(***************************************************************************)
EXTENDS PhotoLifecycle, TLAPS

-----------------------------------------------------------------------------
(* The records requests and workers hold, and the two helpers that set them. *)

LEMMA AnyTitlesType == AnyTitles \in [Events -> Titles]
  BY TitlesExist DEF AnyTitles

LEMMA IdleType == Idle \in RequestRecords
  BY DEF Idle, RequestRecords, RequestSteps

LEMMA RestingType == Resting \in WorkerRecords
  BY AnyTitlesType DEF Resting, WorkerRecords, WorkerSteps

LEMMA GiveUpType ==
  ASSUME TypeOK, NEW w \in Workers
  PROVE  GiveUp(w) \in WorkerRecords
  BY DEF TypeOK, GiveUp, WorkerRecords, WorkerSteps

LEMMA SetReqType ==
  ASSUME TypeOK, NEW r \in Requests, NEW v \in RequestRecords, SetReq(r, v)
  PROVE  req' \in [Requests -> RequestRecords]
  BY DEF TypeOK, SetReq

LEMMA SetWkType ==
  ASSUME TypeOK, NEW w \in Workers, NEW v \in WorkerRecords, SetWk(w, v)
  PROVE  wk' \in [Workers -> WorkerRecords]
  BY DEF TypeOK, SetWk

LEMMA RemoveRowsType ==
  ASSUME TypeOK, NEW E \in SUBSET Events, RemoveRows(E)
  PROVE  /\ event' \in [Events -> EventStates]
         /\ title' \in [Events -> Titles]
         /\ rows' \subseteq Photos
  BY DEF TypeOK, RemoveRows, EventStates

-----------------------------------------------------------------------------
(* Type correctness, one group of actions at a time.                        *)

(* TypeOK alone is not inductive: a stored upload has an event and a file   *)
(* name, and a worker past its choice has an event.                         *)
RequestShape(v) ==
  /\ v.at \in {"uploadChecked", "uploadStored", "updateLoaded", "deleteLoaded",
               "deleteFilesGone"} => v.ev \in Events
  /\ v.at \in {"uploadStored", "imageLoaded", "imageFileGone"}
     => v.photo \in Photos
WorkerShape(v) ==
  v.at \in {"zipping", "archived", "emptied"} => v.cur \in Events

Shaped ==
  /\ \A r \in Requests : RequestShape(req[r])
  /\ \A w \in Workers : WorkerShape(wk[w])

TypeInv == TypeOK /\ Shaped

LEMMA InitType == Init => TypeInv
  <1> SUFFICES ASSUME Init PROVE TypeInv
    OBVIOUS
  <1> USE DEF Init
  <1>1. event \in [Events -> EventStates] /\ title \in [Events -> Titles]
    BY AnyTitlesType DEF EventStates
  <1>2. req \in [Requests -> RequestRecords] /\ wk \in [Workers -> WorkerRecords]
    BY IdleType, RestingType
  <1>3. archive \in [Workers -> SUBSET Archives]
    OBVIOUS
  <1>4. home \in [Photos -> Events \cup {None}]
    OBVIOUS
  <1>5. Shaped
    BY DEF Shaped, RequestShape, WorkerShape, Idle, Resting
  <1>6. QED
    BY <1>1, <1>2, <1>3, <1>4, <1>5, BoundsAreNat DEF TypeOK, TypeInv

LEMMA UploadType ==
  ASSUME TypeInv, NEW r \in Requests, UploadStep(r)
  PROVE  TypeOK'
  <1> USE DEF TypeInv, TypeOK, db, spent, history
  <1>1. ASSUME NEW e \in Events, UploadCheck(r, e) PROVE TypeOK'
    <2>1. [Idle EXCEPT !.at = "uploadChecked", !.ev = e] \in RequestRecords
      BY IdleType DEF RequestRecords, RequestSteps
    <2>2. QED
      BY <1>1, <2>1, SetReqType DEF UploadCheck
  <1>2. ASSUME NEW p \in Photos, UploadStore(r, p) PROVE TypeOK'
    <2>1. [req[r] EXCEPT !.at = "uploadStored", !.photo = p] \in RequestRecords
      BY DEF RequestRecords, RequestSteps
    <2>2. home' \in [Photos -> Events \cup {None}]
      BY <1>2 DEF UploadStore, RequestRecords
    <2>3. QED
      BY <1>2, <2>1, <2>2, SetReqType DEF UploadStore
  <1>3. CASE UploadInsert(r)
    <2>1. req[r].photo \in Photos
      BY <1>3 DEF UploadInsert, Shaped, RequestShape, WorkerShape
    <2>2. QED
      BY <1>3, <2>1, IdleType, SetReqType DEF UploadInsert
  <1>4. CASE UploadRefused(r)
    BY <1>4, IdleType, SetReqType DEF UploadRefused
  <1>5. QED
    BY <1>1, <1>2, <1>3, <1>4 DEF UploadStep

LEMMA ImageType ==
  ASSUME TypeInv, NEW r \in Requests, ImageStep(r)
  PROVE  TypeOK'
  <1> USE DEF TypeInv, TypeOK, db, spent, history
  <1>1. ASSUME NEW p \in Photos, ImageLoad(r, p) PROVE TypeOK'
    <2>1. [Idle EXCEPT !.at = "imageLoaded", !.ev = home[p], !.photo = p]
            \in RequestRecords
      BY IdleType DEF RequestRecords, RequestSteps
    <2>2. QED
      BY <1>1, <2>1, SetReqType DEF ImageLoad
  <1>2. CASE ImageDeleteFile(r)
    <2>1. [req[r] EXCEPT !.at = "imageFileGone"] \in RequestRecords
      BY DEF RequestRecords, RequestSteps
    <2>2. QED
      BY <1>2, <2>1, SetReqType DEF ImageDeleteFile
  <1>3. CASE ImageDeleteRow(r)
    BY <1>3, IdleType, SetReqType DEF ImageDeleteRow
  <1>4. QED
    BY <1>1, <1>2, <1>3 DEF ImageStep

LEMMA LoadType ==
  ASSUME TypeOK, NEW e \in Events, NEW at \in RequestSteps
  PROVE  [Idle EXCEPT !.at = at, !.ev = e, !.seen = RowsOf(e)] \in RequestRecords
  BY IdleType DEF RequestRecords, RowsOf, TypeOK

LEMMA AdminType ==
  ASSUME TypeInv, NEW r \in Requests, AdminStep(r)
  PROVE  TypeOK'
  <1> USE DEF TypeInv, TypeOK, db, spent, history
  <1>1. ASSUME NEW e \in Events, EventUpdateLoad(r, e) PROVE TypeOK'
    BY <1>1, LoadType, SetReqType DEF EventUpdateLoad, RequestSteps
  <1>2. ASSUME NEW s \in RowStates, NEW t \in Titles, EventUpdateSave(r, s, t)
        PROVE  TypeOK'
    BY <1>2, IdleType, SetReqType DEF EventUpdateSave, EventStates
  <1>3. CASE EventUpdateConflict(r)
    BY <1>3, IdleType, SetReqType DEF EventUpdateConflict
  <1>4. ASSUME NEW e \in Events, EventDeleteLoad(r, e) PROVE TypeOK'
    BY <1>4, LoadType, SetReqType DEF EventDeleteLoad, RequestSteps
  <1>5. [req[r] EXCEPT !.at = "deleteFilesGone"] \in RequestRecords
    BY DEF RequestRecords, RequestSteps
  <1>6. CASE EventDeleteFiles(r)
    BY <1>5, <1>6, SetReqType DEF EventDeleteFiles
  <1>7. CASE EventDeleteFilesFails(r)
    BY <1>5, <1>7, SetReqType, BoundsAreNat DEF EventDeleteFilesFails
  <1>8. CASE EventDeleteRow(r)
    <2>1. req[r].ev \in Events
      BY <1>8 DEF EventDeleteRow, Shaped, RequestShape, WorkerShape
    <2>2. /\ event' \in [Events -> EventStates] /\ title' \in [Events -> Titles]
          /\ rows' \subseteq Photos
      BY <1>8, <2>1, RemoveRowsType DEF EventDeleteRow
    <2>3. QED
      BY <1>8, <2>2, IdleType, SetReqType DEF EventDeleteRow
  <1>9. QED
    BY <1>1, <1>2, <1>3, <1>4, <1>6, <1>7, <1>8 DEF AdminStep

LEMMA AbortType ==
  ASSUME TypeInv, NEW r \in Requests, RequestAbort(r)
  PROVE  TypeOK'
  BY IdleType, SetReqType, BoundsAreNat
  DEF TypeInv, TypeOK, db, spent, history, RequestAbort

LEMMA FlushType ==
  ASSUME TypeOK, NEW w \in Workers, NEW E \in SUBSET Events, Flush(w, E)
  PROVE  /\ event' \in [Events -> EventStates]
         /\ title' \in [Events -> Titles]
         /\ rows' \subseteq Photos
  BY RemoveRowsType DEF Flush, TypeOK, db

LEMMA ProgressType ==
  ASSUME TypeInv, NEW w \in Workers, Progress(w)
  PROVE  TypeOK'
  <1> USE DEF TypeInv, TypeOK, db, spent, history
  <1>0. wk[w] \in WorkerRecords
    OBVIOUS
  <1>1. CASE CycleStart(w)
    <2> DEFINE due == {e \in Events : event[e] = "expired"}
               seen == [e \in Events |-> IF e \in due THEN RowsOf(e) ELSE {}]
               named == [e \in Events |-> IF e \in due THEN title[e]
                                                       ELSE AnyTitles[e]]
    <2>1. seen \in [Events -> SUBSET Photos]
      BY DEF RowsOf
    <2>2. named \in [Events -> Titles]
      BY AnyTitlesType
    <2>3. [Resting EXCEPT !.at = "choosing", !.left = due, !.seen = seen,
                          !.named = named] \in WorkerRecords
      BY <2>1, <2>2, RestingType DEF WorkerRecords, WorkerSteps
    <2>4. QED
      BY <1>1, <2>3, SetWkType DEF CycleStart
  <1>2. ASSUME NEW e \in Events, PickEvent(w, e) PROVE TypeOK'
    <2>1. [wk[w] EXCEPT !.left = @ \ {e}, !.cur = e, !.at = "archived"]
            \in WorkerRecords
      BY <1>0 DEF WorkerRecords, WorkerSteps
    <2>2. [wk[w] EXCEPT !.left = @ \ {e}, !.cur = e, !.at = "zipping",
                        !.fetch = wk[w].seen[e]] \in WorkerRecords
      BY <1>0 DEF WorkerRecords, WorkerSteps
    <2>3. wk' \in [Workers -> WorkerRecords]
      BY <1>2, <2>1, <2>2, SetWkType DEF PickEvent
    <2>4. QED
      BY <1>2, <2>3 DEF PickEvent
  <1>3. ASSUME NEW p \in Photos, FetchPhoto(w, p) PROVE TypeOK'
    <2>1. [wk[w] EXCEPT !.fetch = @ \ {p}] \in WorkerRecords
      BY <1>0 DEF WorkerRecords
    <2>2. wk' \in [Workers -> WorkerRecords]
      BY <1>3, <2>1, GiveUpType, SetWkType DEF FetchPhoto
    <2>3. QED
      BY <1>3, <2>2 DEF FetchPhoto
  <1>4. CASE CompleteArchive(w)
    <2>1. [wk[w] EXCEPT !.at = "archived"] \in WorkerRecords
      BY <1>0 DEF WorkerRecords, WorkerSteps
    <2>2. wk[w].cur \in Events
      BY <1>4 DEF CompleteArchive, Shaped, RequestShape, WorkerShape
    <2>3. [ev |-> wk[w].cur, title |-> wk[w].named[wk[w].cur],
           zip |-> wk[w].seen[wk[w].cur]] \in Archives
      BY <1>0, <2>2 DEF WorkerRecords, Archives
    <2>4. archive' \in [Workers -> SUBSET Archives]
      BY <1>4, <2>3 DEF CompleteArchive
    <2>5. wk' \in [Workers -> WorkerRecords]
      BY <1>4, <2>1, SetWkType DEF CompleteArchive
    <2>6. QED
      BY <1>4, <2>4, <2>5 DEF CompleteArchive
  <1>5. CASE RemoveDirectory(w)
    <2>1. [wk[w] EXCEPT !.at = "emptied"] \in WorkerRecords
      BY <1>0 DEF WorkerRecords, WorkerSteps
    <2>2. QED
      BY <1>5, <2>1, SetWkType DEF RemoveDirectory
  <1>6. CASE RemoveEventRow(w)
    <2> DEFINE pend == wk[w].pend \cup {wk[w].cur}
    <2>1. pend \in SUBSET Events
      BY <1>0, <1>6 DEF RemoveEventRow, Shaped, RequestShape, WorkerShape, WorkerRecords
    <2>2. [GiveUp(w) EXCEPT !.pend = IF \A e \in pend : Deletable(e, wk[w].seen[e])
                                     THEN {} ELSE pend] \in WorkerRecords
      BY <2>1, GiveUpType DEF WorkerRecords
    <2>3. /\ event' \in [Events -> EventStates] /\ title' \in [Events -> Titles]
          /\ rows' \subseteq Photos
      BY <1>6, <2>1, FlushType DEF RemoveEventRow
    <2>4. wk' \in [Workers -> WorkerRecords]
      BY <1>6, <2>2, SetWkType DEF RemoveEventRow
    <2>5. QED
      BY <1>6, <2>3, <2>4 DEF RemoveEventRow
  <1>7. CASE CycleEnd(w)
    <2>1. /\ event' \in [Events -> EventStates] /\ title' \in [Events -> Titles]
          /\ rows' \subseteq Photos
      BY <1>0, <1>7, FlushType DEF CycleEnd, WorkerRecords
    <2>2. QED
      BY <1>7, <2>1, RestingType, SetWkType DEF CycleEnd
  <1>8. QED
    BY <1>1, <1>2, <1>3, <1>4, <1>5, <1>6, <1>7 DEF Progress

LEMMA WorkerType ==
  ASSUME TypeInv, NEW w \in Workers, WorkerStep(w)
  PROVE  TypeOK'
  <1> USE DEF TypeInv, TypeOK, db, spent, history
  <1>1. CASE Progress(w)
    BY <1>1, ProgressType
  <1>2. CASE RemoveDirectoryFails(w)
    BY <1>2, GiveUpType, SetWkType, BoundsAreNat DEF RemoveDirectoryFails
  <1>3. CASE RemoveEventRowFails(w)
    <2>0. GiveUp(w).pend \cup {wk[w].cur} \in SUBSET Events
      BY <1>3, GiveUpType DEF RemoveEventRowFails, Shaped, RequestShape, WorkerShape, WorkerRecords
    <2>1. [GiveUp(w) EXCEPT !.pend = @ \cup {wk[w].cur}] \in WorkerRecords
      BY <2>0, GiveUpType DEF WorkerRecords
    <2>2. wk' \in [Workers -> WorkerRecords]
      BY <1>3, <2>1, SetWkType DEF RemoveEventRowFails
    <2>3. QED
      BY <1>3, <2>2, BoundsAreNat DEF RemoveEventRowFails
  <1>4. CASE WorkerRestart(w)
    BY <1>4, RestingType, SetWkType, BoundsAreNat DEF WorkerRestart
  <1>5. QED
    BY <1>1, <1>2, <1>3, <1>4 DEF WorkerStep

(* What the two helpers change.                                             *)
LEMMA SetReqEffect ==
  ASSUME TypeOK, NEW r \in Requests, NEW v, SetReq(r, v), NEW q \in Requests
  PROVE  req'[q] = IF q = r THEN v ELSE req[q]
  BY DEF TypeOK, SetReq

LEMMA SetWkEffect ==
  ASSUME TypeOK, NEW w \in Workers, NEW v, SetWk(w, v), NEW x \in Workers
  PROVE  wk'[x] = IF x = w THEN v ELSE wk[x]
  BY DEF TypeOK, SetWk

LEMMA RequestShaped ==
  ASSUME TypeInv, NEW r \in Requests,
         UploadStep(r) \/ ImageStep(r) \/ AdminStep(r) \/ RequestAbort(r)
  PROVE  Shaped'
  <1> USE DEF TypeInv, spent, db, history
  <1>1. ASSUME NEW v, SetReq(r, v), RequestShape(v), wk' = wk PROVE Shaped'
    BY <1>1, SetReqEffect DEF Shaped
  <1>2. req[r] \in RequestRecords /\ RequestShape(req[r])
    BY DEF TypeOK, Shaped
  <1>3. RequestShape(Idle)
    BY DEF RequestShape, Idle
  <1>4. ASSUME NEW e \in Events, UploadCheck(r, e) PROVE Shaped'
    <2>1. RequestShape([Idle EXCEPT !.at = "uploadChecked", !.ev = e])
      BY DEF RequestShape, Idle
    <2>2. QED
      BY <1>1, <1>4, <2>1 DEF UploadCheck
  <1>5. ASSUME NEW p \in Photos, UploadStore(r, p) PROVE Shaped'
    <2>1. RequestShape([req[r] EXCEPT !.at = "uploadStored", !.photo = p])
      BY <1>2, <1>5 DEF UploadStore, RequestShape, RequestRecords
    <2>2. QED
      BY <1>1, <1>5, <2>1 DEF UploadStore
  <1>6. ASSUME NEW p \in Photos, ImageLoad(r, p) PROVE Shaped'
    <2>1. RequestShape([Idle EXCEPT !.at = "imageLoaded", !.ev = home[p],
                                    !.photo = p])
      BY DEF RequestShape, Idle
    <2>2. QED
      BY <1>1, <1>6, <2>1 DEF ImageLoad
  <1>7. CASE ImageDeleteFile(r)
    <2>1. RequestShape([req[r] EXCEPT !.at = "imageFileGone"])
      BY <1>2, <1>7 DEF ImageDeleteFile, RequestShape, RequestRecords
    <2>2. QED
      BY <1>1, <1>7, <2>1 DEF ImageDeleteFile
  <1>8. ASSUME NEW e \in Events, EventUpdateLoad(r, e) \/ EventDeleteLoad(r, e)
        PROVE  Shaped'
    <2>1. ASSUME NEW at \in {"updateLoaded", "deleteLoaded"}
          PROVE  RequestShape([Idle EXCEPT !.at = at, !.ev = e, !.seen = RowsOf(e)])
      BY DEF RequestShape, Idle
    <2>2. QED
      BY <1>1, <1>8, <2>1 DEF EventUpdateLoad, EventDeleteLoad
  <1>9. CASE EventDeleteFiles(r) \/ EventDeleteFilesFails(r)
    <2>1. RequestShape([req[r] EXCEPT !.at = "deleteFilesGone"])
      BY <1>2, <1>9
      DEF EventDeleteFiles, EventDeleteFilesFails, RequestShape, RequestRecords
    <2>2. QED
      BY <1>1, <1>9, <2>1 DEF EventDeleteFiles, EventDeleteFilesFails
  <1>10. CASE \/ UploadInsert(r) \/ UploadRefused(r) \/ ImageDeleteRow(r)
              \/ EventUpdateConflict(r) \/ EventDeleteRow(r) \/ RequestAbort(r)
              \/ \E s \in RowStates, t \in Titles : EventUpdateSave(r, s, t)
    BY <1>1, <1>3, <1>10
    DEF UploadInsert, UploadRefused, ImageDeleteRow, EventUpdateConflict,
        EventDeleteRow, RequestAbort, EventUpdateSave
  <1>11. QED
    BY <1>4, <1>5, <1>6, <1>7, <1>8, <1>9, <1>10
    DEF UploadStep, ImageStep, AdminStep

LEMMA WorkerShaped ==
  ASSUME TypeInv, NEW w \in Workers, WorkerStep(w)
  PROVE  Shaped'
  <1> USE DEF TypeInv, spent, db, history
  <1>1. ASSUME NEW v, SetWk(w, v), WorkerShape(v), req' = req PROVE Shaped'
    BY <1>1, SetWkEffect DEF Shaped
  <1>2. wk[w] \in WorkerRecords /\ WorkerShape(wk[w])
    BY DEF TypeOK, Shaped
  <1>3. WorkerShape(Resting) /\ WorkerShape(GiveUp(w))
    BY <1>2 DEF WorkerShape, Resting, GiveUp, WorkerRecords
  <1>4. ASSUME NEW pend PROVE WorkerShape([GiveUp(w) EXCEPT !.pend = pend])
    BY <1>2 DEF WorkerShape, GiveUp, WorkerRecords
  <1>5. CASE CycleStart(w)
    <2>1. ASSUME NEW left, NEW seen, NEW named
          PROVE  WorkerShape([Resting EXCEPT !.at = "choosing", !.left = left,
                                !.seen = seen, !.named = named])
      BY DEF WorkerShape, Resting
    <2>2. QED
      BY <1>1, <1>5, <2>1 DEF CycleStart
  <1>6. ASSUME NEW e \in Events, PickEvent(w, e) PROVE Shaped'
    <2>1. /\ WorkerShape([wk[w] EXCEPT !.left = @ \ {e}, !.cur = e,
                                       !.at = "archived"])
          /\ WorkerShape([wk[w] EXCEPT !.left = @ \ {e}, !.cur = e,
                            !.at = "zipping", !.fetch = wk[w].seen[e]])
      BY <1>2 DEF WorkerShape, WorkerRecords
    <2>2. QED
      BY <1>1, <1>6, <2>1 DEF PickEvent
  <1>7. ASSUME NEW p \in Photos, FetchPhoto(w, p) PROVE Shaped'
    <2>1. WorkerShape([wk[w] EXCEPT !.fetch = @ \ {p}])
      BY <1>2 DEF WorkerShape, WorkerRecords
    <2>2. QED
      BY <1>1, <1>3, <1>7, <2>1 DEF FetchPhoto
  <1>8. CASE CompleteArchive(w)
    <2>1. WorkerShape([wk[w] EXCEPT !.at = "archived"])
      BY <1>2, <1>8 DEF CompleteArchive, WorkerShape, WorkerRecords
    <2>2. QED
      BY <1>1, <1>8, <2>1 DEF CompleteArchive
  <1>9. CASE RemoveDirectory(w)
    <2>1. WorkerShape([wk[w] EXCEPT !.at = "emptied"])
      BY <1>2, <1>9 DEF RemoveDirectory, WorkerShape, WorkerRecords
    <2>2. QED
      BY <1>1, <1>9, <2>1 DEF RemoveDirectory
  <1>10. CASE RemoveEventRow(w) \/ RemoveEventRowFails(w)
    BY <1>1, <1>4, <1>10 DEF RemoveEventRow, RemoveEventRowFails
  <1>11. CASE CycleEnd(w) \/ RemoveDirectoryFails(w) \/ WorkerRestart(w)
    BY <1>1, <1>3, <1>11 DEF CycleEnd, RemoveDirectoryFails, WorkerRestart
  <1>12. QED
    BY <1>5, <1>6, <1>7, <1>8, <1>9, <1>10, <1>11 DEF WorkerStep, Progress

LEMMA TypeStep == TypeInv /\ [Next]_vars => TypeInv'
  <1> SUFFICES ASSUME TypeInv, [Next]_vars PROVE TypeInv'
    OBVIOUS
  <1>1. ASSUME NEW e \in Events, NEW s \in RowStates, NEW t \in Titles,
               CreateEvent(e, s, t)
        PROVE  TypeInv'
    <2>1. event' \in [Events -> EventStates]
      BY <1>1 DEF CreateEvent, TypeInv, TypeOK, EventStates
    <2>2. QED
      BY <1>1, <2>1 DEF CreateEvent, TypeInv, TypeOK, Shaped, spent, history
  <1>2. ASSUME NEW e \in Events, Expire(e) PROVE TypeInv'
    BY <1>2 DEF Expire, TypeInv, TypeOK, Shaped, EventStates, RowStates,
                spent, history
  <1>3. ASSUME NEW r \in Requests, UploadStep(r) PROVE TypeInv'
    BY <1>3, UploadType, RequestShaped DEF TypeInv
  <1>4. ASSUME NEW r \in Requests, ImageStep(r) PROVE TypeInv'
    BY <1>4, ImageType, RequestShaped DEF TypeInv
  <1>5. ASSUME NEW r \in Requests, AdminStep(r) PROVE TypeInv'
    BY <1>5, AdminType, RequestShaped DEF TypeInv
  <1>6. ASSUME NEW r \in Requests, RequestAbort(r) PROVE TypeInv'
    BY <1>6, AbortType, RequestShaped DEF TypeInv
  <1>7. ASSUME NEW w \in Workers, WorkerStep(w) PROVE TypeInv'
    BY <1>7, WorkerType, WorkerShaped DEF TypeInv
  <1>8. CASE UNCHANGED vars
    BY <1>8 DEF TypeInv, TypeOK, Shaped, vars, db, spent, history
  <1>9. QED
    BY <1>1, <1>2, <1>3, <1>4, <1>5, <1>6, <1>7, <1>8 DEF Next

LEMMA TypeInvariant == Spec => []TypeInv
  BY InitType, TypeStep, PTL DEF Spec

(* Every variable stays in the set of values the code can give it, whatever *)
(* requests and workers interleave.                                         *)
THEOREM TypeCorrect == Spec => []TypeOK
  BY TypeInvariant, PTL DEF TypeInv

=============================================================================
