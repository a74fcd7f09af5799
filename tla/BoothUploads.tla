---------------------------- MODULE BoothUploads ----------------------------
(***************************************************************************)
(* A booth's runner at work: what its watcher, its upload loop and its     *)
(* heartbeat loop do with the pictures that the camera writes and with the *)
(* event that the admin assigns. BoothRuntime models how runners come and  *)
(* go; here one starts and stops as a whole.                               *)
(*                                                                         *)
(* The three share, without a lock, the files that are scheduled, the      *)
(* config that was read last, and the status that heartbeats report.       *)
(***************************************************************************)
EXTENDS Naturals, Sequences, FiniteSets

CONSTANTS
  Files,        \* pictures of a supported type
  Weddings,     \* events
  RefreshEvery, \* heartbeats from one reading of the config to the next
  Pauses,       \* may a picture look settled that is still being written
  MaxInputs,    \* bound: what cameras, admins, operators and faults do
  None          \* no event, no file

ASSUME NoneIsNothing == None \notin Files \cup Weddings
ASSUME HeartbeatsCount == RefreshEvery \in Nat \ {0}
ASSUME PausesOrNot == Pauses \in BOOLEAN
ASSUME InputsCount == MaxInputs \in Nat

VARIABLES
  disk,         \* the files in the watch directory
  note,         \* notifications of each file that are not delivered yet
  watch,        \* the file that a callback of the watcher has in its hand
  scheduled,    \* _scheduledFiles
  queue,        \* _uploadQueue
  up,           \* the upload loop
  beat, count,  \* the heartbeat loop, and heartbeatCount modulo RefreshEvery
  belief,       \* the event of _runtimeConfig
  status,       \* _status
  running,      \* is there a runner
  assigned,     \* server: the event of the device
  photo,        \* server: what it stored of each picture
  excused,      \* history: pictures whose upload failed or was cut off
  left          \* inputs that may still come

schedule == <<watch, scheduled, queue, up>>
config == <<beat, count, belief>>
world == <<disk, note, assigned>>
vars == <<world, schedule, config, status, running, photo, excused, left>>

Waiting == [at |-> "waiting", file |-> None, aim |-> None, whole |-> FALSE]
Resting == [at |-> "resting", got |-> None]
Asking == [at |-> "asking", got |-> None]

Init ==
  /\ disk = [f \in Files |-> "absent"]
  /\ note = [f \in Files |-> 0]
  /\ watch = None /\ scheduled = {} /\ queue = <<>> /\ up = Waiting
  /\ beat = Resting /\ count = 0 /\ belief = None
  /\ status = "idle" /\ running = FALSE
  /\ assigned \in Weddings \cup {None}
  /\ photo = [f \in Files |-> {}]
  /\ excused = {}
  /\ left = MaxInputs

Spend == left > 0 /\ left' = left - 1

OnDisk(f) == disk[f] \in {"growing", "finished"}

-----------------------------------------------------------------------------
(* The camera's program writes a file, from its creation to its last byte.  *)
(* The watcher hears of it when there is one.                               *)
Write(f, state) ==
  /\ Spend
  /\ disk[f] \in {"absent", "growing"}
  /\ disk' = [disk EXCEPT ![f] = state]
  /\ note' = [note EXCEPT ![f] = IF running THEN @ + 1 ELSE @]
  /\ UNCHANGED <<schedule, config, status, running, assigned, photo, excused>>

Remove(f) ==
  /\ Spend
  /\ OnDisk(f)
  /\ disk' = [disk EXCEPT ![f] = "removed"]
  /\ UNCHANGED <<note, schedule, config, status, running, assigned, photo, excused>>

AssignEvent(e) ==
  /\ Spend
  /\ assigned' = e
  /\ UNCHANGED <<disk, note, schedule, config, status, running, photo, excused>>

(* RunAsync reads the config, then starts the loops and the watcher, which  *)
(* knows nothing of files that are there already.                           *)
Start ==
  /\ Spend
  /\ ~running
  /\ running' = TRUE
  /\ belief' = assigned
  /\ beat' = Asking
  /\ UNCHANGED <<world, schedule, count, status, photo, excused>>

(* The runner is cancelled, or its process ends: its queue goes with it. A  *)
(* next one has everything new.                                             *)
Stop ==
  /\ Spend
  /\ running
  /\ running' = FALSE
  /\ watch' = None /\ scheduled' = {} /\ queue' = <<>> /\ up' = Waiting
  /\ beat' = Resting /\ count' = 0 /\ belief' = None
  /\ status' = "idle"
  /\ note' = [f \in Files |-> 0]
  /\ excused' = excused \cup scheduled \cup {f \in Files : note[f] > 0}
  /\ UNCHANGED <<disk, assigned, photo>>

-----------------------------------------------------------------------------
(* Mutant: every notification schedules its file.                           *)
NoticeAgain(f) ==
  /\ watch = None /\ note[f] > 0
  /\ note' = [note EXCEPT ![f] = @ - 1]
  /\ IF OnDisk(f)
     THEN scheduled' = scheduled \cup {f} /\ watch' = f
     ELSE UNCHANGED <<watch, scheduled>>
  /\ UNCHANGED <<disk, queue, up, config, status, running, assigned, photo, excused, left>>

(* QueueIfSupported, up to TryAdd: a file that is scheduled is not scheduled*)
(* again.                                                                   *)
Notice(f) ==
  /\ watch = None /\ note[f] > 0
  /\ note' = [note EXCEPT ![f] = @ - 1]
  /\ IF OnDisk(f) /\ f \notin scheduled
     THEN scheduled' = scheduled \cup {f} /\ watch' = f
     ELSE UNCHANGED <<watch, scheduled>>
  /\ UNCHANGED <<disk, queue, up, config, status, running, assigned, photo, excused, left>>

(* ... and from TryWrite.                                                   *)
Enqueue ==
  /\ watch # None
  /\ queue' = Append(queue, watch)
  /\ watch' = None
  /\ UNCHANGED <<world, scheduled, up, config, status, running, photo, excused, left>>

-----------------------------------------------------------------------------
InLoop(rec) ==
  /\ up' = rec
  /\ UNCHANGED <<world, watch, scheduled, config, running, excused>>

Take ==
  /\ up.at = "waiting" /\ queue # <<>>
  /\ queue' = Tail(queue)
  /\ InLoop([Waiting EXCEPT !.at = "taken", !.file = Head(queue)])
  /\ UNCHANGED <<status, photo, left>>

(* Mutant: without an event, the upload is tried all the same.              *)
AimAnyway ==
  /\ up.at = "taken" /\ OnDisk(up.file)
  /\ InLoop([up EXCEPT !.at = "settling", !.aim = belief])
  /\ UNCHANGED <<queue, status, photo, left>>

(* UploadSingleFileAsync takes the event that the booth knows of, and waits *)
(* for the file to settle.                                                  *)
Aim ==
  /\ up.at = "taken" /\ belief # None /\ OnDisk(up.file)
  /\ InLoop([up EXCEPT !.at = "settling", !.aim = belief])
  /\ UNCHANGED <<queue, status, photo, left>>

(* Twice the same length, and nobody else has the file open.                *)
Settled ==
  /\ up.at = "settling"
  /\ \/ disk[up.file] = "finished"
     \/ Pauses /\ disk[up.file] = "growing"
  /\ InLoop([up EXCEPT !.at = "reading"])
  /\ status' = "active"
  /\ UNCHANGED <<queue, photo, left>>

ReadFile ==
  /\ up.at = "reading" /\ OnDisk(up.file)
  /\ InLoop([up EXCEPT !.at = "sending", !.whole = (disk[up.file] = "finished")])
  /\ UNCHANGED <<queue, status, photo, left>>

(* UploadDeviceGuestImageAsync stores it for the event the device has, but  *)
(* only if that is the event the booth takes it to be.                      *)
ServerStores ==
  /\ up.at = "sending" /\ up.aim = assigned
  /\ photo' = [photo EXCEPT ![up.file] = @ \cup {[of |-> assigned, whole |-> up.whole]}]
  /\ InLoop([up EXCEPT !.at = "stored"])
  /\ UNCHANGED <<queue, status, left>>

(* The finally of the loop: the file may be scheduled again.                *)
Done(failed) ==
  /\ up' = Waiting
  /\ scheduled' = scheduled \ {up.file}
  /\ excused' = IF failed THEN excused \cup {up.file} ELSE excused
  /\ UNCHANGED <<world, watch, queue, config, running, photo>>

Uploaded ==
  /\ up.at = "stored"
  /\ Done(FALSE)
  /\ status' = "idle"
  /\ UNCHANGED left

(* No event, or no file; the upload is over before it began.                *)
NothingToSend ==
  /\ up.at = "taken"
  /\ belief = None \/ ~OnDisk(up.file)
  /\ Done(TRUE)
  /\ UNCHANGED <<status, left>>

(* Mutant: only a file that is gone times out.                              *)
NeverSettlesGone ==
  /\ up.at = "settling"
  /\ ~OnDisk(up.file)
  /\ Done(TRUE)
  /\ UNCHANGED <<status, left>>

(* WaitForStableFileAsync gives up after twenty looks, at times just before *)
(* the one that would have found the file as it was.                        *)
NeverSettles ==
  /\ up.at = "settling"
  /\ IF disk[up.file] = "finished" THEN Spend ELSE UNCHANGED left
  /\ Done(TRUE)
  /\ UNCHANGED status

(* The file is gone, the server refuses it, or there is no answer. What is  *)
(* not the booth's doing is an input.                                       *)
UploadFails ==
  /\ \/ up.at = "reading" /\ ~OnDisk(up.file) /\ UNCHANGED left
     \/ up.at = "sending" /\ up.aim # assigned /\ UNCHANGED left
     \/ up.at \in {"sending", "stored"} /\ Spend
  /\ Done(TRUE)
  /\ status' = "idle"

UploadLoop ==
  \/ Take \/ Aim \/ Settled \/ ReadFile \/ ServerStores \/ Uploaded
  \/ NothingToSend \/ NeverSettles \/ UploadFails

-----------------------------------------------------------------------------
InBeat(rec) ==
  /\ beat' = rec
  /\ UNCHANGED <<world, schedule, running, photo, excused>>

(* The server answers GetConfigAsync; the answer takes its time.            *)
ReadConfig ==
  /\ beat.at = "asking"
  /\ InBeat([at |-> "told", got |-> assigned])
  /\ UNCHANGED <<count, belief, status, left>>

RefreshRuntimeConfig ==
  /\ beat.at = "told"
  /\ belief' = beat.got
  /\ InBeat([Resting EXCEPT !.at = "sending"])
  /\ UNCHANGED <<count, status, left>>

(* Mutant: the config is read by the first heartbeat only.                  *)
SendHeartbeatOnce ==
  /\ beat.at = "sending"
  /\ count' = 1
  /\ InBeat(Resting)
  /\ UNCHANGED <<belief, status, left>>

SendHeartbeat ==
  /\ beat.at = "sending"
  /\ count' = (count + 1) % RefreshEvery
  /\ InBeat(Resting)
  /\ UNCHANGED <<belief, status, left>>

HeartbeatFails ==
  /\ Spend
  /\ beat.at \in {"asking", "told", "sending"}
  /\ InBeat(Resting)
  /\ status' = "error"
  /\ UNCHANGED <<count, belief>>

(* Mutant: a status of error stays.                                         *)
NextHeartbeatKeeps ==
  /\ running /\ beat.at = "resting"
  /\ InBeat([Resting EXCEPT !.at = IF count = 0 THEN "asking" ELSE "sending"])
  /\ UNCHANGED <<count, belief, status, left>>

(* The delay is over.                                                       *)
NextHeartbeat ==
  /\ running /\ beat.at = "resting"
  /\ InBeat([Resting EXCEPT !.at = IF count = 0 THEN "asking" ELSE "sending"])
  /\ status' = IF status = "error" THEN "idle" ELSE status
  /\ UNCHANGED <<count, belief, left>>

HeartbeatLoop ==
  \/ ReadConfig \/ RefreshRuntimeConfig \/ SendHeartbeat \/ HeartbeatFails
  \/ NextHeartbeat

-----------------------------------------------------------------------------
Watcher == Enqueue \/ \E f \in Files : Notice(f)

Surroundings ==
  \/ \E f \in Files : Write(f, "growing") \/ Write(f, "finished") \/ Remove(f)
  \/ \E e \in Weddings \cup {None} : AssignEvent(e)
  \/ Start \/ Stop

Next == Surroundings \/ Watcher \/ UploadLoop \/ HeartbeatLoop

(* The loops of a runner and its watcher go on; every call is answered or   *)
(* ends by the timeout of the client.                                       *)
Fairness ==
  /\ WF_vars(Watcher) /\ WF_vars(UploadLoop) /\ WF_vars(HeartbeatLoop)

Spec == Init /\ [][Next]_vars

FairSpec == Spec /\ Fairness

-----------------------------------------------------------------------------
Uploads ==
  [at : {"waiting", "taken", "settling", "reading", "sending", "stored"},
   file : Files \cup {None}, aim : Weddings \cup {None}, whole : BOOLEAN]

(* The variables stay in the sets of values the code can give them, and a   *)
(* picture is stored for an event.                                          *)
TypeOK ==
  /\ disk \in [Files -> {"absent", "growing", "finished", "removed"}]
  /\ note \in [Files -> Nat]
  /\ watch \in Files \cup {None}
  /\ scheduled \in SUBSET Files
  /\ queue \in Seq(Files)
  /\ up \in Uploads
  /\ beat \in [at : {"resting", "asking", "told", "sending"},
               got : Weddings \cup {None}]
  /\ count \in 0..(RefreshEvery - 1)
  /\ belief \in Weddings \cup {None}
  /\ status \in {"idle", "active", "error"}
  /\ running \in BOOLEAN
  /\ assigned \in Weddings \cup {None}
  /\ photo \in [Files -> SUBSET [of : Weddings, whole : BOOLEAN]]
  /\ excused \in SUBSET Files
  /\ left \in 0..MaxInputs

Queued == {queue[i] : i \in DOMAIN queue}

(* A file that is scheduled is in one place: in the hand of the watcher, in *)
(* the queue once, or with the upload loop. None is uploaded twice for one  *)
(* entry, and none is forgotten with its entry left, which would keep its   *)
(* later notifications out for ever.                                        *)
ScheduledOnce ==
  /\ scheduled = Queued \cup ({watch, up.file} \ {None})
  /\ \A i, j \in DOMAIN queue : queue[i] = queue[j] => i = j
  /\ watch \notin Queued /\ up.file \notin Queued
  /\ watch # None => watch # up.file

(* A picture that is finished, and of which the watcher hears, is on the    *)
(* server as it is, unless it was removed, its upload failed, or the runner *)
(* stopped: no other file keeps it waiting for ever, and no notification    *)
(* that comes while it is uploaded matters.                                 *)
FinishedAreUploaded ==
  \A f \in Files :
    note[f] > 0 /\ disk[f] = "finished" ~>
      (\E p \in photo[f] : p.whole) \/ f \in excused \/ disk[f] = "removed"

(* A runner comes to know the event of its device, although it reads the    *)
(* config now and then only, and heartbeats fail.                           *)
AssignmentArrives == <>[](running => belief = assigned)

(* Two loops write the status, each over what the other wrote: with nothing *)
(* going on any more, it is idle.                                           *)
StatusComesToRest == <>[](status = "idle")

(* What the booth says when it has no event: uploads wait for one.          *)
UploadsWait ==
  [][\A f \in scheduled \ scheduled' :
       running' /\ disk[f] = "finished" => belief # None]_vars

=============================================================================
