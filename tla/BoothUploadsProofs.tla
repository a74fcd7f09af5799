------------------------- MODULE BoothUploadsProofs -------------------------
(***************************************************************************)
(* Proofs about BoothUploads: type correctness, and that a scheduled file  *)
(* is in one place.                                                        *)
(***************************************************************************)
EXTENDS BoothUploads, TLAPS

(* What the upload loop has in its hand at each of its points.              *)
Handed ==
  /\ IF up.at = "waiting" THEN up.file = None ELSE up.file \in Files
  /\ up.at \in {"settling", "reading", "sending", "stored"} => up.aim \in Weddings

TypeInv == TypeOK /\ Handed

LEMMA TypeInit == Init => TypeInv
<1> SUFFICES ASSUME Init PROVE TypeInv
  OBVIOUS
<1>1. up \in Uploads /\ Handed
  BY DEF Init, Uploads, Waiting, Handed
<1>2. count \in 0..(RefreshEvery - 1) /\ left \in 0..MaxInputs
  BY HeartbeatsCount, InputsCount DEF Init
<1>3. queue \in Seq(Files)
  BY DEF Init
<1> QED
  BY <1>1, <1>2, <1>3 DEF Init, TypeInv, TypeOK, Resting

LEMMA SpendTypes ==
  ASSUME TypeOK, Spend
  PROVE  left' \in 0..MaxInputs
BY InputsCount DEF TypeOK, Spend

LEMMA SurroundingsType ==
  ASSUME TypeInv, Surroundings
  PROVE  TypeInv'
<1> USE DEF TypeInv, TypeOK, Handed, world, schedule, config
<1>1. left' \in 0..MaxInputs
  BY SpendTypes DEF Surroundings, Write, Remove, AssignEvent, Start, Stop
<1>2. ASSUME NEW f \in Files, NEW s \in {"growing", "finished"}, Write(f, s)
      PROVE  TypeInv'
  <2>1. note' \in [Files -> Nat]
    BY <1>2 DEF Write
  <2> QED
    BY <1>1, <1>2, <2>1 DEF Write, Uploads
<1>3. ASSUME NEW f \in Files, Remove(f) PROVE TypeInv'
  BY <1>1, <1>3 DEF Remove, Uploads
<1>4. ASSUME NEW e \in Weddings \cup {None}, AssignEvent(e) PROVE TypeInv'
  BY <1>1, <1>4 DEF AssignEvent, Uploads
<1>5. CASE Start
  BY <1>1, <1>5 DEF Start, Uploads, Asking
<1>6. CASE Stop
  <2>1. excused' \in SUBSET Files
    BY <1>6 DEF Stop
  <2>2. up' \in Uploads /\ up'.at = "waiting" /\ up'.file = None
    BY <1>6 DEF Stop, Uploads, Waiting
  <2>3. queue' \in Seq(Files) /\ note' \in [Files -> Nat]
    BY <1>6 DEF Stop
  <2>4. count' \in 0..(RefreshEvery - 1)
    BY <1>6, HeartbeatsCount DEF Stop
  <2> QED
    BY <1>1, <1>6, <2>1, <2>2, <2>3, <2>4 DEF Stop, Resting
<1> QED
  BY <1>2, <1>3, <1>4, <1>5, <1>6 DEF Surroundings

LEMMA WatcherType ==
  ASSUME TypeInv, Watcher
  PROVE  TypeInv'
<1> USE DEF TypeInv, TypeOK, Handed, world, config
<1>1. ASSUME NEW f \in Files, Notice(f) PROVE TypeInv'
  <2>1. note' \in [Files -> Nat]
    BY <1>1 DEF Notice
  <2>2. scheduled' \in SUBSET Files /\ watch' \in Files \cup {None}
    BY <1>1 DEF Notice
  <2> QED
    BY <1>1, <2>1, <2>2 DEF Notice, Uploads
<1>2. CASE Enqueue
  <2>1. queue' \in Seq(Files)
    BY <1>2 DEF Enqueue
  <2> QED
    BY <1>2, <2>1 DEF Enqueue, Uploads
<1> QED
  BY <1>1, <1>2 DEF Watcher

LEMMA DoneTypes ==
  ASSUME TypeInv, NEW b \in BOOLEAN, Done(b), up.at # "waiting", UNCHANGED left \/ Spend,
         status' \in {"idle", status}
  PROVE  TypeInv'
<1> USE DEF TypeInv, TypeOK, Handed, world, config
<1>1. excused' \in SUBSET Files /\ scheduled' \in SUBSET Files
  BY DEF Done
<1>2. up' \in Uploads /\ up'.at = "waiting" /\ up'.file = None
  BY DEF Done, Uploads, Waiting
<1>3. left' \in 0..MaxInputs
  BY SpendTypes
<1> QED
  BY <1>1, <1>2, <1>3 DEF Done

(* The steps of the loop that end with the file in hand.                    *)
LEMMA EndsAreDone ==
  ASSUME Uploaded \/ NothingToSend \/ NeverSettles \/ UploadFails
  PROVE  /\ up.at # "waiting"
         /\ \E b \in BOOLEAN : Done(b)
         /\ UNCHANGED left \/ Spend
         /\ status' \in {"idle", status}
<1>1. CASE Uploaded
  BY <1>1 DEF Uploaded
<1>2. CASE NothingToSend
  BY <1>2 DEF NothingToSend
<1>3. CASE NeverSettles
  BY <1>3 DEF NeverSettles
<1>4. CASE UploadFails
  BY <1>4 DEF UploadFails
<1> QED
  BY <1>1, <1>2, <1>3, <1>4

LEMMA UploadLoopType ==
  ASSUME TypeInv, UploadLoop
  PROVE  TypeInv'
<1> USE DEF TypeInv, TypeOK, Handed, world, config
<1>1. CASE Take
  <2>1. Head(queue) \in Files /\ queue' \in Seq(Files)
    BY <1>1 DEF Take
  <2>2. up' = [at |-> "taken", file |-> Head(queue), aim |-> None, whole |-> FALSE]
    BY <1>1 DEF Take, InLoop, Waiting
  <2> QED
    <3>1. up' \in Uploads
      BY <2>1, <2>2 DEF Uploads
    <3>2. up'.at = "taken" /\ up'.file \in Files
      BY <2>1, <2>2
    <3> QED
      BY <1>1, <2>1, <3>1, <3>2 DEF Take, InLoop
<1>2. CASE Aim
  <2>1. up' = [up EXCEPT !.at = "settling", !.aim = belief] /\ belief \in Weddings
    BY <1>2 DEF Aim, InLoop
  <2> QED
    BY <1>2, <2>1 DEF Aim, InLoop, Uploads
<1>3. CASE Settled
  BY <1>3 DEF Settled, InLoop, Uploads
<1>4. CASE ReadFile
  BY <1>4 DEF ReadFile, InLoop, Uploads
<1>5. CASE ServerStores
  <2>1. photo' \in [Files -> SUBSET [of : Weddings, whole : BOOLEAN]]
    BY <1>5 DEF ServerStores, Uploads
  <2> QED
    BY <1>5, <2>1 DEF ServerStores, InLoop, Uploads
<1>6. CASE Uploaded \/ NothingToSend \/ NeverSettles \/ UploadFails
  BY <1>6, EndsAreDone, DoneTypes
<1> QED
  BY <1>1, <1>2, <1>3, <1>4, <1>5, <1>6 DEF UploadLoop

LEMMA HeartbeatLoopType ==
  ASSUME TypeInv, HeartbeatLoop
  PROVE  TypeInv'
<1> USE DEF TypeInv, TypeOK, Handed, world, schedule, InBeat, Resting
<1>1. CASE ReadConfig
  BY <1>1 DEF ReadConfig
<1>2. CASE RefreshRuntimeConfig
  BY <1>2 DEF RefreshRuntimeConfig
<1>3. CASE SendHeartbeat
  <2>1. count' \in 0..(RefreshEvery - 1)
    BY <1>3, HeartbeatsCount DEF SendHeartbeat
  <2> QED
    BY <1>3, <2>1 DEF SendHeartbeat
<1>4. CASE HeartbeatFails
  BY <1>4, SpendTypes DEF HeartbeatFails
<1>5. CASE NextHeartbeat
  BY <1>5 DEF NextHeartbeat
<1> QED
  BY <1>1, <1>2, <1>3, <1>4, <1>5 DEF HeartbeatLoop

LEMMA TypeNext == TypeInv /\ [Next]_vars => TypeInv'
<1> SUFFICES ASSUME TypeInv, [Next]_vars PROVE TypeInv'
  OBVIOUS
<1>1. CASE UNCHANGED vars
  BY <1>1 DEF TypeInv, TypeOK, Handed, vars, world, schedule, config
<1> QED
  BY <1>1, SurroundingsType, WatcherType, UploadLoopType, HeartbeatLoopType DEF Next

LEMMA TypeAlways == Spec => []TypeInv
BY TypeInit, TypeNext, PTL DEF Spec

(* Type correctness, whatever cameras, admins and operators do, for any     *)
(* number of pictures and events: a picture is stored for an event.         *)
THEOREM UploadsTypeCorrect == Spec => []TypeOK
<1>1. TypeInv => TypeOK
  BY DEF TypeInv
<1> QED
  BY <1>1, TypeAlways, PTL

-----------------------------------------------------------------------------
LEMMA PlacesInit == Init => ScheduledOnce
BY DEF Init, ScheduledOnce, Queued, Waiting

(* A file in the hand of the watcher goes to the end of the queue.          *)
LEMMA AppendPlaces ==
  ASSUME TypeInv, ScheduledOnce, Enqueue
  PROVE  ScheduledOnce'
<1> DEFINE n == Len(queue) + 1
<1>1. /\ DOMAIN queue = 1..Len(queue) /\ Len(queue) \in Nat
      /\ DOMAIN queue' = 1..n
      /\ queue'[n] = watch
      /\ \A i \in 1..Len(queue) : queue'[i] = queue[i]
  BY DEF TypeInv, TypeOK, Enqueue
<1>2. Queued' = Queued \cup {watch}
  BY <1>1 DEF Queued
<1>3. ASSUME NEW i \in DOMAIN queue', NEW j \in DOMAIN queue', queue'[i] = queue'[j]
      PROVE  i = j
  <2>1. ASSUME NEW k \in 1..Len(queue) PROVE queue'[k] # watch
    BY <1>1, <2>1 DEF ScheduledOnce, Queued
  <2>2. CASE i = n \/ j = n
    BY <1>1, <1>3, <2>1, <2>2
  <2>3. CASE i # n /\ j # n
    BY <1>1, <1>3, <2>3 DEF ScheduledOnce
  <2> QED
    BY <2>2, <2>3
<1>4. up' = up /\ scheduled' = scheduled /\ watch' = None /\ watch # None
  BY DEF Enqueue
<1>5. None \notin Queued' /\ up.file \notin Queued'
  BY <1>2, <1>4, NoneIsNothing DEF ScheduledOnce, Queued, TypeInv, TypeOK
<1> QED
  BY <1>2, <1>3, <1>4, <1>5 DEF ScheduledOnce

(* The first of the queue goes to the hand of the upload loop.              *)
LEMMA TakePlaces ==
  ASSUME TypeInv, ScheduledOnce, Take
  PROVE  ScheduledOnce'
<1>1. /\ DOMAIN queue = 1..Len(queue) /\ Len(queue) \in Nat \ {0}
      /\ DOMAIN queue' = 1..(Len(queue) - 1)
      /\ Head(queue) = queue[1]
      /\ \A i \in 1..(Len(queue) - 1) : queue'[i] = queue[i + 1]
  BY DEF TypeInv, TypeOK, Take
<1>2. Queued = Queued' \cup {queue[1]}
  <2>1. ASSUME NEW i \in 1..Len(queue) PROVE queue[i] \in Queued' \cup {queue[1]}
    <3>1. CASE i = 1
      BY <3>1
    <3>2. CASE i # 1
      <4>1. i - 1 \in 1..(Len(queue) - 1) /\ queue'[i - 1] = queue[i]
        BY <1>1, <3>2
      <4> QED
        BY <1>1, <4>1 DEF Queued
    <3> QED
      BY <3>1, <3>2
  <2>2. Queued' \subseteq Queued
    BY <1>1 DEF Queued
  <2> QED
    BY <1>1, <2>1, <2>2 DEF Queued
<1>3. queue[1] \notin Queued'
  BY <1>1 DEF Queued, ScheduledOnce
<1>4. /\ up.file = None /\ up'.file = queue[1] /\ queue[1] # None
      /\ watch' = watch /\ scheduled' = scheduled
  BY <1>1, NoneIsNothing DEF Take, InLoop, Waiting, TypeInv, TypeOK, Handed
<1>5. ASSUME NEW i \in DOMAIN queue', NEW j \in DOMAIN queue', queue'[i] = queue'[j]
      PROVE  i = j
  BY <1>1, <1>5 DEF ScheduledOnce
<1>6. scheduled' = Queued' \cup ({watch', up'.file} \ {None})
  BY <1>2, <1>4 DEF ScheduledOnce
<1>7. watch' \notin Queued' /\ (watch' # None => watch' # up'.file)
  BY <1>1, <1>2, <1>4 DEF ScheduledOnce, Queued
<1> QED
  BY <1>3, <1>4, <1>5, <1>6, <1>7 DEF ScheduledOnce

(* A file that is done with is nowhere else.                                *)
LEMMA DonePlaces ==
  ASSUME TypeInv, ScheduledOnce, NEW b \in BOOLEAN, Done(b), up.at # "waiting"
  PROVE  ScheduledOnce'
<1>1. /\ up.file \in Files /\ up'.file = None
      /\ watch' = watch /\ queue' = queue /\ scheduled' = scheduled \ {up.file}
  BY DEF Done, Waiting, TypeInv, Handed
<1>2. Queued' = Queued /\ None \notin Queued
  BY <1>1, NoneIsNothing DEF Queued, TypeInv, TypeOK
<1> QED
  BY <1>1, <1>2, NoneIsNothing DEF ScheduledOnce

LEMMA PlacesNext == TypeInv /\ ScheduledOnce /\ [Next]_vars => ScheduledOnce'
<1> SUFFICES ASSUME TypeInv, ScheduledOnce, [Next]_vars PROVE ScheduledOnce'
  OBVIOUS
<1>1. CASE UNCHANGED <<watch, scheduled, queue, up.file>>
  <2>1. Queued' = Queued
    BY <1>1 DEF Queued
  <2> QED
    BY <1>1, <2>1 DEF ScheduledOnce
<1>2. CASE Stop
  BY <1>2 DEF Stop, ScheduledOnce, Queued, Waiting
<1>3. ASSUME NEW f \in Files, Notice(f) PROVE ScheduledOnce'
  <2>1. Queued' = Queued /\ queue' = queue /\ up' = up
    BY <1>3 DEF Notice, Queued
  <2>2. CASE OnDisk(f) /\ f \notin scheduled
    <3>1. watch' = f /\ scheduled' = scheduled \cup {f} /\ watch = None
      BY <1>3, <2>2 DEF Notice
    <3>2. f \notin Queued /\ f # up.file /\ f # None
      BY <2>2, NoneIsNothing DEF ScheduledOnce
    <3> QED
      BY <2>1, <3>1, <3>2 DEF ScheduledOnce
  <2>3. CASE ~(OnDisk(f) /\ f \notin scheduled)
    BY <1>1, <1>3, <2>1, <2>3 DEF Notice
  <2> QED
    BY <2>2, <2>3
<1>4. CASE UNCHANGED schedule
  BY <1>1, <1>4 DEF schedule
<1>5. CASE Surroundings
  BY <1>2, <1>4, <1>5 DEF Surroundings, Write, Remove, AssignEvent, Start
<1>6. CASE HeartbeatLoop
  BY <1>4, <1>6 DEF HeartbeatLoop, ReadConfig, RefreshRuntimeConfig,
    SendHeartbeat, HeartbeatFails, NextHeartbeat, InBeat
<1>7. CASE Watcher
  BY <1>3, <1>7, AppendPlaces DEF Watcher
<1>8. CASE UploadLoop
  <2>1. CASE Take
    BY <2>1, TakePlaces
  <2>2. CASE Uploaded \/ NothingToSend \/ NeverSettles \/ UploadFails
    BY <2>2, EndsAreDone, DonePlaces
  <2>3. CASE Aim \/ Settled \/ ReadFile \/ ServerStores
    <3>1. up'.file = up.file
      BY <2>3 DEF Aim, Settled, ReadFile, ServerStores, InLoop, TypeInv, TypeOK, Uploads
    <3> QED
      BY <1>1, <2>3, <3>1 DEF Aim, Settled, ReadFile, ServerStores, InLoop
  <2> QED
    BY <1>8, <2>1, <2>2, <2>3 DEF UploadLoop
<1>9. CASE UNCHANGED vars
  BY <1>4, <1>9 DEF vars
<1> QED
  BY <1>5, <1>6, <1>7, <1>8, <1>9 DEF Next

(* A scheduled file is in one place, so that no entry is doubled and none   *)
(* is left behind, for any number of pictures.                              *)
THEOREM ScheduledInOnePlace == Spec => []ScheduledOnce
<1>1. Init => ScheduledOnce
  BY PlacesInit
<1>2. TypeInv /\ ScheduledOnce /\ [Next]_vars => ScheduledOnce'
  BY PlacesNext
<1> QED
  BY <1>1, <1>2, TypeAlways, PTL DEF Spec

=============================================================================
