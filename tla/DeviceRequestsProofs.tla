------------------------ MODULE DeviceRequestsProofs ------------------------
(***************************************************************************)
(* Proofs about DeviceRequests: for any number of booths, pods, requests   *)
(* and copies of them, any clock offsets and delays, a request is let      *)
(* through again only by a copy that waited long enough in its handler,    *)
(* and what the handlers do is Delivery. Nothing is assumed of how         *)
(* Tolerance, Lifetime and the clocks relate.                              *)
(***************************************************************************)
EXTENDS DeviceRequests, TLAPS

-----------------------------------------------------------------------------
(* Type correctness.                                                        *)

LEMMA RestingType == Resting \in Jobs /\ WellFormed(Resting)
  BY DEF Resting, Jobs, WellFormed, Points

LEMMA SetJobType ==
  ASSUME TypeOK, NEW h \in Handlers, NEW v \in Jobs, WellFormed(v), SetJob(h, v)
  PROVE  /\ job' \in [Handlers -> Jobs]
         /\ \A g \in Handlers : WellFormed(job'[g])
         /\ \A g \in Handlers : job'[g] = IF g = h THEN v ELSE job[g]
  BY DEF TypeOK, SetJob

LEMMA UtcNowType ==
  ASSUME TypeOK, NEW p \in Pods
  PROVE  /\ now \in Nat /\ drift[p] \in Int /\ UtcNow(p) \in Int
         /\ -PodSkew <= drift[p] /\ drift[p] <= PodSkew
         /\ UtcNow(p) = now + drift[p]
  BY TimesAreNat DEF TypeOK, UtcNow

LEMMA CheckedType ==
  ASSUME TypeOK, NEW p \in Pods, NEW n \in Nonces
  PROVE  /\ Checked(p, n) \in Jobs /\ WellFormed(Checked(p, n))
         /\ Checked(p, n).at = "checked" /\ Checked(p, n).nonce = n
         /\ Checked(p, n).pod = p /\ Checked(p, n).since = now
         /\ Checked(p, n).seen = {}
  <1>1. now \in Nat
    BY TimesAreNat DEF TypeOK
  <1>2. Checked(p, n) \in Jobs
    BY <1>1, RestingType DEF Checked, Jobs, Points
  <1>3. /\ Checked(p, n).at = "checked" /\ Checked(p, n).nonce = n
        /\ Checked(p, n).pod = p /\ Checked(p, n).since = now
        /\ Checked(p, n).seen = {}
    BY DEF Checked, Resting
  <1>4. QED
    BY <1>2, <1>3 DEF WellFormed

LEMMA NewNonceType ==
  ASSUME TypeOK, NEW h \in Handlers, job[h].at \in {"verified", "pruning"}
  PROVE  /\ NewNonce(h) \in Jobs /\ WellFormed(NewNonce(h))
         /\ NewNonce(h).at = "storing" /\ NewNonce(h).seen = {}
         /\ NewNonce(h).nonce = job[h].nonce /\ NewNonce(h).dev = job[h].dev
         /\ NewNonce(h).pod = job[h].pod /\ NewNonce(h).since = job[h].since
         /\ NewNonce(h).until = UtcNow(job[h].pod) + Lifetime
  <1>1. job[h] \in Jobs /\ WellFormed(job[h]) /\ job[h].pod \in Pods
    BY DEF TypeOK, WellFormed
  <1>2. UtcNow(job[h].pod) + Lifetime \in Int
    BY <1>1, UtcNowType, TimesAreNat
  <1>3. QED
    BY <1>1, <1>2 DEF NewNonce, Jobs, Points, WellFormed

(* A handler that has read the expired rows, to delete them next.           *)
LEMMA SeeingType ==
  ASSUME TypeOK, NEW h \in Handlers, job[h].at = "verified", NEW p \in Pods
  PROVE  LET v == [job[h] EXCEPT !.at = "pruning", !.seen = Expired(p)]
         IN  /\ v \in Jobs /\ WellFormed(v)
             /\ v.at = "pruning" /\ v.seen = Expired(p)
             /\ v.nonce = job[h].nonce /\ v.dev = job[h].dev
             /\ v.pod = job[h].pod /\ v.since = job[h].since
  <1>1. Expired(p) \in SUBSET NonceRows
    BY DEF TypeOK, Expired
  <1>2. job[h] \in Jobs /\ WellFormed(job[h])
    BY DEF TypeOK
  <1> HIDE DEF Expired
  <1>3. QED
    BY <1>1, <1>2 DEF Jobs, Points, WellFormed

LEMMA SweepingType ==
  ASSUME TypeOK, NEW p \in Pods
  PROVE  LET w == [Resting EXCEPT !.at = "sweeping", !.pod = p, !.seen = Expired(p)]
         IN  /\ w \in Jobs /\ WellFormed(w)
             /\ w.at = "sweeping" /\ w.seen = Expired(p)
  <1>1. Expired(p) \in SUBSET NonceRows
    BY DEF TypeOK, Expired
  <1> DEFINE w == [Resting EXCEPT !.at = "sweeping", !.pod = p, !.seen = Expired(p)]
  <1>2. w \in Jobs
    BY <1>1, RestingType DEF Jobs, Points
  <1>3. w.at = "sweeping" /\ w.pod = p /\ w.seen = Expired(p)
    BY DEF Resting
  <1>4. QED
    BY <1>2, <1>3 DEF WellFormed

LEMMA InsertType ==
  ASSUME TypeOK, NEW h \in Handlers, job[h].at = "storing", Insert(h)
  PROVE  /\ rows' \subseteq NonceRows /\ serial' \in Nat
         /\ accepted' \subseteq Nonces /\ job[h].nonce \in Nonces
  <1>1. job[h].nonce \in Nonces /\ job[h].until \in Int /\ serial \in Nat
    BY DEF TypeOK, Jobs, WellFormed
  <1>2. QED
    BY <1>1 DEF Insert, TypeOK, NonceRows

LEMMA InitTyped == Init => TypeOK
  <1> SUFFICES ASSUME Init PROVE TypeOK
    OBVIOUS
  <1> USE DEF Init
  <1>1. sent \in [Nonces -> [dev : Devices \cup {None}, ts : Int, at : Nat]]
    BY DEF Unsent
  <1>2. job \in [Handlers -> Jobs] /\ \A h \in Handlers : WellFormed(job[h])
    BY RestingType
  <1>3. QED
    BY <1>1, <1>2, TimesAreNat DEF TypeOK

LEMMA HandlerTyped ==
  ASSUME TypeOK, NEW h \in Handlers, Authenticate(h) \/ Retain(h)
  PROVE  TypeOK'
  <1> USE DEF TypeOK, clocks, table, outcome
  <1> job[h] \in Jobs /\ WellFormed(job[h])
    OBVIOUS
  <1>1. ASSUME NEW p \in Pods, NEW n \in Nonces, Receive(h, p, n) PROVE TypeOK'
    BY <1>1, CheckedType, SetJobType DEF Receive
  <1>2. CASE LookUp(h)
    <2> DEFINE d == Found(sent[job[h].nonce].dev)
               v == [job[h] EXCEPT !.at = "verified", !.dev = d]
    <2>1. d \in Devices
      BY <1>2 DEF LookUp, Found
    <2>2. v \in Jobs /\ WellFormed(v)
      BY <1>2, <2>1 DEF LookUp, Jobs, WellFormed, Points
    <2>3. QED
      BY <1>2, <2>2, SetJobType DEF LookUp
  <1>3. CASE Prune(h)
    <2>1. job[h].pod \in Pods
      BY <1>3 DEF Prune, WellFormed
    <2>2. QED
      BY <1>3, <2>1, NewNonceType, SeeingType, SetJobType DEF Prune
  <1>4. CASE PruneSave(h)
    <2>1. rows' \subseteq NonceRows
      BY <1>4 DEF PruneSave
    <2>2. QED
      BY <1>4, <2>1, NewNonceType, RestingType, SetJobType DEF PruneSave
  <1>5. CASE Store(h)
    <2> DEFINE v == [job[h] EXCEPT !.at = "stored"]
    <2>1. v \in Jobs /\ WellFormed(v)
      BY <1>5 DEF Store, Jobs, Points, WellFormed
    <2>2. QED
      BY <1>5, <2>1, InsertType, SetJobType DEF Store
  <1>6. CASE StoreRefused(h)
    BY <1>6, RestingType, SetJobType DEF StoreRefused, WellFormed
  <1>7. CASE StoreFails(h)
    <2>1. job[h].nonce \in Nonces
      BY <1>7 DEF StoreFails, WellFormed
    <2>2. rows' \subseteq NonceRows /\ serial' \in Nat /\ accepted' \subseteq Nonces
      BY <1>7, InsertType DEF StoreFails
    <2>3. QED
      BY <1>7, <2>1, <2>2, RestingType, SetJobType DEF StoreFails
  <1>8. CASE LetThrough(h)
    <2>1. served' \in [Nonces -> Nat]
      BY <1>8 DEF LetThrough, WellFormed
    <2>2. QED
      BY <1>8, <2>1, RestingType, SetJobType DEF LetThrough
  <1>9. CASE Drop(h)
    BY <1>9, RestingType, SetJobType DEF Drop
  <1>10. ASSUME NEW p \in Pods, Sweep(h, p) PROVE TypeOK'
    BY <1>10, SweepingType, SetJobType DEF Sweep
  <1>11. CASE SweepSave(h)
    <2>1. rows' \subseteq NonceRows
      BY <1>11 DEF SweepSave
    <2>2. QED
      BY <1>11, <2>1, RestingType, SetJobType DEF SweepSave
  <1>12. QED
    BY <1>1, <1>2, <1>3, <1>4, <1>5, <1>6, <1>7, <1>8, <1>9, <1>10, <1>11
       DEF Authenticate, Retain

LEMMA OtherTyped ==
  ASSUME TypeOK,
         \/ \E n \in Nonces, d \in Devices : Sign(n, d)
         \/ \E d \in Devices : DeleteDevice(d)
         \/ Tick
  PROVE  TypeOK'
  <1> USE DEF TypeOK, clocks, table, outcome
  <1>1. ASSUME NEW n \in Nonces, NEW d \in Devices, Sign(n, d) PROVE TypeOK'
    <2>1. now \in Nat /\ now + ahead[d] \in Int
      BY TimesAreNat
    <2>2. QED
      BY <1>1, <2>1 DEF Sign
  <1>2. ASSUME NEW d \in Devices, DeleteDevice(d) PROVE TypeOK'
    BY <1>2 DEF DeleteDevice
  <1>3. CASE Tick
    BY <1>3, TimesAreNat DEF Tick
  <1>4. QED
    BY <1>1, <1>2, <1>3

LEMMA NextTyped == TypeOK /\ [Next]_vars => TypeOK'
  <1> SUFFICES ASSUME TypeOK, [Next]_vars PROVE TypeOK'
    OBVIOUS
  <1>1. CASE UNCHANGED vars
    BY <1>1 DEF TypeOK, vars, clocks, table, outcome
  <1>2. CASE Next
    BY <1>2, HandlerTyped, OtherTyped DEF Next
  <1>3. QED
    BY <1>1, <1>2

(* Type correctness: among the rest, a request past the verification of its *)
(* signature has the device whose key verified it.                          *)
THEOREM RequestsTypeCorrect == Spec => []TypeOK
  <1>1. QED
    BY InitTyped, NextTyped, PTL DEF Spec

-----------------------------------------------------------------------------
(* The inductive invariant.                                                 *)

Issued(n) == sent[n] # Unsent

(* A timestamp is ahead of the time of signing by the booth's clock.        *)
Signed ==
  \A n \in Nonces : Issued(n) =>
    /\ sent[n].dev \in Devices /\ sent[n].at <= now
    /\ sent[n].ts = sent[n].at + ahead[sent[n].dev]

(* A row of this request that expires then is not pruned before it is old.  *)
LastsUntil(n, t) == t >= sent[n].at + Lifetime - PodSkew

(* A handler at work began when the timestamp was good, the device it found *)
(* is the one that signed, and the row it has stored or is about to store   *)
(* lasts long enough.                                                       *)
Working(v) ==
  v.at \notin {"idle", "sweeping"} =>
    /\ Issued(v.nonce)
    /\ v.since + drift[v.pod] - sent[v.nonce].ts <= Tolerance
    /\ v.at # "checked" => v.dev = sent[v.nonce].dev
    /\ v.at = "storing" => LastsUntil(v.nonce, v.until)
    /\ v.at = "stored" => v.nonce \in accepted

JobsWork == \A h \in Handlers : Working(job[h])

(* A row is one of a request that was accepted, and expires only when that  *)
(* is old.                                                                  *)
Stored ==
  \A r \in rows :
    r.nonce \in accepted /\ Issued(r.nonce) /\ LastsUntil(r.nonce, r.expires)

(* What a handler is about to prune is of no use to a young request.        *)
Aged(n) == Issued(n) /\ Old(n)

Useless == \A h \in Handlers : \A r \in job[h].seen : Aged(r.nonce)

(* The nonce of an accepted request is in the table while it is young.      *)
Remembered ==
  \A n \in accepted :
    /\ Issued(n)
    /\ Taken(n) \/ sent[n].dev \notin devices \/ Old(n)

Counted == \A n \in Nonces : served[n] > 0 => n \in accepted

Holds(h, n) == job[h].at = "stored" /\ job[h].nonce = n

(* Of a young request one copy at most has been accepted, and that is either *)
(* on its way or was let through.                                           *)
OneAccepted ==
  \A n \in Nonces : Issued(n) /\ ~Old(n) =>
    \A h \in Handlers : Holds(h, n) =>
      served[n] = 0 /\ \A g \in Handlers : Holds(g, n) => g = h

NonceInv ==
  Signed /\ JobsWork /\ Stored /\ Useless /\ Remembered /\ Counted /\ OneAccepted

LEMMA InitNonce == Init => NonceInv
  <1> SUFFICES ASSUME Init PROVE NonceInv
    OBVIOUS
  <1>1. JobsWork /\ Useless /\ OneAccepted
    BY DEF Init, JobsWork, Working, Useless, OneAccepted, Holds, Resting
  <1>2. Signed /\ Stored /\ Remembered /\ Counted
    BY DEF Init, Signed, Stored, Remembered, Counted, Issued
  <1>3. QED
    BY <1>1, <1>2 DEF NonceInv

(* Arithmetic, once and for all: what has expired on the clock of a pod is  *)
(* a row of an old request, and a new nonce lasts long enough.              *)
LEMMA ExpiredIsOld ==
  ASSUME TypeOK, Stored, NEW p \in Pods, NEW r \in Expired(p)
  PROVE  Aged(r.nonce)
  <1>1. /\ r \in rows /\ r.nonce \in Nonces /\ r.expires \in Int
        /\ r.expires <= UtcNow(p)
    BY DEF Expired, TypeOK, NonceRows
  <1>2. Issued(r.nonce) /\ r.expires >= sent[r.nonce].at + Lifetime - PodSkew
    BY <1>1 DEF Stored, LastsUntil
  <1>3. now \in Nat /\ UtcNow(p) = now + drift[p] /\ drift[p] \in Int /\ drift[p] <= PodSkew
    BY UtcNowType
  <1>4. sent[r.nonce].at \in Nat
    BY <1>1 DEF TypeOK
  <1>5. QED
    BY <1>1, <1>2, <1>3, <1>4, TimesAreNat DEF Aged, Old

LEMMA NewNonceLasts ==
  ASSUME TypeOK, Signed, NEW n \in Nonces, Issued(n), NEW p \in Pods
  PROVE  LastsUntil(n, UtcNow(p) + Lifetime)
  <1>1. sent[n].at \in Nat /\ sent[n].at <= now
    BY DEF Signed, TypeOK
  <1>2. now \in Nat /\ UtcNow(p) = now + drift[p] /\ drift[p] \in Int /\ -PodSkew <= drift[p]
    BY UtcNowType
  <1>3. QED
    BY <1>1, <1>2, TimesAreNat DEF LastsUntil

-----------------------------------------------------------------------------
(* Every step keeps the invariant.                                          *)

(* A handler goes on, and the table loses at most rows of old requests.     *)
LEMMA HandlerKeeps ==
  ASSUME TypeOK, NonceInv, NEW h \in Handlers, NEW v \in Jobs, SetJob(h, v),
         Working(v), v.at # "stored", \A r \in v.seen : Aged(r.nonce),
         rows' \subseteq rows, \A r \in rows : r \notin rows' => Aged(r.nonce),
         UNCHANGED <<clocks, devices, sent, accepted, served>>
  PROVE  NonceInv'
  <1> USE DEF NonceInv, clocks
  <1>1. \A g \in Handlers : job'[g] = IF g = h THEN v ELSE job[g]
    BY DEF SetJob, TypeOK
  <1>2. \A w \in Jobs : Working(w)' <=> Working(w)
    BY DEF Working, Issued, LastsUntil
  <1>3. \A n \in Nonces : (Aged(n)' <=> Aged(n)) /\ (Old(n)' <=> Old(n))
    BY DEF Aged, Issued, Old
  <1>4. job \in [Handlers -> Jobs] /\ \A r \in v.seen : r.nonce \in Nonces
    BY DEF TypeOK, Jobs, NonceRows
  <1>5. JobsWork'
    BY <1>1, <1>2, <1>4 DEF JobsWork
  <1>6. Useless'
    BY <1>1, <1>3, <1>4 DEF Useless, Jobs, NonceRows
  <1>7. Signed' /\ Stored' /\ Counted'
    BY DEF Signed, Stored, Counted, Issued, LastsUntil
  <1>8. Remembered'
    <2> SUFFICES ASSUME NEW n \in accepted
                 PROVE  Issued(n)' /\ (Taken(n)' \/ sent[n].dev \notin devices \/ Old(n))
      BY <1>3 DEF Remembered, TypeOK
    <2>1. Issued(n)
      BY DEF Remembered
    <2>2. CASE Taken(n)
      BY <2>1, <2>2 DEF Taken, Aged, Issued
    <2>3. QED
      BY <2>1, <2>2 DEF Remembered, Issued
  <1>9. OneAccepted'
    <2>1. \A g \in Handlers, n \in Nonces : Holds(g, n)' => Holds(g, n)
      BY <1>1 DEF Holds
    <2>2. QED
      BY <1>3, <2>1 DEF OneAccepted, Issued
  <1>10. QED
    BY <1>5, <1>6, <1>7, <1>8, <1>9

LEMMA RestingWorks ==
  Working(Resting) /\ Resting.at = "idle" /\ \A r \in Resting.seen : Aged(r.nonce)
  BY DEF Working, Resting

LEMMA ReceiveKeeps ==
  ASSUME TypeOK, NonceInv, NEW h \in Handlers, NEW p \in Pods, NEW n \in Nonces,
         Receive(h, p, n)
  PROVE  NonceInv'
  <1>1. /\ now \in Nat /\ UtcNow(p) = now + drift[p] /\ drift[p] \in Int
        /\ sent[n].ts \in Int
    BY UtcNowType DEF TypeOK
  <1>2. Working(Checked(p, n))
    BY <1>1, CheckedType, TimesAreNat DEF Receive, Working, Issued
  <1>3. QED
    BY <1>2, CheckedType, HandlerKeeps DEF Receive, table, outcome

LEMMA LookUpKeeps ==
  ASSUME TypeOK, NonceInv, NEW h \in Handlers, LookUp(h)
  PROVE  NonceInv'
  <1> DEFINE d == Found(sent[job[h].nonce].dev)
             v == [job[h] EXCEPT !.at = "verified", !.dev = d]
  <1>1. job[h] \in Jobs
    BY DEF TypeOK
  <1>2. d \in Devices /\ d = sent[job[h].nonce].dev
    BY DEF LookUp, Found, TypeOK
  <1>3. v \in Jobs
    BY <1>1, <1>2 DEF Jobs, Points
  <1>4. /\ v.at = "verified" /\ v.dev = d /\ v.nonce = job[h].nonce
        /\ v.pod = job[h].pod /\ v.since = job[h].since /\ v.seen = job[h].seen
    BY <1>1 DEF Jobs
  <1>5. SetJob(h, v)
    BY DEF LookUp
  <1> HIDE DEF v, d
  <1>6. Working(v)
    BY <1>2, <1>4 DEF LookUp, Working, NonceInv, JobsWork
  <1>7. \A r \in v.seen : Aged(r.nonce)
    BY <1>4 DEF NonceInv, Useless
  <1>8. QED
    BY <1>3, <1>4, <1>5, <1>6, <1>7, HandlerKeeps DEF LookUp, table, outcome

(* The nonce made after pruning lasts long enough.                          *)
LEMMA NewNonceWorks ==
  ASSUME TypeOK, NonceInv, NEW h \in Handlers, job[h].at \in {"verified", "pruning"}
  PROVE  Working(NewNonce(h))
  <1>1. job[h].nonce \in Nonces /\ job[h].pod \in Pods /\ Working(job[h])
    BY DEF TypeOK, WellFormed, NonceInv, JobsWork
  <1>2. Issued(job[h].nonce)
    BY <1>1 DEF Working
  <1>3. LastsUntil(job[h].nonce, NewNonce(h).until)
    BY <1>1, <1>2, NewNonceType, NewNonceLasts DEF NonceInv
  <1>4. QED
    BY <1>1, <1>2, <1>3, NewNonceType DEF Working

LEMMA PruneKeeps ==
  ASSUME TypeOK, NonceInv, NEW h \in Handlers, Prune(h)
  PROVE  NonceInv'
  <1> DEFINE p == job[h].pod
             v == [job[h] EXCEPT !.at = "pruning", !.seen = Expired(p)]
  <1>1. p \in Pods /\ job[h].at = "verified"
    BY DEF TypeOK, Prune, WellFormed
  <1>2. UNCHANGED <<clocks, devices, sent, rows, accepted, served>>
    BY DEF Prune, table, outcome
  <1>3. CASE SetJob(h, NewNonce(h))
    BY <1>1, <1>2, <1>3, NewNonceType, NewNonceWorks, HandlerKeeps
  <1>4. CASE SetJob(h, v)
    <2>1. /\ v \in Jobs /\ v.at = "pruning" /\ v.seen = Expired(p)
          /\ v.nonce = job[h].nonce /\ v.dev = job[h].dev
          /\ v.pod = job[h].pod /\ v.since = job[h].since
      BY <1>1, SeeingType
    <2> HIDE DEF v
    <2>2. Working(v)
      BY <1>1, <2>1 DEF Working, NonceInv, JobsWork
    <2>3. \A r \in v.seen : Aged(r.nonce)
      BY <1>1, <2>1, ExpiredIsOld DEF NonceInv
    <2>4. QED
      BY <1>2, <1>4, <2>1, <2>2, <2>3, HandlerKeeps
  <1>5. QED
    BY <1>3, <1>4 DEF Prune

LEMMA SweepKeeps ==
  ASSUME TypeOK, NonceInv, NEW h \in Handlers, NEW p \in Pods, Sweep(h, p)
  PROVE  NonceInv'
  <1> DEFINE w == [Resting EXCEPT !.at = "sweeping", !.pod = p, !.seen = Expired(p)]
  <1>1. w \in Jobs /\ w.at = "sweeping" /\ w.seen = Expired(p)
    BY SweepingType
  <1>2. SetJob(h, w) /\ UNCHANGED <<clocks, devices, sent, rows, accepted, served>>
    BY DEF Sweep, table, outcome
  <1> HIDE DEF w
  <1>3. Working(w) /\ \A r \in w.seen : Aged(r.nonce)
    BY <1>1, ExpiredIsOld DEF Working, NonceInv
  <1>4. QED
    BY <1>1, <1>2, <1>3, HandlerKeeps

(* What is pruned is old, so that no young request needs it.                *)
LEMMA DeleteKeeps ==
  ASSUME TypeOK, NonceInv, NEW h \in Handlers, PruneSave(h) \/ SweepSave(h)
  PROVE  NonceInv'
  <1>1. /\ rows' \subseteq rows
        /\ \A r \in rows : r \notin rows' => Aged(r.nonce)
    BY DEF PruneSave, SweepSave, NonceInv, Useless
  <1>2. UNCHANGED <<clocks, devices, sent, accepted, served>>
    BY DEF PruneSave, SweepSave, outcome
  <1>3. CASE SetJob(h, Resting)
    BY <1>1, <1>2, <1>3, RestingType, RestingWorks, HandlerKeeps
  <1>4. CASE job[h].at = "pruning" /\ SetJob(h, NewNonce(h))
    BY <1>1, <1>2, <1>4, NewNonceType, NewNonceWorks, HandlerKeeps
  <1>5. QED
    BY <1>3, <1>4 DEF PruneSave, SweepSave

(* A request whose nonce is accepted while it is young was not before.      *)
LEMMA FirstTime ==
  ASSUME TypeOK, NonceInv, NEW h \in Handlers, job[h].at = "storing", Insert(h)
  PROVE  LET n == job[h].nonce IN
         /\ n \in Nonces /\ Issued(n) /\ sent[n].dev \in devices
         /\ LastsUntil(n, job[h].until)
         /\ ~Old(n) => n \notin accepted
  <1> DEFINE n == job[h].nonce
  <1>1. n \in Nonces
    BY DEF TypeOK, WellFormed
  <1>2. Issued(n) /\ job[h].dev = sent[n].dev /\ LastsUntil(n, job[h].until)
    BY DEF NonceInv, JobsWork, Working
  <1>3. ~Old(n) => n \notin accepted
    BY <1>2 DEF Insert, NonceInv, Remembered
  <1>4. QED
    BY <1>1, <1>2, <1>3 DEF Insert

LEMMA InsertKeeps ==
  ASSUME TypeOK, NonceInv, NEW h \in Handlers, job[h].at = "storing", Insert(h),
         NEW v \in Jobs, SetJob(h, v), v.seen \subseteq job[h].seen,
         \/ v.at = "idle"
         \/ /\ v.at = "stored" /\ v.nonce = job[h].nonce /\ v.dev = job[h].dev
            /\ v.pod = job[h].pod /\ v.since = job[h].since,
         UNCHANGED <<clocks, devices, sent, served>>
  PROVE  NonceInv'
  <1> DEFINE n == job[h].nonce
             r == [nonce |-> n, expires |-> job[h].until, id |-> serial]
  <1> USE DEF NonceInv, clocks
  <1>1. /\ n \in Nonces /\ Issued(n) /\ LastsUntil(n, job[h].until)
        /\ ~Old(n) => n \notin accepted
    BY FirstTime
  <1>2. rows' = rows \cup {r} /\ accepted' = accepted \cup {n}
    BY DEF Insert
  <1>3. r.nonce = n /\ r.expires = job[h].until
    OBVIOUS
  <1>4. \A g \in Handlers : job'[g] = IF g = h THEN v ELSE job[g]
    BY SetJobType DEF SetJob, TypeOK
  <1>5. Working(job[h]) /\ n = job[h].nonce
    BY DEF JobsWork
  <1> HIDE DEF n, r
  <1>6. \A m \in Nonces : (Aged(m)' <=> Aged(m)) /\ (Old(m)' <=> Old(m))
    BY DEF Aged, Issued, Old
  <1>7. JobsWork'
    <2>1. ASSUME NEW w \in Jobs, Working(w) PROVE Working(w)'
      BY <1>2, <2>1 DEF Working, Issued, LastsUntil
    <2>2. Working(v)'
      BY <1>2, <1>5 DEF Working, Issued, LastsUntil
    <2>3. QED
      BY <1>4, <2>1, <2>2 DEF JobsWork, TypeOK
  <1>8. Useless'
    BY <1>4, <1>6 DEF Useless, TypeOK, Jobs, NonceRows
  <1>9. Signed'
    BY DEF Signed, Issued
  <1>10. Stored'
    BY <1>1, <1>2, <1>3 DEF Stored, Issued, LastsUntil
  <1>11. Remembered'
    <2>1. \A m \in Nonces : Taken(m) => Taken(m)'
      BY <1>2 DEF Taken
    <2>2. \A m \in Nonces : m = n => Taken(m)'
      BY <1>2, <1>3 DEF Taken
    <2>3. QED
      BY <1>1, <1>2, <1>6, <2>1, <2>2 DEF Remembered, Issued, TypeOK
  <1>12. Counted'
    BY <1>2 DEF Counted
  <1>13. OneAccepted'
    <2> SUFFICES ASSUME NEW m \in Nonces, Issued(m), ~Old(m),
                        NEW g \in Handlers, Holds(g, m)'
                 PROVE  served[m] = 0 /\ \A f \in Handlers : Holds(f, m)' => f = g
      BY <1>6 DEF OneAccepted, Issued
    <2>1. CASE m = n
      <3>1. m \notin accepted
        BY <1>1, <2>1
      <3>2. served[m] = 0
        BY <3>1 DEF Counted, TypeOK
      <3>3. \A f \in Handlers : ~Holds(f, m)
        BY <3>1 DEF Holds, JobsWork, Working
      <3>4. QED
        BY <1>4, <3>2, <3>3 DEF Holds
    <2>2. CASE m # n
      <3>1. \A f \in Handlers : Holds(f, m)' => Holds(f, m)
        BY <1>4, <1>5, <2>2 DEF Holds
      <3>2. QED
        BY <3>1 DEF OneAccepted
    <2>3. QED
      BY <2>1, <2>2
  <1>14. QED
    BY <1>7, <1>8, <1>9, <1>10, <1>11, <1>12, <1>13

LEMMA StoreKeeps ==
  ASSUME TypeOK, NonceInv, NEW h \in Handlers, Store(h)
  PROVE  NonceInv'
  <1> DEFINE v == [job[h] EXCEPT !.at = "stored"]
  <1>1. job[h] \in Jobs
    BY DEF TypeOK
  <1>2. /\ v \in Jobs /\ v.at = "stored" /\ v.nonce = job[h].nonce
        /\ v.dev = job[h].dev /\ v.pod = job[h].pod /\ v.since = job[h].since
        /\ v.seen = job[h].seen
    BY <1>1 DEF Jobs, Points
  <1>3. /\ SetJob(h, v) /\ job[h].at = "storing" /\ Insert(h)
        /\ UNCHANGED <<clocks, devices, sent, served>>
    BY DEF Store, outcome
  <1> HIDE DEF v
  <1>4. QED
    BY <1>2, <1>3, InsertKeeps

LEMMA StoreFailsKeeps ==
  ASSUME TypeOK, NonceInv, NEW h \in Handlers, StoreFails(h)
  PROVE  NonceInv'
  <1>1. /\ SetJob(h, Resting) /\ job[h].at = "storing"
        /\ UNCHANGED <<clocks, devices, sent, served>>
    BY DEF StoreFails
  <1>2. CASE Insert(h)
    BY <1>1, <1>2, RestingType, InsertKeeps DEF Resting
  <1>3. CASE UNCHANGED table
    BY <1>1, <1>3, RestingType, RestingWorks, HandlerKeeps DEF table
  <1>4. QED
    BY <1>2, <1>3 DEF StoreFails

(* While a request is young only one copy holds it, and lets it go with it. *)
LEMMA LetThroughKeeps ==
  ASSUME TypeOK, NonceInv, NEW h \in Handlers, LetThrough(h)
  PROVE  NonceInv'
  <1> DEFINE n == job[h].nonce
  <1>1. /\ UNCHANGED <<now, ahead, drift, devices, sent, rows, accepted>>
        /\ \A m \in Nonces : m # n => served'[m] = served[m]
        /\ \A g \in Handlers : job'[g] = IF g = h THEN Resting ELSE job[g]
    BY DEF LetThrough, SetJob, clocks, table, TypeOK
  <1>2. n \in Nonces /\ n \in accepted /\ Holds(h, n)
    BY DEF LetThrough, TypeOK, WellFormed, NonceInv, JobsWork, Working, Holds
  <1> HIDE DEF n
  <1>3. \A m \in Nonces : (Aged(m)' <=> Aged(m)) /\ (Old(m)' <=> Old(m))
    BY <1>1 DEF Aged, Issued, Old
  <1>4. JobsWork'
    BY <1>1 DEF NonceInv, JobsWork, Working, Issued, LastsUntil, Resting
  <1>5. Useless'
    BY <1>1, <1>3 DEF NonceInv, Useless, TypeOK, Jobs, NonceRows, Resting
  <1>6. Signed' /\ Stored'
    BY <1>1 DEF NonceInv, Signed, Stored, Issued, LastsUntil
  <1>7. Remembered'
    BY <1>1, <1>3 DEF NonceInv, Remembered, Issued, Taken, TypeOK
  <1>8. Counted'
    BY <1>1, <1>2 DEF NonceInv, Counted
  <1>9. OneAccepted'
    <2> SUFFICES ASSUME NEW m \in Nonces, Issued(m), ~Old(m),
                        NEW g \in Handlers, Holds(g, m)'
                 PROVE  served'[m] = 0 /\ \A f \in Handlers : Holds(f, m)' => f = g
      BY <1>1, <1>3 DEF OneAccepted, Issued
    <2>1. g # h /\ \A f \in Handlers : Holds(f, m)' => Holds(f, m)
      BY <1>1 DEF Holds, Resting
    <2>2. m # n
      BY <1>2, <2>1 DEF NonceInv, OneAccepted
    <2>3. QED
      BY <1>1, <2>1, <2>2 DEF NonceInv, OneAccepted
  <1>10. QED
    BY <1>4, <1>5, <1>6, <1>7, <1>8, <1>9 DEF NonceInv

LEMMA SignKeeps ==
  ASSUME TypeOK, NonceInv, NEW n \in Nonces, NEW d \in Devices, Sign(n, d)
  PROVE  NonceInv'
  <1> DEFINE s == [dev |-> d, ts |-> now + ahead[d], at |-> now]
  <1>1. /\ UNCHANGED <<now, ahead, drift, devices, rows, job, served, accepted>>
        /\ ~Issued(n) /\ n \notin accepted
        /\ \A m \in Nonces : sent'[m] = IF m = n THEN s ELSE sent[m]
    BY DEF Sign, clocks, table, outcome, TypeOK, Issued, NonceInv, Remembered
  <1>2. now \in Nat /\ ahead[d] \in Int
    BY TimesAreNat DEF TypeOK
  <1>3. \A h \in Handlers : job[h].at \notin {"idle", "sweeping"} =>
          job[h].nonce \in Nonces /\ job[h].nonce # n
    BY <1>1 DEF NonceInv, JobsWork, Working, TypeOK, WellFormed
  <1>4. s.dev = d /\ s.ts = now + ahead[d] /\ s.at = now
    OBVIOUS
  <1> HIDE DEF s
  <1>5. \A m \in Nonces : m # n =>
          (Aged(m)' <=> Aged(m)) /\ (Old(m)' <=> Old(m)) /\ (Issued(m)' <=> Issued(m))
    <2> SUFFICES ASSUME NEW m \in Nonces, m # n
                 PROVE (Aged(m)' <=> Aged(m)) /\ (Old(m)' <=> Old(m)) /\ (Issued(m)' <=> Issued(m))
      OBVIOUS
    <2>1. sent'[m] = sent[m] /\ now' = now
      BY <1>1
    <2>2. QED
      BY <2>1 DEF Aged, Issued, Old
  <1>6. JobsWork'
    BY <1>1, <1>3 DEF NonceInv, JobsWork, Working, Issued, LastsUntil
  <1>7. Signed'
    BY <1>1, <1>2, <1>4 DEF NonceInv, Signed, Issued
  <1>8. Stored'
    BY <1>1 DEF NonceInv, Stored, Issued, LastsUntil, TypeOK, NonceRows
  <1>9. Remembered'
    BY <1>1, <1>5 DEF NonceInv, Remembered, Taken, TypeOK
  <1>10. Counted'
    BY <1>1 DEF NonceInv, Counted
  <1>11. Useless'
    <2>1. \A h \in Handlers : \A r \in job[h].seen : r.nonce \in Nonces /\ r.nonce # n
      BY <1>1 DEF NonceInv, Useless, Aged, TypeOK, Jobs, NonceRows
    <2>2. QED
      BY <1>1, <1>5, <2>1 DEF NonceInv, Useless
  <1>12. OneAccepted'
    BY <1>1, <1>3, <1>5 DEF NonceInv, OneAccepted, Holds
  <1>13. QED
    BY <1>6, <1>7, <1>8, <1>9, <1>10, <1>11, <1>12 DEF NonceInv

LEMMA DeleteDeviceKeeps ==
  ASSUME TypeOK, NonceInv, NEW d \in Devices, DeleteDevice(d)
  PROVE  NonceInv'
  <1>1. /\ UNCHANGED <<now, ahead, drift, sent, job, served, accepted>>
        /\ devices' = devices \ {d}
        /\ rows' = {r \in rows : sent[r.nonce].dev # d}
    BY DEF DeleteDevice, clocks, outcome
  <1>2. \A n \in Nonces : (Aged(n)' <=> Aged(n)) /\ (Old(n)' <=> Old(n))
    BY <1>1 DEF Aged, Issued, Old
  <1>3. JobsWork' /\ Signed' /\ Counted'
    BY <1>1 DEF NonceInv, JobsWork, Working, Signed, Counted, Issued, LastsUntil
  <1>4. Useless'
    BY <1>1, <1>2 DEF NonceInv, Useless, TypeOK, Jobs, NonceRows
  <1>5. Stored'
    BY <1>1 DEF NonceInv, Stored, Issued, LastsUntil
  <1>6. Remembered'
    BY <1>1, <1>2 DEF NonceInv, Remembered, Issued, Taken, TypeOK
  <1>7. OneAccepted'
    BY <1>1, <1>2 DEF NonceInv, OneAccepted, Holds, Issued
  <1>8. QED
    BY <1>3, <1>4, <1>5, <1>6, <1>7 DEF NonceInv

(* Time passes, and what is old stays old.                                  *)
LEMMA TickKeeps ==
  ASSUME TypeOK, NonceInv, Tick
  PROVE  NonceInv'
  <1>1. /\ now' = now + 1 /\ now \in Nat
        /\ UNCHANGED <<ahead, drift, devices, sent, rows, job, served, accepted>>
    BY TimesAreNat DEF Tick, table, outcome, TypeOK
  <1>2. \A n \in Nonces : (Aged(n) => Aged(n)') /\ (Old(n) => Old(n)')
    BY <1>1, TimesAreNat DEF Aged, Issued, Old, TypeOK
  <1>3. JobsWork' /\ Stored' /\ Counted'
    BY <1>1 DEF NonceInv, JobsWork, Working, Stored, Counted, Issued, LastsUntil
  <1>4. Signed'
    BY <1>1, TimesAreNat DEF NonceInv, Signed, Issued, TypeOK
  <1>5. Useless'
    BY <1>1, <1>2 DEF NonceInv, Useless, TypeOK, Jobs, NonceRows
  <1>6. Remembered'
    BY <1>1, <1>2 DEF NonceInv, Remembered, Issued, Taken, TypeOK
  <1>7. OneAccepted'
    BY <1>1, <1>2 DEF NonceInv, OneAccepted, Holds, Issued
  <1>8. QED
    BY <1>3, <1>4, <1>5, <1>6, <1>7 DEF NonceInv

LEMMA HandlerStepKeeps ==
  ASSUME TypeOK, NonceInv, NEW h \in Handlers, Authenticate(h) \/ Retain(h)
  PROVE  NonceInv'
  <1>1. CASE StoreRefused(h) \/ Drop(h)
    BY <1>1, RestingType, RestingWorks, HandlerKeeps
       DEF StoreRefused, Drop, table, outcome
  <1>2. QED
    BY <1>1, ReceiveKeeps, LookUpKeeps, PruneKeeps, SweepKeeps, DeleteKeeps,
       StoreKeeps, StoreFailsKeeps, LetThroughKeeps DEF Authenticate, Retain

LEMMA NextKeeps == TypeOK /\ NonceInv /\ [Next]_vars => NonceInv'
  <1> SUFFICES ASSUME TypeOK, NonceInv, [Next]_vars PROVE NonceInv'
    OBVIOUS
  <1>1. CASE UNCHANGED vars
    <2>1. UNCHANGED <<now, ahead, drift, devices, sent, rows, job, served, accepted>>
      BY <1>1 DEF vars, clocks, table, outcome
    <2>2. \A n \in Nonces : (Aged(n)' <=> Aged(n)) /\ (Old(n)' <=> Old(n))
      BY <2>1 DEF Aged, Issued, Old
    <2>3. Signed' /\ JobsWork' /\ Stored' /\ Counted'
      BY <2>1 DEF NonceInv, Signed, JobsWork, Working, Stored, Counted, Issued, LastsUntil
    <2>4. Useless' /\ Remembered'
      BY <2>1, <2>2 DEF NonceInv, Useless, Remembered, Issued, Taken, TypeOK,
         Jobs, NonceRows
    <2>5. OneAccepted'
      BY <2>1, <2>2 DEF NonceInv, OneAccepted, Holds, Issued
    <2>6. QED
      BY <2>3, <2>4, <2>5 DEF NonceInv
  <1>2. QED
    BY <1>1, HandlerStepKeeps, SignKeeps, DeleteDeviceKeeps, TickKeeps DEF Next

LEMMA NonceInvariant == Spec => [](TypeOK /\ NonceInv)
  <1>1. Init => TypeOK /\ NonceInv
    BY InitTyped, InitNonce
  <1>2. TypeOK /\ NonceInv /\ [Next]_vars => (TypeOK /\ NonceInv)'
    BY NextTyped, NextKeeps
  <1>3. QED
    BY <1>1, <1>2, PTL DEF Spec

(* A request is let through again only by a copy that waited in its handler *)
(* for at least what the lifetime of nonces outlasts the tolerance of       *)
(* timestamps by, less the errors of the clocks: for any number of copies,  *)
(* pods and handlers, and with no bound on what a handler waits for.        *)
THEOREM RepeatsOnlyAfterWaiting == Spec => []RepeatsHaveWaited
  <1>1. TypeOK /\ NonceInv => RepeatsHaveWaited
    <2> SUFFICES ASSUME TypeOK, NonceInv, NEW h \in Handlers,
                        job[h].at = "stored", served[job[h].nonce] > 0
                 PROVE  now - job[h].since >=
                          Lifetime - Tolerance - ahead[sent[job[h].nonce].dev]
                            - 3 * PodSkew
      BY DEF RepeatsHaveWaited
    <2> DEFINE n == job[h].nonce
               p == job[h].pod
               d == sent[n].dev
    <2>1. n \in Nonces /\ p \in Pods /\ job[h].since \in Nat
      BY DEF TypeOK, WellFormed, Jobs
    <2>2. Issued(n) /\ job[h].since + drift[p] - sent[n].ts <= Tolerance
      BY DEF NonceInv, JobsWork, Working
    <2>3. /\ d \in Devices /\ sent[n].ts = sent[n].at + ahead[d]
          /\ sent[n].at \in Nat /\ ahead[d] \in Int
      BY <2>1, <2>2 DEF NonceInv, Signed, TypeOK
    <2>4. now \in Nat /\ drift[p] \in Int /\ -PodSkew <= drift[p]
      BY <2>1, UtcNowType
    <2>5. Old(n)
      BY <2>1, <2>2 DEF NonceInv, OneAccepted, Holds
    <2>6. now >= sent[n].at + Lifetime - 2 * PodSkew
      BY <2>5 DEF Old
    <2> HIDE DEF n, p, d
    <2>7. now - job[h].since >= Lifetime - Tolerance - ahead[d] - 3 * PodSkew
      BY <2>1, <2>2, <2>3, <2>4, <2>6, TimesAreNat
    <2>8. QED
      BY <2>7 DEF n, d
  <1>2. QED
    BY <1>1, NonceInvariant, PTL

-----------------------------------------------------------------------------
(* The refinement.                                                          *)

LEMMA InitDelivers == Init => D!Init
  BY DEF Init, D!Init, Unsent

(* A copy that is accepted may be: its booth is registered, and a young     *)
(* request is accepted for the first time.                                  *)
LEMMA InsertDelivers ==
  ASSUME TypeOK, NonceInv, NEW h \in Handlers, job[h].at = "storing", Insert(h)
  PROVE  /\ job[h].nonce \in Nonces /\ D!MayAccept(job[h].nonce)
         /\ accepted' = accepted \cup {job[h].nonce}
  BY FirstTime DEF Insert, D!MayAccept, Issued

(* Requests that are issued have a sender in Delivery.                      *)
LEMMA IssuedThere ==
  ASSUME TypeOK, NonceInv, NEW n \in Nonces, Issued(n)
  PROVE  n \in D!Issued
  BY NoneIsNew DEF NonceInv, Signed, D!Issued

LEMMA HandlerDelivers ==
  ASSUME TypeOK, NonceInv, NEW h \in Handlers, Authenticate(h) \/ Retain(h)
  PROVE  [D!Next]_(D!vars)
  <1> DEFINE From == [n \in Nonces |-> sent[n].dev]
             OldOnes == {n \in Nonces : sent[n] # Unsent /\ Old(n)}
             n == job[h].nonce
  <1>1. UNCHANGED <<now, sent, devices>>
    BY DEF Authenticate, Retain, Receive, LookUp, Prune, PruneSave, Sweep,
       SweepSave, Store, StoreRefused, StoreFails, LetThrough, Drop, clocks
  <1>2. UNCHANGED <<From, OldOnes, devices>>
    BY <1>1 DEF Old
  <1>3. job[h].at \in {"storing", "stored"} => n \in Nonces /\ n \in D!Issued
    BY IssuedThere DEF TypeOK, WellFormed, NonceInv, JobsWork, Working
  <1>4. CASE Store(h)
    <2>1. D!Accept(n)
      BY <1>2, <1>4, InsertDelivers DEF Store, outcome, D!Accept
    <2>2. QED
      BY <1>3, <1>4, <2>1 DEF Store, D!Next
  <1>5. CASE StoreRefused(h)
    <2>1. n \in accepted \/ From[n] \notin devices
      BY <1>3, <1>5 DEF StoreRefused, Taken, NonceInv, Stored, JobsWork, Working
    <2>2. D!Refuse(n)
      BY <1>2, <1>3, <1>5, <2>1 DEF StoreRefused, table, D!Refuse
    <2>3. QED
      BY <1>3, <1>5, <2>2 DEF StoreRefused, D!Next
  <1>6. CASE StoreFails(h)
    <2>1. \/ D!MayAccept(n) /\ accepted' = accepted \cup {n}
          \/ UNCHANGED accepted
      BY <1>6, InsertDelivers DEF StoreFails, table
    <2>2. D!Fail(n)
      BY <1>2, <1>3, <1>6, <2>1 DEF StoreFails, D!Fail
    <2>3. QED
      BY <1>3, <1>6, <2>2 DEF StoreFails, D!Next
  <1>7. CASE LetThrough(h)
    <2>1. n \in Nonces /\ n \in accepted /\ Issued(n)
      BY <1>3, <1>7 DEF LetThrough, NonceInv, JobsWork, Working
    <2>2. served[n] > 0 => n \in OldOnes
      BY <1>7, <2>1 DEF LetThrough, NonceInv, OneAccepted, Holds, Issued
    <2>3. D!LetThrough(n)
      BY <1>2, <1>7, <2>1, <2>2 DEF LetThrough, table, D!LetThrough
    <2>4. QED
      BY <2>1, <2>3 DEF D!Next
  <1>8. ASSUME UNCHANGED <<sent, devices, accepted, served, failed, refused>>
        PROVE  UNCHANGED D!vars
    BY <1>2, <1>8 DEF D!vars
  <1>9. QED
    BY <1>1, <1>4, <1>5, <1>6, <1>7, <1>8 DEF Authenticate, Retain, Receive,
       LookUp, Prune, PruneSave, Sweep, SweepSave, Drop, table, outcome

LEMMA OtherDelivers ==
  ASSUME TypeOK, NonceInv,
         \/ \E n \in Nonces, d \in Devices : Sign(n, d)
         \/ \E d \in Devices : DeleteDevice(d)
         \/ Tick
  PROVE  [D!Next]_(D!vars)
  <1> DEFINE From == [n \in Nonces |-> sent[n].dev]
             OldOnes == {n \in Nonces : sent[n] # Unsent /\ Old(n)}
  <1>1. ASSUME NEW n \in Nonces, NEW d \in Devices, Sign(n, d) PROVE D!Next
    <2>1. From[n] = None /\ From' = [From EXCEPT ![n] = d]
      <3>1. sent'[n].dev = d /\ \A m \in Nonces : m # n => sent'[m].dev = sent[m].dev
        BY <1>1 DEF Sign, TypeOK
      <3>2. From[n] = None
        BY <1>1 DEF Sign, Unsent
      <3>3. QED
        BY <3>1, <3>2
    <2>2. \A m \in Nonces : m # n => sent'[m] = sent[m]
      BY <1>1 DEF Sign, TypeOK
    <2>3. now' = now /\ sent[n] = Unsent
      BY <1>1 DEF Sign, clocks
    <2>4. OldOnes' \in {OldOnes, OldOnes \cup {n}}
      <3>1. \A m \in Nonces : m # n => (m \in OldOnes' <=> m \in OldOnes)
        BY <2>2, <2>3 DEF Old
      <3>2. n \notin OldOnes /\ OldOnes \subseteq Nonces /\ OldOnes' \subseteq Nonces
        BY <2>3
      <3> HIDE DEF OldOnes
      <3>3. QED
        BY <3>1, <3>2
    <2>5. UNCHANGED <<devices, accepted, served, failed, refused>>
      BY <1>1 DEF Sign, table, outcome
    <2>6. D!Issue(n, d)
      BY <2>1, <2>4, <2>5 DEF D!Issue
    <2>7. QED
      BY <2>6 DEF D!Next
  <1>2. ASSUME NEW d \in Devices, DeleteDevice(d) PROVE D!Next
    <2>1. UNCHANGED <<From, OldOnes>>
      BY <1>2 DEF DeleteDevice, clocks, Old
    <2>2. D!Leave(d)
      BY <1>2, <2>1 DEF DeleteDevice, outcome, D!Leave
    <2>3. QED
      BY <2>2 DEF D!Next
  <1>3. ASSUME Tick PROVE D!Next
    <2>1. UNCHANGED <<From, devices, accepted, served, failed, refused>>
      BY <1>3 DEF Tick, table, outcome
    <2>2. OldOnes \subseteq OldOnes' /\ OldOnes' \subseteq Nonces
      BY <1>3, TimesAreNat DEF Tick, Old, TypeOK
    <2>3. OldOnes' \subseteq D!Issued
      BY <1>3, IssuedThere DEF Tick, Issued
    <2>4. OldOnes' = OldOnes \cup OldOnes'
      BY <2>2
    <2>5. PICK R \in SUBSET Nonces : R = OldOnes'
      BY <2>2
    <2>6. D!Age(R)
      BY <2>1, <2>3, <2>4, <2>5 DEF D!Age
    <2>7. QED
      BY <2>6 DEF D!Next
  <1>4. QED
    BY <1>1, <1>2, <1>3

LEMMA NextDelivers == TypeOK /\ NonceInv /\ [Next]_vars => [D!Next]_(D!vars)
  <1>1. ASSUME UNCHANGED vars PROVE UNCHANGED D!vars
    BY <1>1 DEF vars, clocks, table, outcome, D!vars, Old
  <1>2. QED
    BY <1>1, HandlerDelivers, OtherDelivers DEF Next

(* What the authentication of requests does is Delivery, for any number of  *)
(* booths, pods, requests and copies, clocks that differ, delays without    *)
(* bound, and inserts that fail before or after they were committed.        *)
THEOREM ImplementsDelivery == Spec => DeliversOnce
  <1>1. QED
    BY InitDelivers, NextDelivers, NonceInvariant, PTL DEF Spec, DeliversOnce, D!Spec

=============================================================================
