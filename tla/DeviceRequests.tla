--------------------------- MODULE DeviceRequests ---------------------------
(***************************************************************************)
(* Signed device requests at the API: every request carries a timestamp of *)
(* the booth's clock and a fresh nonce; a request may reach the API more   *)
(* than once, at several pods, late and concurrently with its own copies.  *)
(*                                                                         *)
(* Authentication is a sequence of steps with awaits between them: the     *)
(* test of the timestamp, the lookup of the device, the reading of the     *)
(* body, the pruning of expired nonces, the insertion of the new one and   *)
(* the way into the rest of the pipeline. Nothing bounds how long any of   *)
(* them takes. Booths and pods have clocks of their own.                   *)
(***************************************************************************)
EXTENDS Integers, FiniteSets

CONSTANTS
  Devices,      \* registered booths
  None,         \* no device, no nonce, no pod
  Nonces,       \* fresh GUIDs; a nonce names the request that carries it
  Pods,         \* API pods, which share one database
  Handlers,     \* requests and retention cycles at work at a time
  Tolerance,    \* TimestampTolerance
  Lifetime,     \* NonceLifetime
  Skew,         \* how far a booth's clock may be off
  PodSkew,      \* how far a pod's clock may be off
  MaxNow        \* bound: time

ASSUME NoneIsNew == None \notin Devices /\ None \notin Nonces /\ None \notin Pods
ASSUME TimesAreNat ==
  /\ Tolerance \in Nat /\ Lifetime \in Nat /\ Skew \in Nat
  /\ PodSkew \in Nat /\ MaxNow \in Nat

VARIABLES
  now,          \* real time
  ahead,        \* by how much each booth's clock is ahead
  drift,        \* by how much each pod's clock is ahead
  devices,      \* devices table
  sent,         \* the request each nonce was drawn for
  rows,         \* device_request_nonces
  serial,       \* how many rows there have been, for their Id
  job,          \* what each handler is doing
  served,       \* how often each request was let through
  accepted,     \* history: requests whose nonce was stored
  failed,       \* history: requests whose insert failed for another reason
  refused       \* history: requests refused as a replay

clocks == <<now, ahead, drift>>
table == <<rows, serial, accepted>>
outcome == <<served, failed, refused>>
vars == <<clocks, devices, sent, table, job, outcome>>

Unsent == [dev |-> None, ts |-> 0, at |-> 0]

Resting ==
  [at |-> "idle", nonce |-> None, pod |-> None, dev |-> None, since |-> 0,
   seen |-> {}, until |-> 0]

Init ==
  /\ now = 0
  /\ ahead \in [Devices -> -Skew..Skew]
  /\ drift \in [Pods -> -PodSkew..PodSkew]
  /\ devices = Devices
  /\ sent = [n \in Nonces |-> Unsent]
  /\ rows = {} /\ serial = 0
  /\ job = [h \in Handlers |-> Resting]
  /\ served = [n \in Nonces |-> 0]
  /\ accepted = {} /\ failed = {} /\ refused = {}

(* DateTime.UtcNow at a pod.                                                *)
UtcNow(p) == now + drift[p]

(* The rows a pod takes for expired.                                        *)
Expired(p) == {r \in rows : r.expires <= UtcNow(p)}

(* The unique index on device and nonce has an entry.                       *)
Taken(n) == \E r \in rows : r.nonce = n

SetJob(h, rec) == job' = [job EXCEPT ![h] = rec]

-----------------------------------------------------------------------------
(* SendSignedAsync draws a nonce for every request, retries included.       *)
Sign(n, d) ==
  /\ sent[n] = Unsent
  /\ sent' = [sent EXCEPT ![n] = [dev |-> d, ts |-> now + ahead[d], at |-> now]]
  /\ UNCHANGED <<clocks, devices, table, job, outcome>>

Checked(p, n) ==
  [Resting EXCEPT !.at = "checked", !.nonce = n, !.pod = p, !.since = now]

(* Mutant: timestamps are only tested against the future.                   *)
ReceiveLate(h, p, n) ==
  /\ job[h].at = "idle"
  /\ sent[n] # Unsent
  /\ sent[n].ts - UtcNow(p) <= Tolerance
  /\ SetJob(h, Checked(p, n))
  /\ UNCHANGED <<clocks, devices, sent, table, outcome>>

(* Mutant: the nonce is stored before the signature is verified.            *)
ReceiveStores(h, p, n) ==
  /\ job[h].at = "idle"
  /\ sent[n] # Unsent
  /\ UtcNow(p) - sent[n].ts <= Tolerance
  /\ sent[n].ts - UtcNow(p) <= Tolerance
  /\ SetJob(h, Checked(p, n))
  /\ rows' = rows \cup {[nonce |-> n, expires |-> UtcNow(p) + Lifetime, id |-> serial]}
  /\ serial' = serial + 1
  /\ UNCHANGED <<clocks, devices, sent, accepted, outcome>>

(* A copy of a request reaches a pod, and its timestamp is good.            *)
Receive(h, p, n) ==
  /\ job[h].at = "idle"
  /\ sent[n] # Unsent
  /\ UtcNow(p) - sent[n].ts <= Tolerance
  /\ sent[n].ts - UtcNow(p) <= Tolerance
  /\ SetJob(h, Checked(p, n))
  /\ UNCHANGED <<clocks, devices, sent, table, outcome>>

(* GetByIdAsync.                                                            *)
Found(d) == IF d \in devices THEN d ELSE None

(* Mutant: the device is not looked for before its key is used.             *)
LookUpUnchecked(h) ==
  /\ job[h].at = "checked"
  /\ SetJob(h, [job[h] EXCEPT !.at = "verified",
                              !.dev = Found(sent[job[h].nonce].dev)])
  /\ UNCHANGED <<clocks, devices, sent, table, outcome>>

(* The device is there, the body is read and the signature verified.        *)
LookUp(h) ==
  /\ job[h].at = "checked"
  /\ Found(sent[job[h].nonce].dev) # None
  /\ SetJob(h, [job[h] EXCEPT !.at = "verified",
                              !.dev = Found(sent[job[h].nonce].dev)])
  /\ UNCHANGED <<clocks, devices, sent, table, outcome>>

(* Mutant: a nonce lives as long as a timestamp is tolerated.               *)
NewNonceBrief(h) ==
  [job[h] EXCEPT !.at = "storing", !.seen = {},
                 !.until = UtcNow(job[h].pod) + Tolerance]

(* The new DeviceRequestNonce, with its ExpiresAt, on the way to the table. *)
NewNonce(h) ==
  [job[h] EXCEPT !.at = "storing", !.seen = {},
                 !.until = UtcNow(job[h].pod) + Lifetime]

(* DeleteExpiredAsync reads the expired nonces, of all devices, ...         *)
Prune(h) ==
  LET old == Expired(job[h].pod) IN
  /\ job[h].at = "verified"
  /\ SetJob(h, IF old = {} THEN NewNonce(h)
               ELSE [job[h] EXCEPT !.at = "pruning", !.seen = old])
  /\ UNCHANGED <<clocks, devices, sent, table, outcome>>

(* ... and deletes them; when another request was faster the save throws.   *)
PruneSave(h) ==
  LET done == job[h].seen \subseteq rows IN
  /\ job[h].at = "pruning"
  /\ rows' = IF done THEN rows \ job[h].seen ELSE rows
  /\ SetJob(h, IF done THEN NewNonce(h) ELSE Resting)
  /\ UNCHANGED <<clocks, devices, sent, serial, accepted, outcome>>

(* The retention job of a pod does the same for itself.                     *)
Sweep(h, p) ==
  /\ job[h].at = "idle"
  /\ Expired(p) # {}
  /\ SetJob(h, [Resting EXCEPT !.at = "sweeping", !.pod = p, !.seen = Expired(p)])
  /\ UNCHANGED <<clocks, devices, sent, table, outcome>>

SweepSave(h) ==
  /\ job[h].at = "sweeping"
  /\ rows' = IF job[h].seen \subseteq rows THEN rows \ job[h].seen ELSE rows
  /\ SetJob(h, Resting)
  /\ UNCHANGED <<clocks, devices, sent, serial, accepted, outcome>>

(* The insert commits: the nonce is new, and the device still there.        *)
Insert(h) ==
  LET n == job[h].nonce IN
  /\ ~Taken(n) /\ job[h].dev \in devices
  /\ rows' = rows \cup {[nonce |-> n, expires |-> job[h].until, id |-> serial]}
  /\ serial' = serial + 1
  /\ accepted' = accepted \cup {n}

(* TryStoreAsync succeeds.                                                  *)
Store(h) ==
  /\ job[h].at = "storing"
  /\ Insert(h)
  /\ SetJob(h, [job[h] EXCEPT !.at = "stored"])
  /\ UNCHANGED <<clocks, devices, sent, outcome>>

(* TryStoreAsync reports a replay: the nonce is there, or the device has    *)
(* been deleted since.                                                      *)
StoreRefused(h) ==
  LET n == job[h].nonce IN
  /\ job[h].at = "storing"
  /\ Taken(n) \/ job[h].dev \notin devices
  /\ refused' = refused \cup {n}
  /\ SetJob(h, Resting)
  /\ UNCHANGED <<clocks, devices, sent, table, served, failed>>

(* It reports one for every other DbUpdateException as well: a timeout, a   *)
(* broken connection, before or after the database committed the insert.    *)
StoreFails(h) ==
  LET n == job[h].nonce IN
  /\ job[h].at = "storing"
  /\ Insert(h) \/ UNCHANGED table
  /\ failed' = failed \cup {n}
  /\ refused' = refused \cup {n}
  /\ SetJob(h, Resting)
  /\ UNCHANGED <<clocks, devices, sent, served>>

(* The request has its principal and goes on to its controller.             *)
LetThrough(h) ==
  LET n == job[h].nonce IN
  /\ job[h].at = "stored"
  /\ served' = [served EXCEPT ![n] = @ + 1]
  /\ SetJob(h, Resting)
  /\ UNCHANGED <<clocks, devices, sent, table, failed, refused>>

(* The request ends early: its device is gone, its body does not come, the  *)
(* caller hangs up, a read of the database throws, the pod dies. A nonce    *)
(* that is stored stays.                                                    *)
Drop(h) ==
  /\ job[h].at # "idle"
  /\ SetJob(h, Resting)
  /\ UNCHANGED <<clocks, devices, sent, table, outcome>>

(* An admin deletes a device; its nonces go with it.                        *)
DeleteDevice(d) ==
  /\ d \in devices
  /\ devices' = devices \ {d}
  /\ rows' = {r \in rows : sent[r.nonce].dev # d}
  /\ UNCHANGED <<clocks, sent, serial, accepted, job, outcome>>

(* Time passes, wherever the handlers are.                                  *)
Tick ==
  /\ now < MaxNow
  /\ now' = now + 1
  /\ UNCHANGED <<ahead, drift, devices, sent, table, job, outcome>>

-----------------------------------------------------------------------------
Authenticate(h) ==
  \/ \E p \in Pods, n \in Nonces : Receive(h, p, n)
  \/ LookUp(h) \/ Prune(h) \/ PruneSave(h)
  \/ Store(h) \/ StoreRefused(h) \/ StoreFails(h) \/ LetThrough(h)
  \/ Drop(h)

Retain(h) == (\E p \in Pods : Sweep(h, p)) \/ SweepSave(h)

Next ==
  \/ \E n \in Nonces, d \in Devices : Sign(n, d)
  \/ \E h \in Handlers : Authenticate(h) \/ Retain(h)
  \/ \E d \in Devices : DeleteDevice(d)
  \/ Tick

Spec == Init /\ [][Next]_vars

-----------------------------------------------------------------------------
Points ==
  {"idle", "checked", "verified", "pruning", "storing", "stored", "sweeping"}

NonceRows == [nonce : Nonces, expires : Int, id : Nat]

Jobs ==
  [at : Points, nonce : Nonces \cup {None}, pod : Pods \cup {None},
   dev : Devices \cup {None}, since : Nat, seen : SUBSET NonceRows, until : Int]

WellFormed(v) ==
  /\ v.at # "idle" => v.pod \in Pods
  /\ v.at \notin {"idle", "sweeping"} => v.nonce \in Nonces
  /\ v.at \in {"verified", "pruning", "storing", "stored"} => v.dev \in Devices

(* Every variable stays in the set of values the code can give it, and a    *)
(* request whose signature was verified has a device.                       *)
TypeOK ==
  /\ now \in 0..MaxNow
  /\ ahead \in [Devices -> -Skew..Skew]
  /\ drift \in [Pods -> -PodSkew..PodSkew]
  /\ devices \subseteq Devices
  /\ sent \in [Nonces -> [dev : Devices \cup {None}, ts : Int, at : Nat]]
  /\ rows \subseteq NonceRows
  /\ serial \in Nat
  /\ job \in [Handlers -> Jobs]
  /\ \A h \in Handlers : WellFormed(job[h])
  /\ served \in [Nonces -> Nat]
  /\ accepted \subseteq Nonces /\ failed \subseteq Nonces /\ refused \subseteq Nonces

(* A nonce is remembered for Lifetime, a timestamp is good for Tolerance    *)
(* and tested before the body is read: a request that was let through can   *)
(* be let through again only by a copy that has itself waited in its        *)
(* handler for what the one outlasts the other by, give or take the clocks. *)
(* Whichever pods have the copies, and whoever prunes: no repeat is quick.  *)
RepeatsHaveWaited ==
  \A h \in Handlers :
    LET n == job[h].nonce IN
    job[h].at = "stored" /\ served[n] > 0 =>
      now - job[h].since >=
        Lifetime - Tolerance - ahead[sent[n].dev] - 3 * PodSkew

(* Not so, though the README has the backend reject replayed nonces: a      *)
(* request is let through at most once. A copy that gets to the table late  *)
(* enough is let through as well.                                           *)
AtMostOnce == \A n \in Nonces : served[n] <= 1

(* Not so, though the answer is "Replay attack detected for this nonce.": a *)
(* request that is refused with these words was accepted. StoreFails and a  *)
(* device that was deleted give the same answer.                            *)
RefusalIsRepeat == refused \subseteq accepted

(* A copy of this request can find its row gone, on the clocks of the pods. *)
Old(n) == now >= sent[n].at + Lifetime - 2 * PodSkew

(* To the booths all of this is Delivery: every step of a handler is a step *)
(* of it, or nothing that a booth could tell.                               *)
D == INSTANCE Delivery WITH
  Requests <- Nonces, Senders <- Devices,
  from <- [n \in Nonces |-> sent[n].dev], members <- devices, done <- served,
  old <- {n \in Nonces : sent[n] # Unsent /\ Old(n)}

DeliversOnce == D!Spec

=============================================================================
