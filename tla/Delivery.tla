------------------------------ MODULE Delivery ------------------------------
(***************************************************************************)
(* What the API promises the booths about their requests, whatever becomes *)
(* of copies, clocks and pods: a request is accepted only while its booth  *)
(* is registered; while it is young it is accepted once and let through at *)
(* most once, and only after it was accepted. It is called a replay only   *)
(* once it was accepted, without its booth, or when storing it failed: a   *)
(* request can be accepted, never get through and be refused from then on. *)
(* DeviceRequests implements this.                                         *)
(***************************************************************************)
EXTENDS Naturals

CONSTANTS
  Requests,
  Senders,
  None          \* no sender yet

VARIABLES
  from,         \* the sender of each request that was issued
  members,      \* the senders that are registered
  old,          \* requests that may be forgotten
  accepted,     \* requests that were accepted
  done,         \* how often each request was let through
  failed,       \* requests that could not be stored, or not for certain
  refused       \* requests that were called replays

vars == <<from, members, old, accepted, done, failed, refused>>

Issued == {r \in Requests : from[r] # None}

Init ==
  /\ from = [r \in Requests |-> None]
  /\ members = Senders
  /\ old = {} /\ accepted = {} /\ failed = {} /\ refused = {}
  /\ done = [r \in Requests |-> 0]

Issue(r, s) ==
  /\ from[r] = None
  /\ from' = [from EXCEPT ![r] = s]
  /\ old' \in {old, old \cup {r}}
  /\ UNCHANGED <<members, accepted, done, failed, refused>>

MayAccept(r) == from[r] \in members /\ (r \in accepted => r \in old)

Accept(r) ==
  /\ MayAccept(r)
  /\ accepted' = accepted \cup {r}
  /\ UNCHANGED <<from, members, old, done, failed, refused>>

LetThrough(r) ==
  /\ r \in accepted
  /\ done[r] > 0 => r \in old
  /\ done' = [done EXCEPT ![r] = @ + 1]
  /\ UNCHANGED <<from, members, old, accepted, failed, refused>>

Refuse(r) ==
  /\ r \in Issued
  /\ r \in accepted \/ from[r] \notin members
  /\ refused' = refused \cup {r}
  /\ UNCHANGED <<from, members, old, accepted, done, failed>>

(* It cannot be told whether the request was stored.                        *)
Fail(r) ==
  /\ r \in Issued
  /\ \/ MayAccept(r) /\ accepted' = accepted \cup {r}
     \/ UNCHANGED accepted
  /\ failed' = failed \cup {r}
  /\ refused' = refused \cup {r}
  /\ UNCHANGED <<from, members, old, done>>

Age(R) ==
  /\ R \subseteq Issued
  /\ old' = old \cup R
  /\ UNCHANGED <<from, members, accepted, done, failed, refused>>

Leave(s) ==
  /\ s \in members
  /\ members' = members \ {s}
  /\ UNCHANGED <<from, old, accepted, done, failed, refused>>

Next ==
  \/ \E r \in Requests, s \in Senders : Issue(r, s)
  \/ \E r \in Requests : Accept(r) \/ LetThrough(r) \/ Refuse(r) \/ Fail(r)
  \/ \E R \in SUBSET Requests : Age(R)
  \/ \E s \in Senders : Leave(s)

Spec == Init /\ [][Next]_vars

=============================================================================
