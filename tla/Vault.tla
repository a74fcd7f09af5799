------------------------------- MODULE Vault -------------------------------
(***************************************************************************)
(* What the server promises about photos, whatever requests, workers,      *)
(* failures and restarts do: a photo that was accepted in time can be seen *)
(* until it is withdrawn or archived; its file goes before its row; and an *)
(* event that nobody deleted goes last, archived and with no file left.    *)
(* PhotoLifecycle implements this when no archive is lost.                 *)
(***************************************************************************)

CONSTANTS
  Events,
  Photos,
  None          \* no event yet

VARIABLES
  event,        \* is an event unborn, there or gone
  album,        \* the event of each photo that was accepted
  listed,       \* photos of the gallery
  stored,       \* photos that have a file
  zipped,       \* photos in an archive
  archived,     \* events that have an archive
  withdrawn,    \* photos somebody asked to delete
  doomed        \* events somebody asked to delete

photos == <<album, listed, stored, zipped, withdrawn>>
events == <<event, archived, doomed>>
vars == <<photos, events>>

Of(e) == {p \in Photos : album[p] = e}
Wanted(p) == p \notin withdrawn /\ album[p] \notin doomed

Init ==
  /\ event = [e \in Events |-> "unborn"]
  /\ album = [p \in Photos |-> None]
  /\ listed = {} /\ stored = {} /\ zipped = {} /\ withdrawn = {}
  /\ archived = {} /\ doomed = {}

Create(e) ==
  /\ event[e] = "unborn"
  /\ event' = [event EXCEPT ![e] = "there"]
  /\ UNCHANGED <<photos, archived, doomed>>

(* A photo is accepted with its file, unless its event is being deleted.    *)
Accept(p, e) ==
  /\ event[e] = "there" /\ e \notin archived
  /\ album[p] = None
  /\ album' = [album EXCEPT ![p] = e]
  /\ listed' = listed \cup {p}
  /\ \/ stored' = stored \cup {p}
     \/ (e \in doomed /\ UNCHANGED stored)
  /\ UNCHANGED <<zipped, withdrawn, events>>

Withdraw(p) ==
  /\ p \in listed
  /\ withdrawn' = withdrawn \cup {p}
  /\ UNCHANGED <<album, listed, stored, zipped, events>>

Doom(e) ==
  /\ event[e] = "there"
  /\ doomed' = doomed \cup {e}
  /\ UNCHANGED <<photos, event, archived>>

(* An archive has every photo of its event that is wanted, and none of      *)
(* another event.                                                           *)
Archive(e) ==
  /\ \E zip \in SUBSET Of(e) :
       /\ {p \in Of(e) : Wanted(p)} \subseteq zip
       /\ zipped' = zipped \cup zip
  /\ archived' = archived \cup {e}
  /\ UNCHANGED <<album, listed, stored, withdrawn, event, doomed>>

Erase(P) ==
  /\ \A p \in P : Wanted(p) => p \in zipped
  /\ stored' = stored \ P
  /\ UNCHANGED <<album, listed, zipped, withdrawn, events>>

Unlist(p) ==
  /\ p \in withdrawn \ stored
  /\ listed' = listed \ {p}
  /\ UNCHANGED <<album, stored, zipped, withdrawn, events>>

Remove(E) ==
  /\ \A e \in E :
       /\ event[e] = "there"
       /\ e \in doomed \/ (e \in archived /\ Of(e) \cap stored = {})
  /\ event' = [e \in Events |-> IF e \in E THEN "gone" ELSE event[e]]
  /\ listed' = {p \in listed : album[p] \notin E}
  /\ UNCHANGED <<album, stored, zipped, withdrawn, archived, doomed>>

Next ==
  \/ \E e \in Events : Create(e) \/ Doom(e) \/ Archive(e)
  \/ \E p \in Photos : Withdraw(p) \/ Unlist(p) \/ \E e \in Events : Accept(p, e)
  \/ \E P \in SUBSET stored : Erase(P)
  \/ \E E \in SUBSET Events : Remove(E)

Spec == Init /\ [][Next]_vars

-----------------------------------------------------------------------------
(* The vault keeps what was put into it: a photo that is wanted can be seen *)
(* in the gallery or is in an archive.                                      *)
Kept ==
  \A p \in Photos : album[p] # None /\ Wanted(p) =>
    p \in listed \cap stored \/ p \in zipped

(* What went without anybody's asking went last: an event that is gone and  *)
(* that nobody deleted is archived, and has left no file behind.            *)
GoneLast ==
  \A e \in Events : event[e] = "gone" /\ e \notin doomed =>
    e \in archived /\ Of(e) \cap stored = {}

=============================================================================
