----------------------------- MODULE PageVisit -----------------------------
(***************************************************************************)
(* What all visits to a page of the web app have in common: the page calls *)
(* the API, several calls may be in flight, each is served at some moment, *)
(* answered at a later one, or lost on either way. The modules of pages    *)
(* say what is served and what an answer does.                             *)
(*                                                                         *)
(* What people do, what the network spoils, and what others do to the same *)
(* data is bounded for a visit; answers are not.                           *)
(***************************************************************************)
EXTENDS Naturals, FiniteSets

CONSTANTS
  Calls,        \* bound: calls of the page in flight at a time
  MaxInputs,    \* bound: clicks, failures and deeds of others in a visit
  None          \* nothing

VARIABLES
  server,       \* the data of the server that the page is about
  page,         \* the state of the page's components
  call,         \* what each call of the page is doing
  disturbed,    \* history: others wrote, or calls of the page overlapped
  left          \* inputs that may still come

vars == <<server, page, call, disturbed, left>>

Idle == [op |-> "none", at |-> "idle", arg |-> None, got |-> None]

(* The call of the effect that loads what the page shows.                   *)
Loading == [Idle EXCEPT !.op = "load", !.at = "sent"]

VisitInit ==
  /\ call = [c \in Calls |-> IF c = CHOOSE d \in Calls : TRUE THEN Loading ELSE Idle]
  /\ disturbed = FALSE
  /\ left = MaxInputs

Quiet == \A c \in Calls : call[c] = Idle

Spend == left > 0 /\ left' = left - 1

SetCall(c, rec) == call' = [call EXCEPT ![c] = rec]

(* A click sends a call.                                                    *)
Send(c, op, arg) ==
  /\ Spend
  /\ call[c] = Idle
  /\ SetCall(c, [Idle EXCEPT !.op = op, !.at = "sent", !.arg = arg])
  /\ disturbed' = (disturbed \/ ~Quiet)

Sent(c, op) == call[c].op = op /\ call[c].at = "sent"

(* The server has carried it out, or read what was asked for; or it refuses *)
(* to, with a status that is not OK.                                        *)
Serve(c, got) == SetCall(c, [call[c] EXCEPT !.at = "served", !.got = got])

Refuse(c) == SetCall(c, [call[c] EXCEPT !.at = "refused"])

Served(c, op) == call[c].op = op /\ call[c].at = "served"

(* A call ends with an error: the answer is not OK, and request throws, or  *)
(* fetch throws because the request or its answer is lost.                  *)
Fails(c) ==
  \/ call[c].at = "refused" /\ UNCHANGED left
  \/ call[c].at \in {"sent", "served"} /\ Spend

(* The records that a call can be, given its operations, what they are      *)
(* about, and what is read.                                                 *)
CallsOf(ops, args, reads) ==
  [Calls -> [op : ops \cup {"none"},
             at : {"idle", "sent", "served", "refused"},
             arg : args \cup {None}, got : reads \cup {None}]]

=============================================================================
