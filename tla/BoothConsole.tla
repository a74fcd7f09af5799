---------------------------- MODULE BoothConsole ----------------------------
(***************************************************************************)
(* The booth's console in the browser: it asks for the status of the booth *)
(* every few seconds, whether or not it has an answer, and after each of   *)
(* its commands; the last answer to arrive is shown, and its buttons are   *)
(* enabled by what is shown. A key pair that it generated waits in it for  *)
(* the registration that uses it. BoothRuntime models what the commands do *)
(* on the booth; here they only end in one of its states.                  *)
(***************************************************************************)
EXTENDS PageVisit

CONSTANT Keys         \* key pairs that are generated

Lifecycles == {"stopped", "starting", "running", "stopping", "error"}

(* key: the one in the config, of which there may be none; a config that is *)
(* imported has a key from elsewhere, as has one that registers without.    *)
Elsewhere == "elsewhere"

Statuses == [key : Keys \cup {None, Elsewhere}, lifecycle : Lifecycles]

(* status: what updateStatus showed last, pending: pendingKeyPair.          *)
Init ==
  /\ server \in [key : {None, Elsewhere}, lifecycle : {"stopped", "running", "error"}]
  /\ server.key = None => server.lifecycle = "stopped"
  /\ page = [status |-> None, pending |-> None]
  /\ VisitInit

-----------------------------------------------------------------------------
(* The runner goes its way: it is up, has ended, or fails.                  *)
RunnerMoves ==
  /\ Spend
  /\ \/ server.lifecycle = "starting" /\ server' = [server EXCEPT !.lifecycle = "running"]
     \/ server.lifecycle = "stopping" /\ server' = [server EXCEPT !.lifecycle = "stopped"]
     \/ /\ server.lifecycle \in {"starting", "running", "stopping"}
        /\ server' = [server EXCEPT !.lifecycle = "error"]
  /\ disturbed' = TRUE
  /\ UNCHANGED <<page, call>>

(* Until a status is shown the buttons are as the document has them.        *)
StartDisabled ==
  /\ page.status # None
  /\ page.status.key = None \/ page.status.lifecycle \in {"running", "starting"}

StopDisabled ==
  /\ page.status # None
  /\ page.status.lifecycle \in {"stopped", "stopping"}

(* The timer of the page asks again, beside whatever is in flight.          *)
Poll(c) ==
  /\ call[c] = Idle
  /\ SetCall(c, Loading)
  /\ disturbed' = (disturbed \/ ~Quiet)
  /\ UNCHANGED <<server, page, left>>

Command(c, op, key) == Send(c, op, [key |-> key]) /\ UNCHANGED <<server, page>>

GenerateKey(c) == Command(c, "generate", None)

(* The key pair is the one of this moment, if there is one.                 *)
Register(c) == Command(c, "register", page.pending)

ImportConfig(c) == Command(c, "import", None)

StartRunner(c) == ~StartDisabled /\ Command(c, "start", None)

StopRunner(c) == ~StopDisabled /\ Command(c, "stop", None)

-----------------------------------------------------------------------------
(* A key that is in use, or in a message, is not generated again.           *)
FreshKeys ==
  Keys \ ({server.key, page.pending}
            \cup {call[c].arg.key : c \in {d \in Calls : call[d].arg # None}})

Commands == {"generate", "register", "import", "start", "stop"}

(* The task of the runner is not completed.                                 *)
AtWork == {"starting", "running", "stopping"}

(* A stop tells the runner to end; it is answered once that has ended.      *)
StopBegins(c) ==
  /\ Sent(c, "stop") /\ server.lifecycle \in {"running", "starting"}
  /\ server' = [server EXCEPT !.lifecycle = "stopping"]
  /\ UNCHANGED <<page, call, disturbed, left>>

(* The booth carries a command out, or refuses it: before it has done       *)
(* anything, or with a config that is saved and a runner that fails.        *)
Obey(c) ==
  LET arg == call[c].arg IN
  /\ call[c].op \in Commands /\ call[c].at = "sent"
  /\ \/ /\ call[c].op = "generate"
        /\ \E k \in FreshKeys : SetCall(c, [call[c] EXCEPT !.at = "served", !.arg.key = k])
        /\ UNCHANGED server
     \/ /\ call[c].op \in {"register", "import"}
        /\ server' = [key |-> IF arg.key = None THEN Elsewhere ELSE arg.key,
                      lifecycle |-> "starting"]
        /\ Serve(c, None) \/ Refuse(c)
     \/ /\ call[c].op = "start" /\ server.key # None /\ Serve(c, None)
        /\ server' = [server EXCEPT !.lifecycle = IF @ \in AtWork THEN @ ELSE "starting"]
     \/ /\ call[c].op = "stop" /\ Serve(c, None)
        /\ server.lifecycle \notin {"running", "starting"}
        /\ server' = [server EXCEPT !.lifecycle = "stopped"]
     \/ UNCHANGED server /\ Refuse(c)
  /\ UNCHANGED <<page, disturbed, left>>

(* The status is that of one moment.                                        *)
GetStatus(c) ==
  /\ Sent(c, "load") /\ Serve(c, server)
  /\ UNCHANGED <<server, page, disturbed, left>>

(* showFlash of an error is all that comes of it.                           *)
CallFails(c) ==
  /\ call[c].op # "none" /\ Fails(c)
  /\ SetCall(c, Idle)
  /\ disturbed' = TRUE
  /\ UNCHANGED <<server, page>>

Generated(c) ==
  /\ Served(c, "generate")
  /\ page' = [page EXCEPT !.pending = call[c].arg.key]
  /\ SetCall(c, Idle)
  /\ UNCHANGED <<server, disturbed, left>>

(* Mutant: the key stays in the form after its registration.                *)
ObeyedKeepsKey(c) ==
  /\ call[c].op \in Commands \ {"generate"} /\ call[c].at = "served"
  /\ UNCHANGED page
  /\ SetCall(c, Loading)
  /\ UNCHANGED <<server, disturbed, left>>

(* A command is done: the status is loaded, after a registration without    *)
(* the key, whichever is there by now.                                      *)
Obeyed(c) ==
  /\ call[c].op \in Commands \ {"generate"} /\ call[c].at = "served"
  /\ page' = IF call[c].op = "register" THEN [page EXCEPT !.pending = None] ELSE page
  /\ SetCall(c, Loading)
  /\ UNCHANGED <<server, disturbed, left>>

(* updateStatus                                                             *)
updateStatus(c) ==
  /\ Served(c, "load")
  /\ page' = [page EXCEPT !.status = call[c].got]
  /\ SetCall(c, Idle)
  /\ UNCHANGED <<server, disturbed, left>>

Progress(c) ==
  \/ StopBegins(c) \/ Obey(c) \/ GetStatus(c) \/ CallFails(c)
  \/ Generated(c) \/ Obeyed(c) \/ updateStatus(c)

Click(c) ==
  \/ GenerateKey(c) \/ Register(c) \/ ImportConfig(c)
  \/ StartRunner(c) \/ StopRunner(c)

Next == RunnerMoves \/ \E c \in Calls : Poll(c) \/ Click(c) \/ Progress(c)

Spec == Init /\ [][Next]_vars

-----------------------------------------------------------------------------
(* Every variable stays in the set of values the code can give it.          *)
TypeOK ==
  /\ server \in Statuses
  /\ page \in [status : Statuses \cup {None}, pending : Keys \cup {None}]
  /\ call \in CallsOf(Commands \cup {"load"}, [key : Keys \cup {None}], Statuses)
  /\ disturbed \in BOOLEAN /\ left \in 0..MaxInputs

(* A key pair serves one registration: the form does not offer the key that *)
(* the booth has been registered with, unless nobody knows that it has.     *)
KeyUsedOnce ==
  Quiet /\ ~disturbed /\ page.pending # None => page.pending # server.key

(* Once its calls are answered, a console that did one thing at a time, on  *)
(* a booth that did nothing by itself, shows the booth as it is.            *)
ShowsOwnWork ==
  Quiet /\ ~disturbed => page.status = server

=============================================================================
