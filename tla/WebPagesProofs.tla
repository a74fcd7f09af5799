--------------------------- MODULE WebPagesProofs ---------------------------
(***************************************************************************)
(* Theorems about the visits to the pages of WebPages, for any number of   *)
(* calls in flight, devices, events, photos, settings, passwords and keys, *)
(* and for visits of any length.                                           *)
(*                                                                         *)
(* Each page has an invariant of its own, in parts: its types (...Typed),  *)
(* what its flags say of the calls in flight (...Busy), and what its data  *)
(* and the answers on their way say of the server's (...Shows), as long as *)
(* nobody else wrote and no calls overlapped. For each kind of step a      *)
(* lemma says what it makes of its call, of the page and of the server;    *)
(* that a step keeps a part of the invariant then follows from those.      *)
(***************************************************************************)
EXTENDS WebPages, TLAPS, FiniteSetTheorems

-----------------------------------------------------------------------------
(* Calls are records; what is in them is up to the page.                    *)
CallOf(V) == [op : V, at : V, arg : V, got : V]

CallsAre == \E V : call \in [Calls -> CallOf(V)]

(* Only the call c changes.                                                 *)
Becomes(c, op, at, arg) ==
  /\ call'[c].op = op /\ call'[c].at = at /\ call'[c].arg = arg
  /\ \A d \in Calls : d # c => call'[d] = call[d]

LEMMA CallBecomes ==
  ASSUME CallsAre, NEW c \in Calls, NEW W, NEW r \in CallOf(W), SetCall(c, r)
  PROVE  CallsAre' /\ Becomes(c, r.op, r.at, r.arg)
<1>1. PICK V : call \in [Calls -> CallOf(V)]
  BY DEF CallsAre
<1>2. CallOf(V) \subseteq CallOf(V \cup W) /\ CallOf(W) \subseteq CallOf(V \cup W)
  BY DEF CallOf
<1>3. call' = [call EXCEPT ![c] = r]
  BY DEF SetCall
<1>4. call' \in [Calls -> CallOf(V \cup W)] /\ call'[c] = r
      /\ \A d \in Calls : d # c => call'[d] = call[d]
  BY <1>1, <1>2, <1>3
<1> QED
  BY <1>4 DEF CallsAre, Becomes

LEMMA Begins ==
  ASSUME CallsAre, NEW c \in Calls, NEW op, NEW arg, Send(c, op, arg)
  PROVE  CallsAre' /\ Becomes(c, op, "sent", arg)
<1> DEFINE W == {"none", "idle", None, "sent", op, arg}
           r == [Idle EXCEPT !.op = op, !.at = "sent", !.arg = arg]
<1>1. Idle \in CallOf(W) /\ "sent" \in W /\ op \in W /\ arg \in W
  BY DEF CallOf, Idle
<1> HIDE DEF W
<1>2. r \in CallOf(W) /\ r.op = op /\ r.at = "sent" /\ r.arg = arg
  BY <1>1 DEF CallOf
<1>3. SetCall(c, r)
  BY DEF Send
<1> HIDE DEF r
<1> QED
  BY <1>2, <1>3, CallBecomes

LEMMA Ends ==
  ASSUME CallsAre, NEW c \in Calls, SetCall(c, Idle)
  PROVE  CallsAre' /\ Becomes(c, "none", "idle", None)
<1>1. Idle \in CallOf({"none", "idle", None})
      /\ Idle.op = "none" /\ Idle.at = "idle" /\ Idle.arg = None
  BY DEF Idle, CallOf
<1> QED
  BY <1>1, CallBecomes

LEMMA LoadIsACall == Loading \in CallOf({"none", "idle", None, "load", "sent"})
<1>1. Idle \in CallOf({"none", "idle", None, "load", "sent"})
  BY DEF Idle, CallOf
<1> QED
  BY <1>1 DEF Loading, CallOf

LEMMA Reloads ==
  ASSUME CallsAre, NEW c \in Calls, NEW op, SetCall(c, [Loading EXCEPT !.op = op])
  PROVE  CallsAre' /\ call'[c].op = op /\ \A d \in Calls : d # c => call'[d] = call[d]
<1> DEFINE W == {"none", "idle", None, "load", "sent", op}
           r == [Loading EXCEPT !.op = op]
<1>1. Loading \in CallOf(W) /\ op \in W
  BY LoadIsACall DEF CallOf
<1> HIDE DEF W
<1>2. r \in CallOf(W) /\ r.op = op
  BY <1>1 DEF CallOf
<1> HIDE DEF r
<1> QED
  BY <1>2, CallBecomes DEF r, Becomes

LEMMA IsServed ==
  ASSUME CallsAre, NEW c \in Calls, NEW got, Serve(c, got)
  PROVE  CallsAre' /\ Becomes(c, call[c].op, "served", call[c].arg)
<1>1. PICK V : call \in [Calls -> CallOf(V)]
  BY DEF CallsAre
<1> DEFINE W == V \cup {"served", got}
           r == [call[c] EXCEPT !.at = "served", !.got = got]
<1>2. call[c] \in CallOf(W) /\ "served" \in W /\ got \in W
  BY <1>1 DEF CallOf
<1> HIDE DEF W
<1>3. r \in CallOf(W) /\ r.op = call[c].op /\ r.at = "served" /\ r.arg = call[c].arg
  BY <1>2 DEF CallOf
<1>4. SetCall(c, r)
  BY DEF Serve
<1> HIDE DEF r
<1> QED
  BY <1>3, <1>4, CallBecomes

LEMMA IsRefused ==
  ASSUME CallsAre, NEW c \in Calls, Refuse(c)
  PROVE  CallsAre' /\ Becomes(c, call[c].op, "refused", call[c].arg)
<1>1. PICK V : call \in [Calls -> CallOf(V)]
  BY DEF CallsAre
<1> DEFINE W == V \cup {"refused"}
           r == [call[c] EXCEPT !.at = "refused"]
<1>2. call[c] \in CallOf(W) /\ "refused" \in W
  BY <1>1 DEF CallOf
<1> HIDE DEF W
<1>3. r \in CallOf(W) /\ r.op = call[c].op /\ r.at = "refused" /\ r.arg = call[c].arg
  BY <1>2 DEF CallOf
<1>4. SetCall(c, r)
  BY DEF Refuse
<1> HIDE DEF r
<1> QED
  BY <1>3, <1>4, CallBecomes

LEMMA FirstCalls ==
  ASSUME VisitInit
  PROVE  CallsAre /\ \A c \in Calls : call[c].op \in {"none", "load"}
<1>1. Idle \in CallOf({"none", "idle", None, "load", "sent"}) /\ Idle.op = "none"
  BY DEF Idle, CallOf
<1>2. Loading.op = "load"
  BY <1>1 DEF Loading, CallOf
<1> QED
  BY <1>1, <1>2, LoadIsACall DEF VisitInit, CallsAre

(* The calls of a page, with their types: a call without an operation is    *)
(* idle.                                                                    *)
CallsTyped(ops, args, reads) ==
  /\ call \in CallsOf(ops, args, reads)
  /\ \A c \in Calls : call[c].op = "none" => call[c] = Idle

(* Only the call c changes; the fields it has then.                         *)
Changes(c, op, at, arg, got) ==
  /\ call'[c].op = op /\ call'[c].at = at
  /\ call'[c].arg = arg /\ call'[c].got = got
  /\ \A d \in Calls : d # c => call'[d] = call[d]

LEMMA CallChanges ==
  ASSUME NEW ops, NEW args, NEW reads, CallsTyped(ops, args, reads),
         NEW c \in Calls, NEW r, SetCall(c, r),
         r \in [op : ops \cup {"none"}, at : {"idle", "sent", "served", "refused"},
                arg : args \cup {None}, got : reads \cup {None}],
         r.op = "none" => r = Idle
  PROVE  CallsTyped(ops, args, reads)' /\ Changes(c, r.op, r.at, r.arg, r.got)
<1>1. call' = [call EXCEPT ![c] = r]
  BY DEF SetCall
<1>2. call' \in CallsOf(ops, args, reads)
  BY <1>1 DEF CallsTyped, CallsOf
<1>3. \A d \in Calls : call'[d] = IF d = c THEN r ELSE call[d]
  BY <1>1 DEF CallsTyped, CallsOf
<1> QED
  BY <1>2, <1>3 DEF CallsTyped, Changes

LEMMA SendChanges ==
  ASSUME NEW ops, NEW args, NEW reads, CallsTyped(ops, args, reads),
         NEW c \in Calls, NEW op \in ops, NEW arg \in args \cup {None},
         op # "none", Send(c, op, arg)
  PROVE  /\ CallsTyped(ops, args, reads)' /\ Changes(c, op, "sent", arg, None)
         /\ call[c].op = "none"
<1> DEFINE r == [Idle EXCEPT !.op = op, !.at = "sent", !.arg = arg]
<1>1. /\ r \in [op : ops \cup {"none"}, at : {"idle", "sent", "served", "refused"},
                arg : args \cup {None}, got : reads \cup {None}]
      /\ r.op = op /\ r.at = "sent" /\ r.arg = arg /\ r.got = None
      /\ Idle.op = "none"
  BY DEF Idle
<1>2. SetCall(c, r) /\ call[c] = Idle
  BY DEF Send
<1> HIDE DEF r
<1>3. CallsTyped(ops, args, reads)' /\ Changes(c, r.op, r.at, r.arg, r.got)
  BY <1>1, <1>2, CallChanges
<1> QED
  BY <1>1, <1>2, <1>3

LEMMA ServeChanges ==
  ASSUME NEW ops, NEW args, NEW reads, CallsTyped(ops, args, reads),
         NEW c \in Calls, call[c].op # "none",
         NEW got \in reads \cup {None}, Serve(c, got)
  PROVE  /\ CallsTyped(ops, args, reads)'
         /\ Changes(c, call[c].op, "served", call[c].arg, got)
<1> DEFINE R == [op : ops \cup {"none"}, at : {"idle", "sent", "served", "refused"},
                 arg : args \cup {None}, got : reads \cup {None}]
           r == [call[c] EXCEPT !.at = "served", !.got = got]
<1>1. call[c] \in R
  BY DEF CallsTyped, CallsOf
<1>2. /\ r \in R /\ r.op = call[c].op /\ r.at = "served" /\ r.arg = call[c].arg
      /\ r.got = got
  BY <1>1
<1>3. SetCall(c, r)
  BY DEF Serve
<1> HIDE DEF r
<1> QED
  BY <1>2, <1>3, CallChanges

LEMMA RefuseChanges ==
  ASSUME NEW ops, NEW args, NEW reads, CallsTyped(ops, args, reads),
         NEW c \in Calls, call[c].op # "none", Refuse(c)
  PROVE  /\ CallsTyped(ops, args, reads)'
         /\ Changes(c, call[c].op, "refused", call[c].arg, call[c].got)
<1> DEFINE R == [op : ops \cup {"none"}, at : {"idle", "sent", "served", "refused"},
                 arg : args \cup {None}, got : reads \cup {None}]
           r == [call[c] EXCEPT !.at = "refused"]
<1>1. call[c] \in R
  BY DEF CallsTyped, CallsOf
<1>2. /\ r \in R /\ r.op = call[c].op /\ r.at = "refused" /\ r.arg = call[c].arg
      /\ r.got = call[c].got
  BY <1>1
<1>3. SetCall(c, r)
  BY DEF Refuse
<1> HIDE DEF r
<1> QED
  BY <1>2, <1>3, CallChanges

LEMMA EndChanges ==
  ASSUME NEW ops, NEW args, NEW reads, CallsTyped(ops, args, reads),
         NEW c \in Calls, SetCall(c, Idle)
  PROVE  CallsTyped(ops, args, reads)' /\ Changes(c, "none", "idle", None, None)
<1>1. /\ Idle \in [op : ops \cup {"none"}, at : {"idle", "sent", "served", "refused"},
                   arg : args \cup {None}, got : reads \cup {None}]
      /\ Idle.op = "none" /\ Idle.at = "idle" /\ Idle.arg = None /\ Idle.got = None
  BY DEF Idle
<1>2. CallsTyped(ops, args, reads)' /\ Changes(c, Idle.op, Idle.at, Idle.arg, Idle.got)
  BY <1>1, CallChanges
<1> QED
  BY <1>1, <1>2

LEMMA LoadChanges ==
  ASSUME NEW ops, NEW args, NEW reads, CallsTyped(ops, args, reads),
         NEW c \in Calls, NEW op \in ops, op # "none",
         SetCall(c, [Loading EXCEPT !.op = op])
  PROVE  CallsTyped(ops, args, reads)' /\ Changes(c, op, "sent", None, None)
<1> DEFINE r == [Loading EXCEPT !.op = op]
<1>1. /\ r \in [op : ops \cup {"none"}, at : {"idle", "sent", "served", "refused"},
                arg : args \cup {None}, got : reads \cup {None}]
      /\ r.op = op /\ r.at = "sent" /\ r.arg = None /\ r.got = None
  BY DEF Loading, Idle
<1> HIDE DEF r
<1>2. CallsTyped(ops, args, reads)' /\ Changes(c, r.op, r.at, r.arg, r.got)
  BY <1>1, CallChanges DEF r
<1> QED
  BY <1>1, <1>2

LEMMA LoadingIs ==
  /\ Loading.op = "load" /\ Loading.at = "sent"
  /\ Loading.arg = None /\ Loading.got = None
  /\ \A ops, args, reads : "load" \in ops =>
       Loading \in [op : ops \cup {"none"}, at : {"idle", "sent", "served", "refused"},
                   arg : args \cup {None}, got : reads \cup {None}]
  BY DEF Loading, Idle

LEMMA ReloadChanges ==
  ASSUME NEW ops, NEW args, NEW reads, CallsTyped(ops, args, reads),
         NEW c \in Calls, "load" \in ops, SetCall(c, Loading)
  PROVE  CallsTyped(ops, args, reads)' /\ Changes(c, "load", "sent", None, None)
<1>1. CallsTyped(ops, args, reads)'
      /\ Changes(c, Loading.op, Loading.at, Loading.arg, Loading.got)
  BY LoadingIs, CallChanges
<1> QED
  BY <1>1, LoadingIs

(* As long as nothing overlapped, a page has one call at most.              *)
Alone == \A c, d \in Calls : c # d => call[c].op = "none" \/ call[d].op = "none"

LEMMA VisitCalls ==
  ASSUME NEW ops, NEW args, NEW reads, "load" \in ops, VisitInit
  PROVE  CallsTyped(ops, args, reads)
<1>1. Idle = [op |-> "none", at |-> "idle", arg |-> None, got |-> None]
  BY DEF Idle
<1> QED
  BY <1>1, LoadingIs DEF VisitInit, CallsTyped, CallsOf

LEMMA VisitBegins ==
  ASSUME VisitInit
  PROVE  /\ \A c \in Calls : call[c].op \in {"none", "load"} /\ call[c].at # "served"
         /\ disturbed = FALSE /\ left = MaxInputs
         /\ Alone /\ ~Quiet
<1>1. Idle = [op |-> "none", at |-> "idle", arg |-> None, got |-> None]
  BY DEF Idle
<1>2. PICK x \in Calls : call = [c \in Calls |-> IF c = x THEN Loading ELSE Idle]
  BY PagesCall DEF VisitInit
<1> QED
  BY <1>1, <1>2, LoadingIs DEF VisitInit, Alone, Quiet

LEMMA AloneBegins ==
  ASSUME NEW c \in Calls, \E op, arg : Send(c, op, arg),
         \A d \in Calls : d # c => call'[d] = call[d], ~disturbed'
  PROVE  /\ ~disturbed /\ Quiet
         /\ \A d \in Calls : d # c => call'[d].op = "none"
<1>1. ~disturbed /\ Quiet
  BY DEF Send
<1> QED
  BY <1>1 DEF Quiet, Idle

LEMMA AloneGoesOn ==
  ASSUME NEW c \in Calls, Alone, call[c].op # "none",
         NEW op, NEW at, NEW a, NEW g, Changes(c, op, at, a, g)
  PROVE  \A d \in Calls : d # c => call'[d].op = "none"
  BY DEF Alone, Changes

LEMMA AtMostOne ==
  ASSUME NEW X, \A x, y \in X : x = y
  PROVE  Cardinality(X) <= 1
<1>1. CASE X = {}
  <2>1. Cardinality(X) = 0
    BY <1>1, FS_EmptySet, Zenon
  <2> QED
    BY <2>1
<1>2. CASE X # {}
  <2>1. PICK x : X = {x}
    BY <1>2
  <2>2. Cardinality({x}) = 1
    BY FS_Singleton, Zenon
  <2> QED
    BY <2>1, <2>2
<1> QED
  BY <1>1, <1>2

LEMMA InputSpent ==
  ASSUME left \in 0..MaxInputs, UNCHANGED left \/ Spend
  PROVE  left' \in 0..MaxInputs
  BY InputsAreNat DEF Spend

-----------------------------------------------------------------------------
(* Devices: the operations in flight are about devices.                     *)
DeviceInv ==
  /\ CallsAre
  /\ \A c \in Calls : call[c].op \in D!Operations => call[c].arg.dev \in Devices
  /\ \E V : server \in [row : [Devices -> V], removed : SUBSET Devices,
                        beat : [Devices -> V], booth : [Devices -> V]]
  /\ \A d \in server.removed : server.row[d] = D!Gone

(* The calls of the page are those of the visit.                            *)
LEMMA DeviceVisits ==
  /\ \A c, r : D!SetCall(c, r) => SetCall(c, r)
  /\ \A c, op, arg : D!Send(c, op, arg) => Send(c, op, arg)
  /\ \A c, got : D!Serve(c, got) => Serve(c, got)
  /\ \A c : D!Refuse(c) => Refuse(c)
  /\ D!Idle = Idle /\ D!Loading = Loading
  /\ D!VisitInit => VisitInit
  BY DEF D!SetCall, SetCall, D!Send, Send, D!Serve, Serve, D!Refuse, Refuse,
    D!Idle, Idle, D!Loading, Loading, D!VisitInit, VisitInit, D!Spend, Spend,
    D!Quiet, Quiet

LEMMA RegistryWrites ==
  ASSUME DeviceInv, NEW d \in Devices, NEW e,
         D!AssignEvent(d, e) \/ D!DeleteRow(d) \/ D!Register(d)
  PROVE  /\ \E V : server' \in [row : [Devices -> V], removed : SUBSET Devices,
                                beat : [Devices -> V], booth : [Devices -> V]]
         /\ \A x \in server'.removed : server'.row[x] = D!Gone
<1>1. PICK V : server \in [row : [Devices -> V], removed : SUBSET Devices,
                           beat : [Devices -> V], booth : [Devices -> V]]
  BY DEF DeviceInv
<1> DEFINE W == V \cup {e, None, D!Gone}
<1>2. server \in [row : [Devices -> W], removed : SUBSET Devices,
                  beat : [Devices -> W], booth : [Devices -> W]]
  BY <1>1
<1>3. e \in W /\ None \in W /\ D!Gone \in W
  OBVIOUS
<1> HIDE DEF W
<1>4. server' \in [row : [Devices -> W], removed : SUBSET Devices,
                   beat : [Devices -> W], booth : [Devices -> W]]
  <2>1. CASE D!AssignEvent(d, e)
    BY <1>2, <1>3, <2>1 DEF D!AssignEvent
  <2>2. CASE D!DeleteRow(d)
    BY <1>2, <1>3, <2>2 DEF D!DeleteRow
  <2>3. CASE D!Register(d)
    BY <1>2, <1>3, <2>3 DEF D!Register
  <2> QED
    BY <2>1, <2>2, <2>3
<1>5. \A x \in server'.removed : server'.row[x] = D!Gone
  <2>1. CASE D!AssignEvent(d, e)
    BY <1>2, <2>1 DEF D!AssignEvent, D!row, DeviceInv
  <2>2. CASE D!DeleteRow(d)
    BY <1>2, <2>2 DEF D!DeleteRow, D!row, DeviceInv
  <2>3. CASE D!Register(d)
    BY <1>2, <2>3 DEF D!Register, D!row, DeviceInv
  <2> QED
    BY <2>1, <2>2, <2>3
<1> QED
  BY <1>4, <1>5

LEMMA HeartbeatKeeps ==
  ASSUME DeviceInv, NEW d \in Devices, D!Heartbeat(d)
  PROVE  /\ \E V : server' \in [row : [Devices -> V], removed : SUBSET Devices,
                                beat : [Devices -> V], booth : [Devices -> V]]
         /\ \A x \in server'.removed : server'.row[x] = D!Gone
<1>1. PICK V : server \in [row : [Devices -> V], removed : SUBSET Devices,
                           beat : [Devices -> V], booth : [Devices -> V]]
  BY DEF DeviceInv
<1> DEFINE W == V \cup {D!Gone}
<1>2. /\ server \in [row : [Devices -> W], removed : SUBSET Devices,
                     beat : [Devices -> W], booth : [Devices -> W]]
      /\ D!Gone \in W
  BY <1>1
<1> HIDE DEF W
<1>3. CASE D!HeartbeatRead(d)
  <2>1. server' = [server EXCEPT !.beat[d] = server.row[d]]
    BY <1>3 DEF D!HeartbeatRead, D!row
  <2>2. server' \in [row : [Devices -> W], removed : SUBSET Devices,
                     beat : [Devices -> W], booth : [Devices -> W]]
    BY <1>2, <2>1
  <2>3. \A x \in server'.removed : server'.row[x] = D!Gone
    BY <1>2, <2>1 DEF DeviceInv
  <2> QED
    BY <2>2, <2>3
<1>4. CASE D!HeartbeatWrite(d)
  <2>1. CASE server.row[d] = D!Gone
    <3>1. server' = [server EXCEPT !.beat[d] = D!Gone]
      BY <1>4, <2>1 DEF D!HeartbeatWrite, D!row
    <3>2. server' \in [row : [Devices -> W], removed : SUBSET Devices,
                       beat : [Devices -> W], booth : [Devices -> W]]
      BY <1>2, <3>1
    <3>3. \A x \in server'.removed : server'.row[x] = D!Gone
      BY <1>2, <3>1 DEF DeviceInv
    <3> QED
      BY <3>2, <3>3
  <2>2. CASE server.row[d] # D!Gone
    <3> DEFINE read == server.beat[d]
    <3>1. server' = [server EXCEPT !.beat[d] = D!Gone, !.row[d] = read, !.booth[d] = read]
      BY <1>4, <2>2 DEF D!HeartbeatWrite, D!row
    <3>2. read \in W
      BY <1>2
    <3> HIDE DEF read
    <3>3. server' \in [row : [Devices -> W], removed : SUBSET Devices,
                       beat : [Devices -> W], booth : [Devices -> W]]
      BY <1>2, <3>1, <3>2
    <3>4. \A x \in server'.removed : server'.row[x] = D!Gone
      BY <1>2, <2>2, <3>1 DEF DeviceInv
    <3> QED
      BY <3>3, <3>4
  <2> QED
    BY <2>1, <2>2
<1> QED
  BY <1>3, <1>4 DEF D!Heartbeat

(* The calls of a visit and the registry, step by step.                     *)
LEMMA DeviceCalls ==
  ASSUME DeviceInv, NEW c \in Calls, UNCHANGED server,
         \/ D!OperationFails(c) \/ D!Operated(c) \/ D!ReadRows(c)
         \/ D!LoadFails(c) \/ D!Loaded(c)
         \/ \E d \in Devices : D!Click(c, d)
  PROVE  DeviceInv'
<1>1. CallsAre
  BY DEF DeviceInv
<1>2. /\ CallsAre'
      /\ \A d \in Calls : d # c => call'[d] = call[d]
      /\ call'[c].op \in D!Operations => call'[c].arg.dev \in Devices
  <2>1. CASE D!OperationFails(c) \/ D!LoadFails(c) \/ D!Loaded(c)
    <3>1. D!SetCall(c, D!Idle)
      BY <2>1 DEF D!OperationFails, D!LoadFails, D!Loaded
    <3>2. SetCall(c, Idle)
      BY <3>1, DeviceVisits
    <3> QED
      BY <1>1, <3>2, Ends DEF Becomes, D!Operations
  <2>2. CASE D!Operated(c)
    <3>0. D!SetCall(c, [D!Loading EXCEPT !.op = D!LoadFor(call[c].op)])
          /\ call[c].op \in D!Operations
      BY <2>2 DEF D!Operated
    <3>1. SetCall(c, [Loading EXCEPT !.op = D!LoadFor(call[c].op)])
          /\ call[c].op \in D!Operations
      BY <3>0, DeviceVisits
    <3>2. D!LoadFor(call[c].op) \notin D!Operations
      BY <3>1 DEF D!LoadFor, D!Operations
    <3> QED
      BY <1>1, <3>1, <3>2, Reloads
  <2>3. CASE D!ReadRows(c)
    <3>1. call[c].op \notin D!Operations
      BY <2>3 DEF D!ReadRows, D!Loads, D!LoadFor, D!Operations
    <3>2. (\E got : Serve(c, got)) \/ Refuse(c)
      BY <2>3, DeviceVisits DEF D!ReadRows
    <3> QED
      BY <1>1, <3>1, <3>2, IsServed, IsRefused DEF Becomes
  <2>4. CASE \E d \in Devices : D!Click(c, d)
    <3>1. PICK d \in Devices : D!Click(c, d)
      BY <2>4
    <3>2. \E op, to : Send(c, op, [dev |-> d, to |-> to])
      BY <3>1, DeviceVisits DEF D!Click, D!Assign, D!SaveAssignment, D!Delete, D!Provision
    <3> QED
      BY <1>1, <3>2, Begins DEF Becomes
  <2> QED
    BY <2>1, <2>2, <2>3, <2>4
<1> QED
  BY <1>2 DEF DeviceInv

LEMMA DeviceOperates ==
  ASSUME DeviceInv, NEW c \in Calls, D!Operate(c)
  PROVE  DeviceInv'
<1> DEFINE d == call[c].arg.dev
<1>1. /\ call[c].op \in D!Operations
      /\ (\E got : Serve(c, got)) \/ Refuse(c)
      /\ UNCHANGED server \/ (\E e : D!AssignEvent(d, e)) \/ D!DeleteRow(d) \/ D!Register(d)
  BY DeviceVisits DEF D!Operate, D!Operations, D!Sent
<1>2. d \in Devices /\ CallsAre
  BY <1>1 DEF DeviceInv
<1>3. CallsAre' /\ \E at : Becomes(c, call[c].op, at, call[c].arg)
  BY <1>1, <1>2, IsServed, IsRefused
<1>4. CallsAre' /\ \A x \in Calls : call'[x].op \in D!Operations => call'[x].arg.dev \in Devices
  BY <1>3 DEF DeviceInv, Becomes
<1> HIDE DEF d
<1>5. CASE UNCHANGED server
  BY <1>4, <1>5 DEF DeviceInv
<1>6. CASE ~UNCHANGED server
  BY <1>1, <1>2, <1>4, <1>6, RegistryWrites DEF DeviceInv
<1> QED
  BY <1>5, <1>6

LEMMA DeviceStepKeeps ==
  ASSUME DeviceInv, D!Next
  PROVE  DeviceInv'
<1>1. ASSUME UNCHANGED call,
             \/ UNCHANGED server
             \/ \E d \in Devices : \/ \E e : D!AssignEvent(d, e)
                                   \/ D!DeleteRow(d) \/ D!Register(d)
             \/ \E d \in Devices : D!Heartbeat(d)
      PROVE  DeviceInv'
  <2>1. CallsAre' /\ \A c \in Calls : call'[c].op \in D!Operations
                                       => call'[c].arg.dev \in Devices
    BY <1>1 DEF DeviceInv, CallsAre
  <2>2. CASE UNCHANGED server
    BY <2>1, <2>2 DEF DeviceInv
  <2>3. CASE ~UNCHANGED server
    BY <1>1, <2>1, <2>3, RegistryWrites, HeartbeatKeeps DEF DeviceInv
  <2> QED
    BY <2>2, <2>3
<1>2. CASE D!OthersWrite
  BY <1>1, <1>2 DEF D!OthersWrite
<1>3. CASE D!ToggleModal \/ D!Dismiss
  BY <1>1, <1>3 DEF D!ToggleModal, D!Dismiss
<1>4. ASSUME NEW d \in Devices, D!Heartbeat(d) PROVE DeviceInv'
  BY <1>1, <1>4 DEF D!Heartbeat, D!HeartbeatRead, D!HeartbeatWrite
<1>5. ASSUME NEW d \in Devices, NEW e, D!Select(d, e) PROVE DeviceInv'
  BY <1>1, <1>5 DEF D!Select
<1>6. ASSUME NEW d \in Devices, NEW c \in Calls, D!Click(c, d) PROVE DeviceInv'
  <2>1. UNCHANGED server
    BY <1>6 DEF D!Click, D!Assign, D!SaveAssignment, D!Delete, D!Provision
  <2> QED
    BY <1>6, <2>1, DeviceCalls
<1>7. ASSUME NEW c \in Calls, D!Progress(c) PROVE DeviceInv'
  <2>1. CASE D!Operate(c)
    BY <2>1, DeviceOperates
  <2>2. CASE ~D!Operate(c)
    <3>1. UNCHANGED server
      BY <1>7, <2>2 DEF D!Progress, D!OperationFails, D!Operated, D!ReadRows, D!LoadFails,
        D!Loaded
    <3> QED
      BY <1>7, <2>2, <3>1, DeviceCalls DEF D!Progress
  <2> QED
    BY <2>1, <2>2
<1> QED
  BY <1>2, <1>3, <1>4, <1>5, <1>6, <1>7 DEF D!Next

LEMMA DevicesBegin == D!Init => DeviceInv
<1> SUFFICES ASSUME D!Init PROVE DeviceInv
  OBVIOUS
<1>1. CallsAre /\ \A c \in Calls : call[c].op \notin D!Operations
  BY FirstCalls, DeviceVisits DEF D!Init, D!Operations
<1>2. server \in [row : [Devices -> {None, D!Gone}], removed : {{}},
                  beat : {D!NothingKnown}, booth : {[d \in Devices |-> None]}]
  BY DEF D!Init
<1>3. server \in [row : [Devices -> {None, D!Gone}], removed : SUBSET Devices,
                  beat : [Devices -> {None, D!Gone}], booth : [Devices -> {None, D!Gone}]]
  BY <1>2 DEF D!NothingKnown
<1> QED
  BY <1>1, <1>2, <1>3 DEF DeviceInv

(* A device that was deleted stays so: no heartbeat that had read its row   *)
(* before, and no assignment on its way, brings it back.                    *)
THEOREM DeletedForGood == Spec => []DeletedStaysDeleted
<1> DEFINE Inv == visit = "devices" => DeviceInv
<1>1. Init => Inv
  BY DevicesBegin DEF Init
<1>2. Inv /\ [Next]_<<visit, vars>> => Inv'
  <2> SUFFICES ASSUME Inv, [Next]_<<visit, vars>>, visit' = "devices"
               PROVE  DeviceInv'
    OBVIOUS
  <2>1. CASE DeviceStep
    BY <2>1, DeviceStepKeeps DEF DeviceStep
  <2>2. CASE UNCHANGED <<visit, vars>>
    BY <2>2 DEF vars, DeviceInv, CallsAre
  <2>3. CASE Next /\ ~DeviceStep
    BY <2>3 DEF Next, EventStep, CoupleStep, SmtpStep, PasswordStep, ConsoleStep
  <2> QED
    BY <2>1, <2>2, <2>3
<1>3. Inv => DeletedStaysDeleted
  BY DEF DeviceInv, DeletedStaysDeleted, D!DeletedStaysDeleted, D!row
<1> QED
  BY <1>1, <1>2, <1>3, PTL DEF Spec

-----------------------------------------------------------------------------
(* The registry: an operation is of a device, a load that was answered has  *)
(* read the rows, and what is selected for a listed device can be assigned. *)
DeviceArgs == [dev : Devices, to : Weddings \cup Devices \cup {None}]
Rows == [Devices -> D!Values]

DeviceCallsAre == CallsTyped(D!Operations \cup D!Loads, DeviceArgs, Rows)

DeviceCallIs(op, at, arg, got) ==
  /\ op \in D!Operations => arg \in DeviceArgs
  /\ op = "assign" => arg.to \in Weddings \cup {None}
  /\ op \in D!Loads /\ at = "served" => got \in Rows

DraftsAssign ==
  \A d \in Devices : page.list[d] # D!Gone => page.draft[d] \in Weddings \cup {None}

DeviceTyped ==
  /\ server \in D!Registries /\ page \in D!DevicePage /\ DraftsAssign
  /\ DeviceCallsAre
  /\ disturbed \in BOOLEAN /\ left \in 0..MaxInputs
  /\ \A c \in Calls : DeviceCallIs(call[c].op, call[c].at, call[c].arg, call[c].got)

(* A provisioning and the load that follows it keep the form disabled.      *)
Provisions(op) == op \in {"provision", "provisioned"}

DeviceBusy ==
  /\ \A c \in Calls : Provisions(call[c].op) => page.provisioning
  /\ \A c, d \in Calls : Provisions(call[c].op) /\ Provisions(call[d].op) => c = d

(* The page, or a load, agrees with the registry on what the page is about. *)
Agrees(list) == \A d \in Devices : page.about \in {None, d} => list[d] = server.row[d]

RegistryFits(c) ==
  /\ call[c].op \in D!Operations /\ call[c].at # "served" => Agrees(page.list)
  /\ call[c].op \in D!Loads /\ call[c].at = "served" => Agrees(call[c].got)

RegistryShown ==
  Alone /\ (\A c \in Calls : RegistryFits(c)) /\ (Quiet => Agrees(page.list))

DeviceShows == ~disturbed => RegistryShown

LEMMA DeviceIsVisit ==
  /\ \A c, r : D!SetCall(c, r) <=> SetCall(c, r)
  /\ \A c, op, arg : D!Send(c, op, arg) <=> Send(c, op, arg)
  /\ \A c, got : D!Serve(c, got) <=> Serve(c, got)
  /\ \A c : D!Refuse(c) <=> Refuse(c)
  /\ D!Idle = Idle /\ D!Loading = Loading
  /\ D!VisitInit <=> VisitInit
  /\ D!Quiet <=> Quiet
  /\ D!Spend <=> Spend
  BY DEF D!SetCall, SetCall, D!Send, Send, D!Serve, Serve, D!Refuse, Refuse,
    D!Idle, Idle, D!Loading, Loading, D!VisitInit, VisitInit, D!Spend, Spend,
    D!Quiet, Quiet

LEMMA LoadsAre ==
  /\ D!Operations = {"assign", "delete", "provision"}
  /\ D!Loads = {"load", "assigned", "deleted", "provisioned"}
  /\ \A op \in D!Operations : /\ D!LoadFor(op) \in D!Loads
                              /\ D!LoadFor(op) = "provisioned" <=> op = "provision"
<1>1. /\ D!LoadFor("assign") = "assigned" /\ D!LoadFor("delete") = "deleted"
      /\ D!LoadFor("provision") = "provisioned"
  BY DEF D!LoadFor
<1> QED
  BY <1>1 DEF D!Operations, D!Loads

(* The operation that a load follows.                                       *)
LEMMA OperationIs ==
  ASSUME NEW op \in D!Loads, op # "provisioned"
  PROVE  D!OperationOf(op) # "provision"
<1>1. CASE op = "load"
  BY <1>1 DEF D!OperationOf
<1>2. CASE op # "load"
  <2>1. \E x \in D!Operations : D!LoadFor(x) = op
    BY <1>2 DEF D!Loads
  <2>2. D!LoadFor(D!OperationOf(op)) = op /\ D!OperationOf(op) \in D!Operations
    BY <1>2, <2>1 DEF D!OperationOf
  <2> QED
    BY <2>2, LoadsAre
<1> QED
  BY <1>1, <1>2

(* The finally of a handler clears its own flag.                            *)
LEMMA FinallyIs ==
  ASSUME page \in D!DevicePage, NEW op
  PROVE  /\ D!Finally(op) \in D!DevicePage
         /\ D!Finally(op).about = page.about /\ D!Finally(op).list = page.list
         /\ D!Finally(op).draft = page.draft
         /\ op # "provision" => D!Finally(op).provisioning = page.provisioning
<1>1. CASE op = "assign"
  BY <1>1 DEF D!Finally, D!DevicePage
<1>2. CASE op = "delete"
  BY <1>2 DEF D!Finally, D!DevicePage
<1>3. CASE op = "provision"
  BY <1>3 DEF D!Finally, D!DevicePage
<1>4. CASE op \notin {"assign", "delete", "provision"}
  BY <1>4 DEF D!Finally, D!DevicePage
<1> QED
  BY <1>1, <1>2, <1>3, <1>4

(* What a click makes of its call and of the page.                          *)
LEMMA DeviceClicks ==
  ASSUME DeviceTyped, NEW c \in Calls, NEW d \in Devices, D!Click(c, d)
  PROVE  /\ DeviceCallsAre' /\ call[c].op = "none" /\ UNCHANGED server
         /\ page' \in D!DevicePage /\ DraftsAssign'
         /\ page'.about = page.about /\ page'.list = page.list
         /\ \E op \in D!Operations, arg \in DeviceArgs :
              /\ Changes(c, op, "sent", arg, None) /\ Send(c, op, arg)
              /\ op = "assign" => arg.to \in Weddings \cup {None}
              /\ IF op = "provision" THEN ~page.provisioning /\ page'.provisioning
                 ELSE page'.provisioning = page.provisioning
<1> USE DeviceIsVisit
<1>0. page \in D!DevicePage /\ DeviceCallsAre /\ DraftsAssign
  BY DEF DeviceTyped
<1>1. ASSUME NEW op \in D!Operations, NEW arg \in DeviceArgs, Send(c, op, arg)
      PROVE  DeviceCallsAre' /\ call[c].op = "none" /\ Changes(c, op, "sent", arg, None)
  BY <1>0, <1>1, SendChanges DEF DeviceCallsAre, D!Operations
<1>2. CASE D!Assign(c, d) \/ D!SaveAssignment(c, d)
  <2> DEFINE arg == [dev |-> d, to |-> page.draft[d]]
  <2>1. arg \in DeviceArgs /\ arg.to \in Weddings \cup {None}
    BY <1>0, <1>2 DEF D!Assign, D!SaveAssignment, D!RowShown, DraftsAssign, DeviceArgs
  <2>2. Send(c, "assign", arg) /\ UNCHANGED server
        /\ page' = [page EXCEPT !.assigning = d, !.error = FALSE]
    BY <1>2 DEF D!Assign, D!SaveAssignment
  <2>3. /\ page' \in D!DevicePage /\ page'.provisioning = page.provisioning
        /\ page'.about = page.about /\ page'.list = page.list /\ page'.draft = page.draft
    BY <1>0, <2>2 DEF D!DevicePage
  <2>4. DraftsAssign'
    BY <1>0, <2>3 DEF DraftsAssign
  <2> HIDE DEF arg
  <2> QED
    BY <1>1, <2>1, <2>2, <2>3, <2>4 DEF D!Operations
<1>3. CASE D!Delete(c, d)
  <2> DEFINE arg == [dev |-> d, to |-> page.package]
  <2>1. arg \in DeviceArgs
    BY <1>0 DEF D!DevicePage, DeviceArgs
  <2>2. Send(c, "delete", arg) /\ UNCHANGED server
        /\ page' = [page EXCEPT !.deleting = d, !.error = FALSE]
    BY <1>3 DEF D!Delete
  <2>3. /\ page' \in D!DevicePage /\ page'.provisioning = page.provisioning
        /\ page'.about = page.about /\ page'.list = page.list /\ page'.draft = page.draft
    BY <1>0, <2>2 DEF D!DevicePage
  <2>4. DraftsAssign'
    BY <1>0, <2>3 DEF DraftsAssign
  <2> HIDE DEF arg
  <2> QED
    BY <1>1, <2>1, <2>2, <2>3, <2>4 DEF D!Operations
<1>4. CASE D!Provision(c, d)
  <2> DEFINE arg == [dev |-> d, to |-> None]
  <2>1. arg \in DeviceArgs
    BY DEF DeviceArgs
  <2>2. Send(c, "provision", arg) /\ UNCHANGED server /\ ~page.provisioning
        /\ page' = [page EXCEPT !.provisioning = TRUE, !.error = FALSE]
    BY <1>4 DEF D!Provision
  <2>3. /\ page' \in D!DevicePage /\ page'.provisioning
        /\ page'.about = page.about /\ page'.list = page.list /\ page'.draft = page.draft
    BY <1>0, <2>2 DEF D!DevicePage
  <2>4. DraftsAssign'
    BY <1>0, <2>3 DEF DraftsAssign
  <2> HIDE DEF arg
  <2> QED
    BY <1>1, <2>1, <2>2, <2>3, <2>4 DEF D!Operations
<1> QED
  BY <1>2, <1>3, <1>4 DEF D!Click

(* What the server makes of an operation and of a load.                     *)
LEMMA DeviceOperated ==
  ASSUME DeviceTyped, NEW c \in Calls, D!Operate(c)
  PROVE  /\ DeviceCallsAre' /\ call[c].op \in D!Operations
         /\ \/ \E got : Changes(c, call[c].op, "served", call[c].arg, got)
            \/ /\ UNCHANGED server
               /\ Changes(c, call[c].op, "refused", call[c].arg, call[c].got)
<1> USE DeviceIsVisit
<1>1. /\ DeviceCallsAre /\ call[c].op \in D!Operations /\ call[c].op # "none"
      /\ Serve(c, None) \/ (Refuse(c) /\ UNCHANGED server)
  BY DEF DeviceTyped, D!Operate, D!Sent, D!Operations
<1> QED
  BY <1>1, ServeChanges, RefuseChanges DEF DeviceCallsAre

LEMMA RowsAreRead ==
  ASSUME DeviceTyped, NEW c \in Calls, D!ReadRows(c)
  PROVE  /\ DeviceCallsAre' /\ call[c].op \in D!Loads
         /\ \/ \E got \in Rows :
                 Changes(c, call[c].op, "served", call[c].arg, got) /\ Agrees(got)
            \/ Changes(c, call[c].op, "refused", call[c].arg, call[c].got)
<1> USE DeviceIsVisit
<1>0. /\ DeviceCallsAre /\ server.row \in Rows /\ call[c].op \in D!Loads
      /\ page.about \in Devices \cup {None}
  BY DEF DeviceTyped, D!Registries, Rows, D!ReadRows, D!DevicePage
<1>1. call[c].op # "none"
  BY <1>0, LoadsAre
<1>2. ASSUME NEW got \in Rows, Serve(c, got), Agrees(got)
      PROVE  /\ DeviceCallsAre' /\ Agrees(got)
             /\ Changes(c, call[c].op, "served", call[c].arg, got)
  BY <1>0, <1>1, <1>2, ServeChanges DEF DeviceCallsAre
<1>3. CASE Refuse(c)
  BY <1>0, <1>1, <1>3, RefuseChanges DEF DeviceCallsAre
<1>4. CASE page.about = None /\ Serve(c, server.row)
  <2>1. Agrees(server.row)
    BY DEF Agrees
  <2> QED
    BY <1>0, <1>2, <1>4, <2>1
<1>5. CASE page.about # None /\ ~Refuse(c)
  <2> DEFINE got == [D!NothingKnown EXCEPT ![page.about] = server.row[page.about]]
  <2>1. Serve(c, got)
    BY <1>5 DEF D!ReadRows, D!row
  <2>2. got \in Rows /\ Agrees(got)
    BY <1>0, <1>5 DEF D!NothingKnown, Rows, D!Values, Agrees
  <2> HIDE DEF got
  <2> QED
    BY <1>0, <1>2, <2>1, <2>2
<1> QED
  BY <1>3, <1>4, <1>5 DEF D!ReadRows, D!row

(* What an answer makes of its call and of the page.                        *)
LEMMA DeviceEnds ==
  ASSUME DeviceTyped, NEW c \in Calls,
         D!OperationFails(c) \/ D!LoadFails(c) \/ D!Loaded(c)
  PROVE  /\ DeviceCallsAre' /\ call[c].op # "none" /\ UNCHANGED server
         /\ Changes(c, "none", "idle", None, None)
         /\ page' \in D!DevicePage /\ DraftsAssign' /\ page'.about = page.about
         /\ ~Provisions(call[c].op) => page'.provisioning = page.provisioning
         /\ page'.list = IF D!Loaded(c) THEN call[c].got ELSE page.list
<1> USE DeviceIsVisit
<1>0. /\ page \in D!DevicePage /\ DeviceCallsAre /\ DraftsAssign
      /\ page.list \in Rows /\ page.draft \in Rows
      /\ DeviceCallIs(call[c].op, call[c].at, call[c].arg, call[c].got)
  BY DEF DeviceTyped, D!DevicePage, Rows
<1>1. DeviceCallsAre' /\ Changes(c, "none", "idle", None, None)
      /\ call[c].op # "none" /\ UNCHANGED server
  BY <1>0, EndChanges, LoadsAre
     DEF D!OperationFails, D!LoadFails, D!Loaded, DeviceCallsAre
<1>2. CASE D!OperationFails(c)
  <2> DEFINE f == D!Finally(call[c].op)
  <2>1. /\ f \in D!DevicePage /\ f.about = page.about /\ f.list = page.list
        /\ f.draft = page.draft
        /\ call[c].op # "provision" => f.provisioning = page.provisioning
    BY <1>0, FinallyIs
  <2>2. page' = [f EXCEPT !.error = TRUE] /\ call[c].op \in D!Operations
    BY <1>2 DEF D!OperationFails
  <2> HIDE DEF f
  <2>3. /\ page' \in D!DevicePage /\ page'.about = page.about /\ page'.list = page.list
        /\ page'.draft = page.draft
        /\ ~Provisions(call[c].op) => page'.provisioning = page.provisioning
    BY <2>1, <2>2 DEF D!DevicePage, Provisions
  <2>4. DraftsAssign' /\ ~D!Loaded(c)
    BY <1>0, <2>2, <2>3, LoadsAre DEF DraftsAssign, D!Loaded
  <2> QED
    BY <1>1, <2>3, <2>4
<1>3. CASE ~D!OperationFails(c)
  <2> DEFINE f == D!Finally(D!OperationOf(call[c].op))
  <2>1. /\ f \in D!DevicePage /\ f.about = page.about /\ f.list = page.list
        /\ f.draft = page.draft
        /\ ~Provisions(call[c].op) => f.provisioning = page.provisioning
    <3>1. call[c].op \in D!Loads
      BY <1>3 DEF D!LoadFails, D!Loaded
    <3> QED
      BY <1>0, <3>1, FinallyIs, OperationIs DEF Provisions
  <2>2. CASE D!Loaded(c)
    <3> DEFINE got == call[c].got
               Kept(d) == page.about = None /\ ~page.loading /\ got[d] = page.list[d]
               draft == [d \in Devices |-> IF Kept(d) THEN page.draft[d] ELSE got[d]]
    <3>1. got \in Rows
      BY <1>0, <2>2 DEF D!Loaded, DeviceCallIs
    <3>2. page' = [f EXCEPT !.loading = FALSE, !.list = got,
                     !.draft = [d \in Devices |-> IF Kept(d) THEN @[d] ELSE got[d]]]
      BY <2>2 DEF D!Loaded
    <3>3. page' = [f EXCEPT !.loading = FALSE, !.list = got, !.draft = draft]
      BY <2>1, <3>2
    <3>4. draft \in Rows
      BY <1>0, <3>1 DEF Rows
    <3>5. \A d \in Devices : got[d] # D!Gone => draft[d] \in Weddings \cup {None}
      BY <1>0, <3>1 DEF Rows, DraftsAssign, D!Values
    <3> HIDE DEF f, got, draft
    <3>6. /\ page' \in D!DevicePage /\ page'.about = page.about /\ page'.list = got
          /\ page'.draft = draft
          /\ ~Provisions(call[c].op) => page'.provisioning = page.provisioning
      BY <2>1, <3>1, <3>3, <3>4 DEF D!DevicePage, Rows
    <3>7. DraftsAssign'
      BY <3>5, <3>6 DEF DraftsAssign
    <3> QED
      BY <1>1, <2>2, <3>6, <3>7 DEF got
  <2>3. CASE D!LoadFails(c) /\ ~D!Loaded(c)
    <3> DEFINE draft == IF page.loading /\ page.about = None THEN page.list ELSE page.draft
    <3>1. page' = [f EXCEPT !.error = TRUE, !.loading = FALSE,
                     !.draft = IF page.loading /\ page.about = None THEN page.list ELSE @]
      BY <2>3 DEF D!LoadFails
    <3>2. page' = [f EXCEPT !.error = TRUE, !.loading = FALSE, !.draft = draft]
      BY <2>1, <3>1
    <3>3. /\ draft \in Rows
          /\ \A d \in Devices : page.list[d] # D!Gone => draft[d] \in Weddings \cup {None}
      BY <1>0 DEF Rows, DraftsAssign, D!Values
    <3> HIDE DEF f, draft
    <3>4. /\ page' \in D!DevicePage /\ page'.about = page.about /\ page'.list = page.list
          /\ page'.draft = draft
          /\ ~Provisions(call[c].op) => page'.provisioning = page.provisioning
      BY <2>1, <3>2, <3>3 DEF D!DevicePage, Rows
    <3>5. DraftsAssign'
      BY <3>3, <3>4 DEF DraftsAssign
    <3> QED
      BY <1>1, <2>3, <3>4, <3>5
  <2> QED
    BY <1>3, <2>2, <2>3
<1> QED
  BY <1>2, <1>3

LEMMA DeviceAnswered ==
  ASSUME DeviceTyped, NEW c \in Calls, D!Operated(c)
  PROVE  /\ DeviceCallsAre' /\ call[c].op \in D!Operations
         /\ UNCHANGED <<server, disturbed>>
         /\ \E op \in D!Loads : /\ Changes(c, op, "sent", None, None)
                                /\ Provisions(op) <=> Provisions(call[c].op)
         /\ page' \in D!DevicePage /\ DraftsAssign' /\ page'.about = page.about
         /\ page'.list = page.list /\ page'.provisioning = page.provisioning
<1> USE DeviceIsVisit
<1> DEFINE load == D!LoadFor(call[c].op)
           d == call[c].arg.dev
           package == CASE call[c].op = "provision" -> d
                        [] call[c].op = "delete" /\ call[c].arg.to = d -> None
                        [] OTHER -> page.package
           modal == page.modal /\ call[c].op # "provision"
<1>0. /\ page \in D!DevicePage /\ DeviceCallsAre /\ DraftsAssign
      /\ call[c].op \in D!Operations /\ d \in Devices
  BY DEF DeviceTyped, D!Operated, DeviceCallIs, DeviceArgs
<1>1. load \in D!Loads /\ (Provisions(load) <=> Provisions(call[c].op)) /\ load # "none"
  BY <1>0, LoadsAre DEF Provisions
<1>2. SetCall(c, [Loading EXCEPT !.op = load]) /\ UNCHANGED <<server, disturbed>>
  BY DEF D!Operated
<1>3. package \in Devices \cup {None} /\ modal \in BOOLEAN
  BY <1>0 DEF D!DevicePage
<1>4. page' = [page EXCEPT !.loading = TRUE, !.error = FALSE, !.package = package,
                           !.modal = modal]
  BY DEF D!Operated
<1> HIDE DEF load, package, modal
<1>5. DeviceCallsAre' /\ Changes(c, load, "sent", None, None)
  BY <1>0, <1>1, <1>2, LoadChanges DEF DeviceCallsAre
<1>6. /\ page' \in D!DevicePage /\ page'.about = page.about /\ page'.draft = page.draft
      /\ page'.list = page.list /\ page'.provisioning = page.provisioning
  BY <1>0, <1>3, <1>4 DEF D!DevicePage
<1>7. DraftsAssign'
  BY <1>0, <1>6 DEF DraftsAssign
<1> QED
  BY <1>0, <1>1, <1>2, <1>5, <1>6, <1>7

(* What somebody does to the page alone.                                    *)
LEMMA DevicePageInputs ==
  ASSUME DeviceTyped,
         \/ D!ToggleModal \/ D!Dismiss
         \/ \E d \in Devices, e \in Weddings \cup {None} : D!Select(d, e)
  PROVE  /\ UNCHANGED <<server, call, disturbed>>
         /\ page' \in D!DevicePage /\ DraftsAssign' /\ page'.about = page.about
         /\ page'.list = page.list /\ page'.provisioning = page.provisioning
<1>0. page \in D!DevicePage /\ DraftsAssign
  BY DEF DeviceTyped
<1>1. CASE D!ToggleModal
  <2>1. /\ UNCHANGED <<server, call, disturbed>>
        /\ page' \in D!DevicePage /\ page'.draft = page.draft /\ page'.about = page.about
        /\ page'.list = page.list /\ page'.provisioning = page.provisioning
    BY <1>0, <1>1 DEF D!ToggleModal, D!DevicePage
  <2> QED
    BY <1>0, <2>1 DEF DraftsAssign
<1>2. CASE D!Dismiss
  <2>1. /\ UNCHANGED <<server, call, disturbed>>
        /\ page' \in D!DevicePage /\ page'.draft = page.draft /\ page'.about = page.about
        /\ page'.list = page.list /\ page'.provisioning = page.provisioning
    BY <1>0, <1>2 DEF D!Dismiss, D!DevicePage
  <2> QED
    BY <1>0, <2>1 DEF DraftsAssign
<1>3. ASSUME NEW d \in Devices, NEW e \in Weddings \cup {None}, D!Select(d, e)
      PROVE  /\ UNCHANGED <<server, call, disturbed>>
             /\ page' \in D!DevicePage /\ DraftsAssign' /\ page'.about = page.about
             /\ page'.list = page.list /\ page'.provisioning = page.provisioning
  <2>1. /\ UNCHANGED <<server, call, disturbed>>
        /\ page' \in D!DevicePage /\ page'.draft = [page.draft EXCEPT ![d] = e]
        /\ page'.about = page.about
        /\ page'.list = page.list /\ page'.provisioning = page.provisioning
    BY <1>0, <1>3 DEF D!Select, D!DevicePage, D!Values
  <2> QED
    BY <1>0, <2>1 DEF DraftsAssign, D!DevicePage
<1> QED
  BY <1>1, <1>2, <1>3

(* The writes of the registry.                                              *)
LEMMA RegistryTyped ==
  ASSUME server \in D!Registries, NEW d \in Devices,
         \/ \E e \in Weddings \cup {None} : D!AssignEvent(d, e)
         \/ D!DeleteRow(d) \/ D!Register(d) \/ D!Heartbeat(d)
  PROVE  server' \in D!Registries
<1>0. /\ server.row \in Rows /\ server.removed \in SUBSET Devices
      /\ server.beat \in Rows /\ server.booth \in [Devices -> Weddings \cup {None}]
  BY DEF D!Registries, Rows
<1>1. CASE (\E e \in Weddings \cup {None} : D!AssignEvent(d, e)) \/ D!DeleteRow(d)
             \/ D!Register(d)
  <2>1. CASE D!DeleteRow(d)
    BY <2>1 DEF D!DeleteRow, D!Registries, D!Values
  <2>2. CASE D!Register(d)
    BY <2>2 DEF D!Register, D!Registries, D!Values
  <2>3. ASSUME NEW e \in Weddings \cup {None}, D!AssignEvent(d, e)
        PROVE  server' \in D!Registries
    BY <2>3 DEF D!AssignEvent, D!Registries, D!Values
  <2> QED
    BY <1>1, <2>1, <2>2, <2>3
<1>2. CASE D!HeartbeatRead(d)
  BY <1>2 DEF D!HeartbeatRead, D!row, D!Registries, D!Values
<1>3. CASE D!HeartbeatWrite(d)
  <2> DEFINE read == server.beat[d]
             beat == [server.beat EXCEPT ![d] = D!Gone]
             rows == [server.row EXCEPT ![d] = read]
             told == [server.booth EXCEPT ![d] = read]
  <2>1. read \in Weddings \cup {None}
    BY <1>3 DEF D!HeartbeatWrite, D!Registries, D!Values
  <2>2. \/ server' = [server EXCEPT !.beat = beat]
        \/ server' = [server EXCEPT !.beat = beat, !.row = rows, !.booth = told]
    BY <1>3 DEF D!HeartbeatWrite
  <2>3. beat \in Rows /\ rows \in Rows /\ told \in [Devices -> Weddings \cup {None}]
    <3> HIDE DEF read
    <3> QED
      BY <1>0, <2>1 DEF Rows, D!Values
  <2> HIDE DEF beat, rows, told
  <2> QED
    BY <2>2, <2>3 DEF D!Registries, Rows
<1> QED
  BY <1>1, <1>2, <1>3 DEF D!Heartbeat

LEMMA DeviceStepTyped ==
  ASSUME DeviceTyped, D!Next
  PROVE  DeviceTyped' /\ page'.about = page.about
<1> USE DeviceIsVisit
<1>0. /\ DeviceCallsAre /\ page \in D!DevicePage /\ server \in D!Registries /\ DraftsAssign
      /\ disturbed \in BOOLEAN /\ left \in 0..MaxInputs
      /\ \A c \in Calls : DeviceCallIs(call[c].op, call[c].at, call[c].arg, call[c].got)
  BY DEF DeviceTyped
<1>1. left' \in 0..MaxInputs
  <2>1. UNCHANGED left \/ Spend
    BY DEF D!Next, D!OthersWrite, D!ToggleModal, D!Dismiss, D!Heartbeat, D!HeartbeatRead,
      D!HeartbeatWrite, D!Select, D!Click, D!Assign, D!SaveAssignment, D!Delete,
      D!Provision, D!Send, D!Progress, D!Operate, D!OperationFails, D!Operated,
      D!ReadRows, D!LoadFails, D!Loaded, D!Fails
  <2> QED
    BY <1>0, <2>1, InputSpent
<1>2. disturbed' \in BOOLEAN
  BY <1>0, Zenon DEF D!Next, D!OthersWrite, D!ToggleModal, D!Dismiss, D!Heartbeat,
    D!HeartbeatRead, D!HeartbeatWrite, D!Select, D!Click, D!Assign, D!SaveAssignment,
    D!Delete, D!Provision, D!Send, D!Progress, D!Operate, D!OperationFails, D!Operated,
    D!ReadRows, D!LoadFails, D!Loaded
<1>3. server' \in D!Registries
  <2>1. CASE D!OthersWrite
    BY <1>0, <2>1, RegistryTyped DEF D!OthersWrite
  <2>2. ASSUME NEW d \in Devices, D!Heartbeat(d) PROVE server' \in D!Registries
    BY <1>0, <2>2, RegistryTyped
  <2>3. ASSUME NEW c \in Calls, D!Operate(c) PROVE server' \in D!Registries
    <3> DEFINE d == call[c].arg.dev
               to == call[c].arg.to
    <3>1. d \in Devices
      BY <1>0, <2>3, DeviceOperated DEF DeviceCallIs, DeviceArgs
    <3>2. CASE D!Sent(c, "assign") /\ D!AssignEvent(d, to)
      <4>1. to \in Weddings \cup {None}
        BY <1>0, <3>2 DEF D!Sent, DeviceCallIs
      <4> HIDE DEF d, to
      <4> QED
        BY <1>0, <3>1, <3>2, <4>1, RegistryTyped
    <3>3. CASE D!DeleteRow(d) \/ D!Register(d)
      BY <1>0, <3>1, <3>3, RegistryTyped
    <3>4. CASE UNCHANGED server
      BY <1>0, <3>4
    <3> QED
      BY <2>3, <3>2, <3>3, <3>4 DEF D!Operate
  <2>4. CASE UNCHANGED server
    BY <1>0, <2>4
  <2> QED
    BY <2>1, <2>2, <2>3, <2>4, DeviceClicks, DevicePageInputs, DeviceEnds
       DEF D!Next, D!Progress, D!Operated, D!ReadRows
<1>4. page' \in D!DevicePage /\ page'.about = page.about /\ DraftsAssign'
  <2>1. CASE UNCHANGED page
    BY <1>0, <2>1 DEF DraftsAssign
  <2> QED
    BY <2>1, DeviceClicks, DevicePageInputs, DeviceEnds, DeviceAnswered
       DEF D!Next, D!Progress, D!OthersWrite, D!Heartbeat, D!HeartbeatRead,
       D!HeartbeatWrite, D!Operate, D!ReadRows
<1>5. /\ DeviceCallsAre'
      /\ \A c \in Calls : DeviceCallIs(call'[c].op, call'[c].at, call'[c].arg, call'[c].got)
  <2>1. CASE UNCHANGED call
    BY <1>0, <2>1 DEF DeviceCallsAre, CallsTyped
  <2>2. ASSUME NEW c \in Calls, NEW op, NEW at, NEW arg, NEW got,
               DeviceCallsAre', Changes(c, op, at, arg, got),
               DeviceCallIs(op, at, arg, got)
        PROVE  <1>5!:
    BY <1>0, <2>2 DEF Changes
  <2>3. ASSUME NEW c \in Calls, NEW d \in Devices, D!Click(c, d) PROVE <1>5!:
    <3>1. PICK op \in D!Operations, arg \in DeviceArgs :
            /\ Changes(c, op, "sent", arg, None)
            /\ op = "assign" => arg.to \in Weddings \cup {None}
      BY <2>3, DeviceClicks
    <3>2. DeviceCallsAre' /\ DeviceCallIs(op, "sent", arg, None)
      BY <2>3, <3>1, DeviceClicks DEF DeviceCallIs
    <3> QED
      BY <2>2, <3>1, <3>2
  <2>4. ASSUME NEW c \in Calls, D!Operate(c) PROVE <1>5!:
    <3>1. PICK at, got : Changes(c, call[c].op, at, call[c].arg, got)
      BY <2>4, DeviceOperated
    <3>2. DeviceCallsAre' /\ call[c].op \in D!Operations
      BY <2>4, DeviceOperated
    <3>3. DeviceCallIs(call[c].op, at, call[c].arg, got)
      BY <1>0, <3>2, LoadsAre DEF DeviceCallIs
    <3> QED
      BY <2>2, <3>1, <3>2, <3>3
  <2>5. ASSUME NEW c \in Calls, D!ReadRows(c) PROVE <1>5!:
    <3>1. PICK at, got : /\ Changes(c, call[c].op, at, call[c].arg, got)
                         /\ at = "served" => got \in Rows
      BY <2>5, RowsAreRead
    <3>2. DeviceCallsAre' /\ call[c].op \in D!Loads
      BY <2>5, RowsAreRead
    <3>3. DeviceCallIs(call[c].op, at, call[c].arg, got)
      BY <1>0, <3>1, <3>2 DEF DeviceCallIs
    <3> QED
      BY <2>2, <3>1, <3>2, <3>3
  <2>6. ASSUME NEW c \in Calls, D!Operated(c) PROVE <1>5!:
    <3>1. PICK op \in D!Loads : Changes(c, op, "sent", None, None)
      BY <2>6, DeviceAnswered
    <3>2. DeviceCallsAre' /\ DeviceCallIs(op, "sent", None, None)
      BY <2>6, DeviceAnswered, LoadsAre DEF DeviceCallIs
    <3> QED
      BY <2>2, <3>1, <3>2
  <2>7. ASSUME NEW c \in Calls, D!OperationFails(c) \/ D!LoadFails(c) \/ D!Loaded(c)
        PROVE  <1>5!:
    <3>1. DeviceCallIs("none", "idle", None, None)
      BY LoadsAre DEF DeviceCallIs
    <3> QED
      BY <2>2, <2>7, <3>1, DeviceEnds
  <2> QED
    BY <2>1, <2>3, <2>4, <2>5, <2>6, <2>7, DevicePageInputs
       DEF D!Next, D!Progress, D!OthersWrite, D!Heartbeat, D!HeartbeatRead, D!HeartbeatWrite
<1> QED
  BY <1>1, <1>2, <1>3, <1>4, <1>5 DEF DeviceTyped, DeviceCallIs

LEMMA DeviceStepBusy ==
  ASSUME DeviceTyped, DeviceBusy, D!Next
  PROVE  DeviceBusy'
<1>1. ASSUME UNCHANGED call, page'.provisioning = page.provisioning
      PROVE  DeviceBusy'
  BY <1>1 DEF DeviceBusy
<1>2. CASE D!OthersWrite \/ \E d \in Devices : D!Heartbeat(d)
  BY <1>1, <1>2 DEF D!OthersWrite, D!Heartbeat, D!HeartbeatRead, D!HeartbeatWrite
<1>3. CASE \/ D!ToggleModal \/ D!Dismiss
           \/ \E d \in Devices, e \in Weddings \cup {None} : D!Select(d, e)
  BY <1>1, <1>3, DevicePageInputs
<1>4. ASSUME NEW c \in Calls, NEW d \in Devices, D!Click(c, d) PROVE DeviceBusy'
  <2>1. PICK op, arg :
          /\ op \in D!Operations
          /\ Changes(c, op, "sent", arg, None)
          /\ IF op = "provision" THEN ~page.provisioning /\ page'.provisioning
             ELSE page'.provisioning = page.provisioning
    BY <1>4, DeviceClicks
  <2> QED
    BY <2>1 DEF DeviceBusy, Changes, Provisions, D!Operations
<1>5. ASSUME NEW c \in Calls, NEW op, NEW at, NEW arg, NEW got,
             Changes(c, op, at, arg, got), Provisions(op) <=> Provisions(call[c].op),
             page'.provisioning = page.provisioning
      PROVE  DeviceBusy'
  BY <1>5 DEF DeviceBusy, Changes
<1>6. ASSUME NEW c \in Calls, D!Operate(c) \/ D!ReadRows(c) PROVE DeviceBusy'
  <2>1. UNCHANGED page /\ \E at, arg, got : Changes(c, call[c].op, at, arg, got)
    BY <1>6, DeviceOperated, RowsAreRead DEF D!Operate, D!ReadRows
  <2> QED
    BY <1>5, <2>1
<1>7. ASSUME NEW c \in Calls, D!Operated(c) PROVE DeviceBusy'
  BY <1>5, <1>7, DeviceAnswered
<1>8. ASSUME NEW c \in Calls, D!OperationFails(c) \/ D!LoadFails(c) \/ D!Loaded(c)
      PROVE  DeviceBusy'
  <2>1. /\ Changes(c, "none", "idle", None, None)
        /\ ~Provisions(call[c].op) => page'.provisioning = page.provisioning
    BY <1>8, DeviceEnds
  <2> QED
    BY <2>1 DEF DeviceBusy, Changes, Provisions
<1> QED
  BY <1>2, <1>3, <1>4, <1>6, <1>7, <1>8 DEF D!Next, D!Progress

LEMMA DeviceStepShows ==
  ASSUME DeviceTyped, DeviceShows, D!Next
  PROVE  DeviceShows'
<1> USE DeviceIsVisit
<1>0. /\ page \in D!DevicePage /\ server \in D!Registries /\ page'.about = page.about
  BY DeviceStepTyped DEF DeviceTyped
<1>1. SUFFICES ASSUME ~disturbed' PROVE RegistryShown'
  BY DEF DeviceShows
<1>2. ASSUME UNCHANGED call, ~disturbed, server'.row = server.row, page'.list = page.list
      PROVE  RegistryShown'
  BY <1>0, <1>2 DEF DeviceShows, RegistryShown, Alone, RegistryFits, Agrees, Quiet
<1>3. CASE D!OthersWrite
  BY <1>1, <1>3 DEF D!OthersWrite
<1>4. ASSUME NEW d \in Devices, D!Heartbeat(d) PROVE RegistryShown'
  <2>1. CASE D!HeartbeatRead(d)
    <3>1. server'.row = server.row
      BY <1>0, <2>1 DEF D!HeartbeatRead, D!Registries
    <3> QED
      BY <1>1, <1>2, <2>1, <3>1 DEF D!HeartbeatRead
  <2>2. CASE D!HeartbeatWrite(d)
    <3>1. ~disturbed /\ (server.row[d] # D!Gone => server.beat[d] = server.row[d])
      BY <1>1, <2>2, Zenon DEF D!HeartbeatWrite, D!row
    <3>2. server'.row = server.row
      BY <1>0, <2>2, <3>1 DEF D!HeartbeatWrite, D!row, D!Registries
    <3> QED
      BY <1>2, <2>2, <3>1, <3>2 DEF D!HeartbeatWrite
  <2> QED
    BY <1>4, <2>1, <2>2 DEF D!Heartbeat
<1>5. CASE \/ D!ToggleModal \/ D!Dismiss
           \/ \E d \in Devices, e \in Weddings \cup {None} : D!Select(d, e)
  BY <1>1, <1>2, <1>5, DevicePageInputs
(* The one call there is has been sent or answered.                         *)
<1>6. ASSUME NEW c \in Calls, NEW op, NEW at, NEW arg, NEW got,
             Changes(c, op, at, arg, got), op # "none",
             \A d \in Calls : d # c => call'[d].op = "none",
             RegistryFits(c)'
      PROVE  RegistryShown'
  <2>1. ~Quiet' /\ Alone'
    BY <1>6 DEF Quiet, Changes, Idle, Alone
  <2>2. \A d \in Calls : d # c => RegistryFits(d)'
    BY <1>6, LoadsAre DEF RegistryFits
  <2> QED
    BY <1>6, <2>1, <2>2 DEF RegistryShown
<1>7. ASSUME NEW c \in Calls, NEW d \in Devices, D!Click(c, d) PROVE RegistryShown'
  <2>1. PICK op, arg : /\ op \in D!Operations
                       /\ Changes(c, op, "sent", arg, None) /\ Send(c, op, arg)
    BY <1>7, DeviceClicks
  <2>2. ~disturbed /\ Quiet /\ \A x \in Calls : x # c => call'[x].op = "none"
    BY <1>1, <2>1, AloneBegins DEF Changes
  <2>3. UNCHANGED server /\ page'.list = page.list
    BY <1>7, DeviceClicks
  <2>4. RegistryFits(c)'
    BY <1>0, <2>1, <2>2, <2>3, LoadsAre
       DEF DeviceShows, RegistryShown, RegistryFits, Agrees, Changes
  <2>5. op # "none"
    BY <2>1, LoadsAre
  <2> QED
    BY <1>6, <2>1, <2>2, <2>4, <2>5
<1>8. ASSUME NEW c \in Calls, call[c].op # "none", ~disturbed,
             NEW op, NEW at, NEW arg, NEW got, Changes(c, op, at, arg, got)
      PROVE  RegistryFits(c) /\ \A d \in Calls : d # c => call'[d].op = "none"
  BY <1>8, AloneGoesOn DEF DeviceShows, RegistryShown
<1>9. ASSUME NEW c \in Calls, D!Operate(c) PROVE RegistryShown'
  <2>1. call[c].op \in D!Operations /\ call[c].op # "none" /\ call[c].at = "sent"
        /\ UNCHANGED <<page, disturbed>>
    BY <1>9, DeviceOperated, LoadsAre DEF D!Operate, D!Sent
  <2>2. CASE \E got : Changes(c, call[c].op, "served", call[c].arg, got)
    <3>1. PICK got : Changes(c, call[c].op, "served", call[c].arg, got)
      BY <2>2
    <3>2. RegistryFits(c)'
      BY <2>1, <3>1, LoadsAre DEF RegistryFits, Changes
    <3> QED
      BY <1>1, <1>6, <1>8, <2>1, <3>1, <3>2
  <2>3. CASE /\ UNCHANGED server
             /\ Changes(c, call[c].op, "refused", call[c].arg, call[c].got)
    <3>1. RegistryFits(c) /\ \A d \in Calls : d # c => call'[d].op = "none"
      BY <1>1, <1>8, <2>1, <2>3
    <3>2. RegistryFits(c)'
      BY <2>1, <2>3, <3>1, LoadsAre DEF RegistryFits, Changes, Agrees
    <3> QED
      BY <1>6, <2>1, <2>3, <3>1, <3>2
  <2> QED
    BY <1>9, <2>2, <2>3, DeviceOperated
<1>10. ASSUME NEW c \in Calls, D!ReadRows(c) PROVE RegistryShown'
  <2>1. call[c].op \in D!Loads /\ call[c].op # "none"
        /\ UNCHANGED <<server, page, disturbed>>
    BY <1>10, RowsAreRead, LoadsAre DEF D!ReadRows
  <2>2. PICK at, got : /\ Changes(c, call[c].op, at, call[c].arg, got)
                       /\ at = "served" => Agrees(got)
    BY <1>10, RowsAreRead
  <2>3. RegistryFits(c)'
    BY <2>1, <2>2, LoadsAre DEF RegistryFits, Changes, Agrees
  <2> QED
    BY <1>1, <1>6, <1>8, <2>1, <2>2, <2>3
<1>11. ASSUME NEW c \in Calls, D!Operated(c) PROVE RegistryShown'
  <2>1. PICK op \in D!Loads : Changes(c, op, "sent", None, None)
    BY <1>11, DeviceAnswered
  <2>2. op # "none" /\ call[c].op # "none" /\ UNCHANGED disturbed
    BY <1>11, DeviceAnswered, LoadsAre
  <2>3. RegistryFits(c)'
    BY <2>1, LoadsAre DEF RegistryFits, Changes
  <2> QED
    BY <1>1, <1>6, <1>8, <2>1, <2>2, <2>3
<1>12. CASE \E c \in Calls : D!LoadFails(c)
  BY <1>1, <1>12 DEF D!LoadFails
<1>13. ASSUME NEW c \in Calls, D!OperationFails(c) \/ D!Loaded(c) PROVE RegistryShown'
  <2>1. /\ call[c].op # "none" /\ UNCHANGED server
        /\ Changes(c, "none", "idle", None, None)
        /\ page'.list = IF D!Loaded(c) THEN call[c].got ELSE page.list
    BY <1>13, DeviceEnds
  <2>2. ~disturbed /\ (D!OperationFails(c) => call[c].at # "served")
    <3>1. CASE D!OperationFails(c)
      BY <1>1, <3>1, Zenon DEF D!OperationFails
    <3>2. CASE D!Loaded(c) /\ ~D!OperationFails(c)
      BY <1>1, <3>2 DEF D!Loaded
    <3> QED
      BY <1>13, <3>1, <3>2
  <2>3. RegistryFits(c) /\ \A d \in Calls : d # c => call'[d].op = "none"
    BY <1>8, <2>1, <2>2
  <2>4. Agrees(page.list)'
    <3>1. CASE D!Loaded(c)
      <4>1. Agrees(call[c].got)
        BY <2>3, <3>1 DEF D!Loaded, RegistryFits
      <4> QED
        BY <1>0, <2>1, <3>1, <4>1 DEF Agrees
    <3>2. CASE ~D!Loaded(c)
      <4>1. Agrees(page.list)
        BY <1>13, <2>2, <2>3, <3>2 DEF D!OperationFails, RegistryFits
      <4> QED
        BY <1>0, <2>1, <3>2, <4>1 DEF Agrees
    <3> QED
      BY <3>1, <3>2
  <2>5. \A d \in Calls : call'[d].op = "none"
    BY <2>1, <2>3 DEF Changes
  <2> QED
    BY <2>4, <2>5, LoadsAre DEF RegistryShown, Alone, RegistryFits
<1> QED
  BY <1>3, <1>4, <1>5, <1>7, <1>9, <1>10, <1>11, <1>12, <1>13 DEF D!Next, D!Progress

LEMMA DeviceBegins == D!Init => DeviceTyped /\ DeviceBusy /\ DeviceShows
<1> SUFFICES ASSUME D!Init PROVE DeviceTyped /\ DeviceBusy /\ DeviceShows
  OBVIOUS
<1>1. /\ DeviceCallsAre /\ Alone /\ ~Quiet
      /\ \A c \in Calls : call[c].op \in {"none", "load"} /\ call[c].at # "served"
      /\ disturbed = FALSE /\ left = MaxInputs
  <2>1. VisitInit /\ "load" \in D!Operations \cup D!Loads
    BY DeviceIsVisit, LoadsAre DEF D!Init
  <2> QED
    BY <2>1, VisitBegins, VisitCalls DEF DeviceCallsAre
<1>2. D!NothingKnown \in Rows /\ \A d \in Devices : D!NothingKnown[d] = D!Gone
  BY DEF D!NothingKnown, Rows, D!Values
<1>3. server \in D!Registries
  BY <1>2 DEF D!Init, D!Registries, Rows, D!Values
<1>4. page \in D!DevicePage /\ page.list = D!NothingKnown
  BY <1>2 DEF D!Init, D!DevicePage, Rows
<1>5. DeviceTyped
  <2>1. left \in 0..MaxInputs
    BY <1>1, InputsAreNat
  <2> QED
    BY <1>1, <1>2, <1>3, <1>4, <2>1, LoadsAre DEF DeviceTyped, DeviceCallIs, DraftsAssign
<1>6. DeviceBusy
  BY <1>1 DEF DeviceBusy, Provisions
<1>7. DeviceShows
  BY <1>1, LoadsAre DEF DeviceShows, RegistryShown, RegistryFits
<1> QED
  BY <1>5, <1>6, <1>7

LEMMA DeviceHolds ==
  ASSUME DeviceTyped, DeviceBusy, DeviceShows
  PROVE  D!TypeOK /\ D!OneProvisioning /\ D!ShowsOwnWork
<1>1. D!TypeOK
  BY DEF DeviceTyped, DeviceCallsAre, CallsTyped, D!TypeOK, DeviceArgs, Rows,
    D!CallsOf, CallsOf
<1>2. D!OneProvisioning
  <2>1. D!LoadFor("provision") = "provisioned"
    BY LoadsAre
  <2> QED
    BY <2>1 DEF D!OneProvisioning, DeviceBusy, Provisions
<1>3. D!ShowsOwnWork
  BY DeviceIsVisit DEF DeviceShows, RegistryShown, Agrees, D!ShowsOwnWork, D!row
<1> QED
  BY <1>1, <1>2, <1>3

-----------------------------------------------------------------------------
(* The events: a form has no more albums than clicks can have added to the  *)
(* ones it was opened with, and a call is about the events or about the     *)
(* contacts of one.                                                         *)
EventRows == [Weddings -> E!Rows \cup {E!NoRow}]
ContactLists == [contacts : SUBSET Emails]

EventPageIs ==
  [about : {None} \cup Weddings, list : EventRows, loading : BOOLEAN, error : BOOLEAN,
   form : E!Forms, zip : BOOLEAN,
   panel : [loading : BOOLEAN, adding : BOOLEAN, invites : SUBSET Emails]]

FormBounded ==
  /\ page.form.named + left <= AlbumLimit + MaxInputs + 3
  /\ page.form.blank + left <= MaxInputs

EventCallsAre ==
  CallsTyped(E!Operations \cup E!Loads, E!Forms \cup ContactLists, EventRows \cup ContactLists)

EventCallIs(op, at, arg, got) ==
  /\ op \in {"save", "delete"} => arg \in E!Forms
  /\ op = "delete" => arg.of \in Weddings
  /\ op \in {"add", "remove"} => arg \in ContactLists
  /\ op = "remove" => \E m : arg.contacts = {m}
  /\ op = "load" /\ at = "served" => got \in EventRows
  /\ op = "invites" /\ at = "served" => got \in ContactLists

EventTyped ==
  /\ server \in E!EventTables /\ page \in EventPageIs /\ FormBounded
  /\ EventCallsAre
  /\ disturbed \in BOOLEAN /\ left \in 0..MaxInputs
  /\ \A c \in Calls : EventCallIs(call[c].op, call[c].at, call[c].arg, call[c].got)

(* What works for the panel of an event is of its page, once that has it.   *)
PanelOps == {"add", "remove", "zip", "invites"}

EventBusy ==
  /\ \A x, y \in page.form.by : x = y
  /\ page.form.open => page.about = None
  /\ \A c \in Calls :
       /\ call[c].op \in {"save", "delete"} => page.about = None
       /\ call[c].op \in PanelOps => page.about # None /\ ~page.loading
       /\ call[c].op = "add" /\ ~page.error => page.panel.adding
  /\ \A c, d \in Calls : call[c].op = "add" /\ call[d].op = "add" => c = d

LEMMA EventIsVisit ==
  /\ \A c, r : E!SetCall(c, r) <=> SetCall(c, r)
  /\ \A c, op, arg : E!Send(c, op, arg) <=> Send(c, op, arg)
  /\ \A c, got : E!Serve(c, got) <=> Serve(c, got)
  /\ \A c : E!Refuse(c) <=> Refuse(c)
  /\ E!Idle = Idle /\ E!Loading = Loading
  /\ E!VisitInit <=> VisitInit
  /\ E!Quiet <=> Quiet
  /\ E!Spend <=> Spend
  BY DEF E!SetCall, SetCall, E!Send, Send, E!Serve, Serve, E!Refuse, Refuse,
    E!Idle, Idle, E!Loading, Loading, E!VisitInit, VisitInit, E!Spend, Spend,
    E!Quiet, Quiet

LEMMA AlbumsFit == \A n \in Nat : E!NormalizeAlbums(n) \in 1..AlbumLimit
  BY AlbumsAreTaken DEF E!NormalizeAlbums, E!Least

LEMMA ClosedIsAForm ==
  /\ E!Closed \in E!Forms
  /\ E!Closed.of = None /\ E!Closed.named = 0 /\ E!Closed.blank = 0
  /\ ~E!Closed.open /\ E!Closed.by = {}
  /\ \A e \in Weddings : [E!Closed EXCEPT !.of = e] \in E!Forms
                         /\ [E!Closed EXCEPT !.of = e].of = e
<1>1. /\ DefaultDays \in Days
      /\ 0 \in 0..(AlbumLimit + MaxInputs + 3) /\ 0 \in 0..MaxInputs
  BY DaysAreNat, AlbumsAreTaken, InputsAreNat
<1> QED
  BY <1>1 DEF E!Closed, E!Forms

(* The writes of the tables.                                                *)
LEMMA EventWrites ==
  ASSUME server \in E!EventTables, NEW e \in Weddings
  PROVE  /\ \A d \in Days, n \in Nat :
              E!CreateRow(e, d, n) \/ E!UpdateRow(e, d, n) =>
                /\ server' \in E!EventTables
                /\ server'.ev = [server.ev EXCEPT ![e] =
                                   [days |-> d, albums |-> E!NormalizeAlbums(n)]]
                /\ server'.removed = server.removed
         /\ E!DeleteRow(e) => /\ server' \in E!EventTables
                              /\ server'.ev = [server.ev EXCEPT ![e] = E!NoRow]
                              /\ server'.removed = server.removed \cup {e}
         /\ \A emails \in SUBSET Emails : E!Invite(e, emails) =>
              /\ server' \in E!EventTables /\ server'.ev = server.ev
              /\ server'.removed = server.removed
              /\ server'.invited[e] = server.invited[e] \cup emails
         /\ \A m : E!Uninvite(e, m) =>
              /\ server' \in E!EventTables /\ server'.ev = server.ev
              /\ server'.removed = server.removed
              /\ server'.invited[e] = server.invited[e] \ {m}
<1>0. /\ server.ev \in EventRows /\ server.removed \in SUBSET Weddings
      /\ server.invited \in [Weddings -> SUBSET Emails]
  BY DEF E!EventTables, EventRows
<1>1. ASSUME NEW d \in Days, NEW n \in Nat,
             E!CreateRow(e, d, n) \/ E!UpdateRow(e, d, n)
      PROVE  /\ server' \in E!EventTables
             /\ server'.ev = [server.ev EXCEPT ![e] =
                                [days |-> d, albums |-> E!NormalizeAlbums(n)]]
             /\ server'.removed = server.removed
  <2> DEFINE r == [days |-> d, albums |-> E!NormalizeAlbums(n)]
             ev == [server.ev EXCEPT ![e] = r]
  <2>1. r \in E!Rows
    BY AlbumsFit DEF E!Rows
  <2>2. server' = [server EXCEPT !.ev = ev]
    BY <1>1 DEF E!CreateRow, E!UpdateRow
  <2> HIDE DEF r
  <2>3. ev \in EventRows
    BY <1>0, <2>1 DEF EventRows
  <2>4. server' \in E!EventTables /\ server'.ev = ev /\ server'.removed = server.removed
    <3> HIDE DEF ev
    <3> QED
      BY <2>2, <2>3 DEF E!EventTables, EventRows
  <2> QED
    BY <2>4 DEF r
<1>2. ASSUME E!DeleteRow(e)
      PROVE  /\ server' \in E!EventTables
             /\ server'.ev = [server.ev EXCEPT ![e] = E!NoRow]
             /\ server'.removed = server.removed \cup {e}
  <2> DEFINE ev == [server.ev EXCEPT ![e] = E!NoRow]
             removed == server.removed \cup {e}
             invited == [server.invited EXCEPT ![e] = {}]
  <2>1. server' = [server EXCEPT !.ev = ev, !.removed = removed, !.invited = invited]
    BY <1>2 DEF E!DeleteRow
  <2>2. ev \in EventRows /\ removed \in SUBSET Weddings
        /\ invited \in [Weddings -> SUBSET Emails]
    BY <1>0 DEF EventRows
  <2>3. server' \in E!EventTables /\ server'.ev = ev /\ server'.removed = removed
    <3> HIDE DEF ev, removed, invited
    <3> QED
      BY <2>1, <2>2 DEF E!EventTables, EventRows
  <2> QED
    BY <2>3
<1>3. ASSUME NEW x \in SUBSET Emails,
             server' = [server EXCEPT !.invited = [server.invited EXCEPT ![e] = x]]
      PROVE  /\ server' \in E!EventTables /\ server'.ev = server.ev
             /\ server'.removed = server.removed /\ server'.invited[e] = x
  <2> DEFINE invited == [server.invited EXCEPT ![e] = x]
  <2>1. invited \in [Weddings -> SUBSET Emails] /\ invited[e] = x
    BY <1>0
  <2>2. server' = [server EXCEPT !.invited = invited]
    BY <1>3
  <2> HIDE DEF invited
  <2> QED
    BY <2>1, <2>2 DEF E!EventTables
<1>4. ASSUME NEW emails \in SUBSET Emails, E!Invite(e, emails)
      PROVE  /\ server' \in E!EventTables /\ server'.ev = server.ev
             /\ server'.removed = server.removed
             /\ server'.invited[e] = server.invited[e] \cup emails
  <2> DEFINE x == server.invited[e] \cup emails
  <2>1. server' = [server EXCEPT !.invited = [server.invited EXCEPT ![e] = x]]
    BY <1>4 DEF E!Invite
  <2>2. x \in SUBSET Emails
    BY <1>0
  <2> HIDE DEF x
  <2>3. server'.invited[e] = x /\ server' \in E!EventTables /\ server'.ev = server.ev
        /\ server'.removed = server.removed
    BY <1>3, <2>1, <2>2
  <2> QED
    BY <2>3 DEF x
<1>5. ASSUME NEW m, E!Uninvite(e, m)
      PROVE  /\ server' \in E!EventTables /\ server'.ev = server.ev
             /\ server'.removed = server.removed
             /\ server'.invited[e] = server.invited[e] \ {m}
  <2> DEFINE x == server.invited[e] \ {m}
  <2>1. server' = [server EXCEPT !.invited = [server.invited EXCEPT ![e] = x]]
    BY <1>5 DEF E!Uninvite
  <2>2. x \in SUBSET Emails
    BY <1>0
  <2> HIDE DEF x
  <2>3. server'.invited[e] = x /\ server' \in E!EventTables /\ server'.ev = server.ev
        /\ server'.removed = server.removed
    BY <1>3, <2>1, <2>2
  <2> QED
    BY <2>3 DEF x
<1> QED
  BY <1>1, <1>2, <1>4, <1>5

LEMMA RowsAreThere == \A r \in E!Rows : r # E!NoRow
<1> SUFFICES ASSUME NEW r \in E!Rows PROVE r.albums # E!NoRow.albums
  OBVIOUS
<1>1. r.albums \in 1..AlbumLimit
  BY DEF E!Rows
<1> QED
  BY <1>1 DEF E!NoRow

(* What the server makes of an operation: of the tables and of its call.    *)
RowBecomes(e, r) == server'.ev = [server.ev EXCEPT ![e] = r]

Untaken(e) == server.ev[e] = E!NoRow /\ e \notin server.removed

EventOperates(c) ==
  LET op == call[c].op
      arg == call[c].arg
      serves(o) == op = o /\ Changes(c, o, "served", arg, None)
      sameRows == server'.ev = server.ev /\ server'.removed = server.removed IN
  \/ /\ serves("save") /\ server'.removed = server.removed
     /\ \E e \in Weddings, r \in E!Rows :
          /\ RowBecomes(e, r) /\ r.days = arg.days
          /\ arg.of = None => Untaken(e)
          /\ arg.of # None => arg.of = e /\ server.ev[e] # E!NoRow
  \/ /\ serves("delete") /\ server'.removed = server.removed \cup {arg.of}
     /\ RowBecomes(arg.of, E!NoRow)
  \/ /\ serves("add") /\ sameRows
     /\ server'.invited[page.about] = server.invited[page.about] \cup arg.contacts
  \/ /\ serves("remove") /\ sameRows
     /\ server'.invited[page.about] = server.invited[page.about] \ arg.contacts
  \/ serves("zip") /\ UNCHANGED server
  \/ \E got : Changes(c, op, "refused", arg, got) /\ sameRows

LEMMA EventOperated ==
  ASSUME EventTyped, EventBusy, NEW c \in Calls, E!Operate(c)
  PROVE  /\ EventCallsAre' /\ call[c].op \in E!Operations /\ call[c].at = "sent"
         /\ server' \in E!EventTables
         /\ EventOperates(c)
<1> USE EventIsVisit
<1> DEFINE arg == call[c].arg
           op == call[c].op
<1>0. /\ EventCallsAre /\ server \in E!EventTables /\ page.about \in {None} \cup Weddings
      /\ EventCallIs(op, call[c].at, arg, call[c].got)
      /\ op \in {"add", "remove", "zip"} => page.about \in Weddings
  BY DEF EventTyped, EventBusy, PanelOps, EventPageIs
<1>1. op \in E!Operations /\ op # "none" /\ call[c].at = "sent"
  BY DEF E!Operate, E!Sent, E!Operations
<1>2. Serve(c, None) => EventCallsAre' /\ Changes(c, op, "served", arg, None)
  BY <1>0, <1>1, ServeChanges DEF EventCallsAre
<1>3. Refuse(c) => EventCallsAre' /\ Changes(c, op, "refused", arg, call[c].got)
  BY <1>0, <1>1, RefuseChanges DEF EventCallsAre
<1>4. CASE E!Sent(c, "save") /\ Serve(c, None)
           /\ \/ arg.of = None /\ \E e \in Weddings : E!CreateRow(e, arg.days, arg.named)
              \/ arg.of # None /\ E!UpdateRow(arg.of, arg.days, arg.named)
  <2>1. op = "save" /\ arg \in E!Forms
    BY <1>0, <1>4 DEF E!Sent, EventCallIs
  <2>2. arg.days \in Days /\ arg.named \in Nat /\ arg.of \in Weddings \cup {None}
    BY <2>1, AlbumsAreTaken, InputsAreNat DEF E!Forms
  <2>3. PICK e \in Weddings :
          /\ E!CreateRow(e, arg.days, arg.named) \/ E!UpdateRow(e, arg.days, arg.named)
          /\ arg.of = None => Untaken(e)
          /\ arg.of # None => arg.of = e /\ server.ev[e] # E!NoRow
    BY <1>4, <2>2 DEF E!CreateRow, E!UpdateRow, E!Exists, Untaken
  <2> DEFINE r == [days |-> arg.days, albums |-> E!NormalizeAlbums(arg.named)]
  <2>4. r \in E!Rows /\ r.days = arg.days
    BY <2>2, AlbumsFit DEF E!Rows
  <2>5. /\ server' \in E!EventTables /\ server'.removed = server.removed
        /\ RowBecomes(e, r)
    <3>1. \A d \in Days, n \in Nat :
            E!CreateRow(e, d, n) \/ E!UpdateRow(e, d, n) =>
              /\ server' \in E!EventTables
              /\ server'.ev = [server.ev EXCEPT ![e] =
                                 [days |-> d, albums |-> E!NormalizeAlbums(n)]]
              /\ server'.removed = server.removed
      BY <1>0, EventWrites
    <3> QED
      BY <2>2, <2>3, <3>1 DEF RowBecomes
  <2> HIDE DEF r
  <2>6. Changes(c, "save", "served", arg, None) /\ EventCallsAre'
    BY <1>2, <1>4, <2>1
  <2> QED
    BY <1>1, <2>1, <2>3, <2>4, <2>5, <2>6 DEF EventOperates
<1>5. CASE E!Sent(c, "delete") /\ E!DeleteRow(arg.of) /\ Serve(c, None)
  <2>1. op = "delete" /\ arg.of \in Weddings
    BY <1>0, <1>5 DEF E!Sent, EventCallIs
  <2>2. /\ server' \in E!EventTables /\ server'.removed = server.removed \cup {arg.of}
        /\ RowBecomes(arg.of, E!NoRow)
    BY <1>0, <1>5, <2>1, EventWrites DEF RowBecomes
  <2> QED
    BY <1>1, <1>2, <1>5, <2>1, <2>2 DEF EventOperates
<1>6. CASE E!Sent(c, "add")
           /\ \/ E!Invite(page.about, arg.contacts) /\ Serve(c, None)
              \/ /\ Refuse(c)
                 /\ \E some \in SUBSET arg.contacts : E!Invite(page.about, some)
  <2>1. op = "add" /\ arg.contacts \in SUBSET Emails /\ page.about \in Weddings
    BY <1>0, <1>6 DEF E!Sent, EventCallIs, ContactLists
  <2>2. \A some \in SUBSET arg.contacts : E!Invite(page.about, some) =>
          /\ server' \in E!EventTables /\ server'.ev = server.ev
          /\ server'.removed = server.removed
          /\ server'.invited[page.about] = server.invited[page.about] \cup some
    BY <1>0, <2>1, EventWrites
  <2> QED
    BY <1>1, <1>2, <1>3, <1>6, <2>1, <2>2 DEF EventOperates
<1>7. CASE E!Sent(c, "remove") /\ Serve(c, None)
           /\ \E m \in arg.contacts : E!Uninvite(page.about, m)
  <2>1. op = "remove" /\ page.about \in Weddings
    BY <1>0, <1>7 DEF E!Sent
  <2>2. PICK m : arg.contacts = {m} /\ E!Uninvite(page.about, m)
    BY <1>0, <1>7, <2>1 DEF EventCallIs
  <2>3. /\ server' \in E!EventTables /\ server'.ev = server.ev
        /\ server'.removed = server.removed
        /\ server'.invited[page.about] = server.invited[page.about] \ arg.contacts
    BY <1>0, <2>1, <2>2, EventWrites
  <2> QED
    BY <1>1, <1>2, <1>7, <2>1, <2>3 DEF EventOperates
<1>8. CASE E!Sent(c, "zip") /\ Serve(c, None) /\ UNCHANGED server
  BY <1>0, <1>1, <1>2, <1>8 DEF EventOperates, E!Sent
<1>9. CASE Refuse(c) /\ UNCHANGED server
  BY <1>0, <1>1, <1>3, <1>9 DEF EventOperates
<1> QED
  BY <1>0, <1>1, <1>4, <1>5, <1>6, <1>7, <1>8, <1>9 DEF E!Operate, E!Sent

(* What a load reads of the tables.                                         *)
LEMMA EventRead ==
  ASSUME EventTyped, EventBusy, NEW c \in Calls, E!Read(c)
  PROVE  /\ EventCallsAre' /\ call[c].op \in E!Loads /\ call[c].at = "sent"
         /\ UNCHANGED <<server, page, disturbed, left>>
         /\ \E at \in {"served", "refused"} : \E got :
              /\ Changes(c, call[c].op, at, call[c].arg, got)
              /\ call[c].op = "load" /\ at = "served" =>
                   /\ got \in EventRows
                   /\ \A e \in Weddings : /\ got[e] # E!NoRow => got[e] = server.ev[e]
                                          /\ page.about \in {None, e} => got[e] = server.ev[e]
              /\ call[c].op = "invites" /\ at = "served" =>
                   got \in ContactLists /\ got.contacts = server.invited[page.about]
<1> USE EventIsVisit
<1>0. /\ EventCallsAre /\ page.about \in {None} \cup Weddings
      /\ server.ev \in EventRows /\ server.invited \in [Weddings -> SUBSET Emails]
      /\ call[c].op = "invites" => page.about \in Weddings
  BY DEF EventTyped, EventBusy, EventPageIs, E!EventTables, EventRows, PanelOps
<1>1. /\ call[c].op \in E!Loads /\ call[c].op # "none" /\ call[c].at = "sent"
      /\ UNCHANGED <<server, page, disturbed, left>>
  BY DEF E!Read, E!Sent, E!Loads
<1>6. \A got \in EventRows \cup ContactLists : Serve(c, got) =>
        EventCallsAre' /\ Changes(c, call[c].op, "served", call[c].arg, got)
  BY <1>0, <1>1, ServeChanges DEF EventCallsAre
<1>2. CASE E!Sent(c, "load") /\ page.about = None /\ Serve(c, server.ev)
  BY <1>0, <1>1, <1>2, ServeChanges DEF EventCallsAre, E!Sent
<1>3. CASE E!Sent(c, "load") /\ page.about # None
           /\ Serve(c, [E!NoRows EXCEPT ![page.about] = server.ev[page.about]])
  <2> DEFINE got == [E!NoRows EXCEPT ![page.about] = server.ev[page.about]]
  <2>1. /\ got \in EventRows
        /\ \A e \in Weddings : /\ got[e] # E!NoRow => got[e] = server.ev[e]
                               /\ page.about \in {None, e} => got[e] = server.ev[e]
    BY <1>0, <1>3 DEF EventRows, E!NoRows
  <2>0. Serve(c, got) /\ call[c].op = "load"
    BY <1>3 DEF E!Sent
  <2> HIDE DEF got
  <2>2. EventCallsAre' /\ Changes(c, "load", "served", call[c].arg, got)
    BY <1>6, <2>0, <2>1
  <2> QED
    BY <1>1, <1>3, <2>1, <2>2 DEF E!Sent
<1>4. CASE E!Sent(c, "invites") /\ Serve(c, E!Contacts(server.invited[page.about]))
  <2> DEFINE got == E!Contacts(server.invited[page.about])
  <2>1. got \in ContactLists /\ got.contacts = server.invited[page.about]
    BY <1>0, <1>4 DEF ContactLists, E!Contacts, E!Sent
  <2>0. Serve(c, got) /\ call[c].op = "invites"
    BY <1>4 DEF E!Sent
  <2> HIDE DEF got
  <2>2. EventCallsAre' /\ Changes(c, "invites", "served", call[c].arg, got)
    BY <1>6, <2>0, <2>1
  <2> QED
    BY <1>1, <1>4, <2>1, <2>2 DEF E!Sent
<1>5. CASE Refuse(c)
  <2>1. EventCallsAre' /\ Changes(c, call[c].op, "refused", call[c].arg, call[c].got)
    BY <1>0, <1>1, <1>5, RefuseChanges DEF EventCallsAre
  <2> QED
    BY <1>1, <2>1
<1> QED
  BY <1>2, <1>3, <1>4, <1>5 DEF E!Read

(* What is set of a panel.                                                  *)
Panels == [loading : BOOLEAN, adding : BOOLEAN, invites : SUBSET Emails]

BesidePanel ==
  /\ page' \in EventPageIs /\ page'.about = page.about /\ page'.list = page.list
  /\ page'.loading = page.loading /\ page'.error = page.error /\ page'.form = page.form

LEMMA PanelSet ==
  ASSUME page \in EventPageIs, NEW new \in Panels, E!InPanel(new)
  PROVE  /\ BesidePanel
         /\ page'.panel \in {new, page.panel}
         /\ E!Mounted => page'.panel = new
<1>1. CASE E!Mounted
  <2>1. page' = [page EXCEPT !.panel = new]
    BY <1>1 DEF E!InPanel
  <2> QED
    BY <2>1 DEF EventPageIs, Panels, BesidePanel
<1>2. CASE ~E!Mounted
  BY <1>2 DEF E!InPanel, BesidePanel
<1> QED
  BY <1>1, <1>2

(* What the answer to an operation makes of its call and of the page.       *)
LEMMA EventAnswered ==
  ASSUME EventTyped, EventBusy, NEW c \in Calls, E!Operated(c)
  PROVE  /\ EventCallsAre' /\ UNCHANGED <<server, disturbed, left>>
         /\ call[c].op \in E!Operations /\ call[c].at = "served"
         /\ page' \in EventPageIs /\ page'.about = page.about /\ page'.list = page.list
         /\ page'.form \in {page.form, E!Closed}
         /\ call[c].op \in {"save", "delete"} =>
              /\ Changes(c, "load", "sent", None, None)
              /\ page'.loading /\ ~page'.error /\ page'.panel = page.panel
              /\ call[c].op = "save" /\ call[c].arg.of # None /\ page.form.of # None =>
                   page'.form = E!Closed
         /\ call[c].op \notin {"save", "delete"} =>
              /\ Changes(c, "none", "idle", None, None) /\ BesidePanel
              /\ call[c].op # "add" => page'.panel.adding = page.panel.adding
              /\ ~page.error => page'.panel.invites =
                   IF call[c].op = "add" THEN page.panel.invites \cup call[c].arg.contacts
                   ELSE IF call[c].op = "remove"
                        THEN page.panel.invites \ call[c].arg.contacts
                        ELSE page.panel.invites
<1> USE EventIsVisit
<1> DEFINE op == call[c].op
           arg == call[c].arg
<1>0. /\ EventCallsAre /\ page \in EventPageIs /\ page.panel \in Panels
      /\ EventCallIs(op, call[c].at, arg, call[c].got)
      /\ op \in PanelOps => page.about # None /\ ~page.loading
  BY DEF EventTyped, EventBusy, EventPageIs, Panels
<1>1. /\ op \in E!Operations /\ call[c].at = "served" /\ op # "none"
      /\ UNCHANGED <<server, disturbed, left>>
  BY DEF E!Operated, E!Operations
<1>2. CASE op \in {"save", "delete"}
  <2> DEFINE new == IF op = "save" /\ (arg.of = None) = (page.form.of = None)
                    THEN E!Closed ELSE page.form
  <2>1. page' = [page EXCEPT !.loading = TRUE, !.error = FALSE, !.form = new]
        /\ SetCall(c, Loading)
    BY <1>2 DEF E!Operated
  <2>2. new \in E!Forms /\ new \in {page.form, E!Closed}
        /\ (op = "save" /\ arg.of # None /\ page.form.of # None => new = E!Closed)
    BY <1>0, ClosedIsAForm DEF EventPageIs
  <2> HIDE DEF new
  <2>3. /\ page' \in EventPageIs /\ page'.about = page.about /\ page'.list = page.list
        /\ page'.form = new /\ page'.loading /\ ~page'.error /\ page'.panel = page.panel
    BY <1>0, <2>1, <2>2 DEF EventPageIs
  <2>4. EventCallsAre' /\ Changes(c, "load", "sent", None, None)
    BY <1>0, <2>1, ReloadChanges DEF EventCallsAre, E!Loads
  <2> QED
    BY <1>1, <1>2, <2>2, <2>3, <2>4
<1>3. CASE op \notin {"save", "delete"}
  <2>1. SetCall(c, Idle)
    BY <1>1, <1>3 DEF E!Operated
  <2>2. EventCallsAre' /\ Changes(c, "none", "idle", None, None)
    BY <1>0, <2>1, EndChanges DEF EventCallsAre
  <2>3. op \in {"add", "remove", "zip"}
    BY <1>1, <1>3 DEF E!Operations
  <2>4. ~page.error => E!Mounted
    BY <1>0, <2>3 DEF E!Mounted, PanelOps
  <2>5. CASE op = "add"
    <3> DEFINE new == [page.panel EXCEPT !.adding = FALSE, !.invites = @ \cup arg.contacts]
    <3>1. new \in Panels /\ new.invites = page.panel.invites \cup arg.contacts
      BY <1>0, <2>5 DEF Panels, EventCallIs, ContactLists
    <3>2. E!InPanel(new)
      BY <2>5 DEF E!Operated
    <3> HIDE DEF new
    <3>3. BesidePanel /\ (~page.error => page'.panel = new)
      BY <1>0, <2>4, <3>1, <3>2, PanelSet
    <3> QED
      BY <1>1, <1>3, <2>2, <2>5, <3>1, <3>3 DEF BesidePanel
  <2>6. CASE op = "remove"
    <3> DEFINE new == [page.panel EXCEPT !.invites = @ \ arg.contacts]
    <3>1. new \in Panels /\ new.invites = page.panel.invites \ arg.contacts
          /\ new.adding = page.panel.adding
      BY <1>0 DEF Panels
    <3>2. E!InPanel(new)
      BY <2>6 DEF E!Operated
    <3> HIDE DEF new
    <3>3. BesidePanel /\ (~page.error => page'.panel = new) /\ page'.panel \in {new, page.panel}
      BY <1>0, <2>4, <3>1, <3>2, PanelSet
    <3> QED
      BY <1>1, <1>3, <2>2, <2>6, <3>1, <3>3 DEF BesidePanel
  <2>7. CASE op = "zip"
    <3>1. page' = [page EXCEPT !.zip = FALSE]
      BY <2>7 DEF E!Operated
    <3>2. BesidePanel /\ page'.panel = page.panel
      BY <1>0, <3>1 DEF BesidePanel, EventPageIs
    <3> QED
      BY <1>1, <1>3, <2>2, <2>7, <3>2 DEF BesidePanel
  <2> QED
    BY <2>3, <2>5, <2>6, <2>7
<1> QED
  BY <1>2, <1>3

(* What a load makes of its call and of the page.                           *)
LEMMA EventLoaded ==
  ASSUME EventTyped, EventBusy, NEW c \in Calls, E!Loaded(c)
  PROVE  /\ EventCallsAre' /\ UNCHANGED <<server, disturbed, left>>
         /\ call[c].op = "load" /\ call[c].at = "served"
         /\ page' \in EventPageIs /\ page'.about = page.about /\ ~page'.loading
         /\ page'.list = call[c].got /\ page'.error = page.error
         /\ page'.form = page.form /\ page'.panel.adding = page.panel.adding
         /\ page'.panel.invites = page.panel.invites
         /\ page.about = None => Changes(c, "none", "idle", None, None)
         /\ page.about # None => Changes(c, "invites", "sent", None, None)
<1> USE EventIsVisit
<1>0. /\ EventCallsAre /\ page \in EventPageIs
      /\ call[c].op = "load" /\ call[c].at = "served" /\ call[c].got \in EventRows
      /\ UNCHANGED <<server, disturbed, left>>
  BY DEF EventTyped, EventCallIs, E!Loaded, E!Served
<1> DEFINE got == call[c].got
           panel == [page.panel EXCEPT !.loading = page.about # None]
<1>1. panel \in Panels /\ panel.adding = page.panel.adding
      /\ panel.invites = page.panel.invites
  BY <1>0 DEF EventPageIs, Panels
<1>2. page' = [page EXCEPT !.loading = FALSE, !.list = got, !.panel = panel]
  BY DEF E!Loaded
<1> HIDE DEF panel
<1>3. /\ page' \in EventPageIs /\ page'.about = page.about /\ ~page'.loading
      /\ page'.list = got /\ page'.error = page.error
      /\ page'.form = page.form /\ page'.panel = panel
  BY <1>0, <1>1, <1>2 DEF EventPageIs, Panels
<1>4. CASE page.about = None
  <2>1. SetCall(c, Idle)
    BY <1>4 DEF E!Loaded
  <2> QED
    BY <1>0, <1>1, <1>3, <1>4, <2>1, EndChanges DEF EventCallsAre
<1>5. CASE page.about # None
  <2>1. SetCall(c, [Loading EXCEPT !.op = "invites"])
    BY <1>5 DEF E!Loaded
  <2>2. EventCallsAre' /\ Changes(c, "invites", "sent", None, None)
    BY <1>0, <2>1, LoadChanges DEF EventCallsAre, E!Loads
  <2> QED
    BY <1>0, <1>1, <1>3, <1>5, <2>2
<1> QED
  BY <1>4, <1>5

LEMMA PanelAnswered ==
  ASSUME EventTyped, EventBusy, NEW c \in Calls, E!PanelLoaded(c)
  PROVE  /\ EventCallsAre' /\ UNCHANGED <<server, disturbed, left>>
         /\ call[c].op = "invites" /\ call[c].at = "served"
         /\ Changes(c, "none", "idle", None, None)
         /\ BesidePanel /\ page'.panel.adding = page.panel.adding
         /\ ~page.error => page'.panel.invites = call[c].got.contacts
<1> USE EventIsVisit
<1>0. /\ EventCallsAre /\ page \in EventPageIs /\ page.panel \in Panels
      /\ call[c].op = "invites" /\ call[c].at = "served"
      /\ call[c].got \in ContactLists
      /\ UNCHANGED <<server, disturbed, left>>
      /\ ~page.error => E!Mounted
  BY DEF EventTyped, EventBusy, EventPageIs, Panels, PanelOps, EventCallIs,
         E!PanelLoaded, E!Served, E!Mounted
<1> DEFINE new == [page.panel EXCEPT !.loading = FALSE, !.invites = call[c].got.contacts]
<1>1. new \in Panels /\ new.invites = call[c].got.contacts
      /\ new.adding = page.panel.adding
  BY <1>0 DEF Panels, ContactLists
<1>2. E!InPanel(new) /\ SetCall(c, Idle)
  BY DEF E!PanelLoaded
<1> HIDE DEF new
<1>3. BesidePanel /\ (~page.error => page'.panel = new) /\ page'.panel \in {new, page.panel}
  BY <1>0, <1>1, <1>2, PanelSet
<1>4. EventCallsAre' /\ Changes(c, "none", "idle", None, None)
  BY <1>0, <1>2, EndChanges DEF EventCallsAre
<1> QED
  BY <1>0, <1>1, <1>3, <1>4

(* What an error makes of its call and of the page.                         *)
LEMMA EventFailed ==
  ASSUME EventTyped, EventBusy, NEW c \in Calls, E!OperationFails(c) \/ E!LoadFails(c)
  PROVE  /\ EventCallsAre' /\ UNCHANGED server /\ disturbed'
         /\ UNCHANGED left \/ E!Spend
         /\ Changes(c, "none", "idle", None, None) /\ call[c].op # "none"
         /\ page' \in EventPageIs /\ page'.about = page.about /\ page'.list = page.list
         /\ page'.form.by \subseteq page.form.by /\ page'.form.open = page.form.open
         /\ page'.form.of = page.form.of
         /\ page'.form.named = page.form.named /\ page'.form.blank = page.form.blank
         /\ page'.loading => page.loading
         /\ page.error => page'.error
         /\ call[c].op # "add" /\ ~page'.error => page'.panel.adding = page.panel.adding
<1> USE EventIsVisit
<1> DEFINE op == call[c].op
<1>0. /\ EventCallsAre /\ page \in EventPageIs /\ page.panel \in Panels
      /\ op # "none" /\ UNCHANGED server /\ disturbed'
      /\ SetCall(c, Idle) /\ (UNCHANGED left \/ E!Spend)
  BY DEF EventTyped, EventPageIs, Panels, E!OperationFails, E!LoadFails, E!Operations,
    E!Loads, E!Fails
<1>1. EventCallsAre' /\ Changes(c, "none", "idle", None, None)
  BY <1>0, EndChanges DEF EventCallsAre
<1>2. CASE E!OperationFails(c) /\ op \in {"save", "delete"}
  <2> DEFINE form == E!Resubmittable(c)
  <2>1. page' = [page EXCEPT !.error = TRUE, !.form = form]
    BY <1>2 DEF E!OperationFails
  <2>2. /\ form \in E!Forms /\ form.by \subseteq page.form.by /\ form.open = page.form.open
        /\ form.of = page.form.of /\ form.named = page.form.named
        /\ form.blank = page.form.blank
    BY <1>0 DEF E!Resubmittable, EventPageIs, E!Forms
  <2> HIDE DEF form
  <2>3. /\ page' \in EventPageIs /\ page'.about = page.about /\ page'.list = page.list
        /\ page'.form = form /\ page'.loading = page.loading /\ page'.error
    BY <1>0, <2>1, <2>2 DEF EventPageIs
  <2> QED
    BY <1>0, <1>1, <2>2, <2>3
<1>3. CASE E!OperationFails(c) /\ op = "zip"
  <2>1. page' = [page EXCEPT !.error = TRUE, !.zip = FALSE, !.panel = E!NoPanel]
    BY <1>3 DEF E!OperationFails
  <2>2. E!NoPanel \in Panels
    BY DEF E!NoPanel, Panels
  <2>3. /\ page' \in EventPageIs /\ page'.about = page.about /\ page'.list = page.list
        /\ page'.form = page.form /\ page'.loading = page.loading /\ page'.error
    BY <1>0, <2>1, <2>2 DEF EventPageIs, Panels
  <2> QED
    BY <1>0, <1>1, <2>3
<1>4. CASE E!OperationFails(c) /\ op = "add"
  <2> DEFINE new == [page.panel EXCEPT !.adding = FALSE]
  <2>1. new \in Panels /\ E!InPanel(new)
    BY <1>0, <1>4 DEF Panels, E!OperationFails
  <2> HIDE DEF new
  <2>2. BesidePanel
    BY <1>0, <2>1, PanelSet
  <2> QED
    BY <1>0, <1>1, <1>4, <2>2 DEF BesidePanel
<1>5. CASE E!OperationFails(c) /\ op = "remove"
  <2>1. UNCHANGED page
    BY <1>5 DEF E!OperationFails
  <2> QED
    BY <1>0, <1>1, <2>1
<1>6. CASE E!LoadFails(c) /\ op = "load"
  <2>1. page' = [page EXCEPT !.loading = FALSE, !.error = TRUE]
    BY <1>6 DEF E!LoadFails
  <2>2. /\ page' \in EventPageIs /\ page'.about = page.about /\ page'.list = page.list
        /\ page'.form = page.form /\ ~page'.loading /\ page'.error
    BY <1>0, <2>1 DEF EventPageIs
  <2> QED
    BY <1>0, <1>1, <2>2
<1>7. CASE E!LoadFails(c) /\ op = "invites"
  <2> DEFINE new == [page.panel EXCEPT !.loading = FALSE]
  <2>1. new \in Panels /\ E!InPanel(new) /\ new.adding = page.panel.adding
    BY <1>0, <1>7 DEF Panels, E!LoadFails
  <2> HIDE DEF new
  <2>2. BesidePanel /\ page'.panel \in {new, page.panel}
    BY <1>0, <2>1, PanelSet
  <2> QED
    BY <1>0, <1>1, <2>1, <2>2 DEF BesidePanel
<1> QED
  BY <1>2, <1>3, <1>4, <1>5, <1>6, <1>7 DEF E!OperationFails, E!LoadFails, E!Operations, E!Loads

(* What a click makes of its call and of the page.                          *)
SameForm ==
  /\ page'.form.open = page.form.open /\ page'.form.of = page.form.of
  /\ page'.form.days = page.form.days /\ page'.form.touched = page.form.touched
  /\ page'.form.named = page.form.named /\ page'.form.blank = page.form.blank

(* A click on the form, on the table, or on the panel.                      *)
EventClickIs(c, op, arg) ==
  /\ op = "save" => /\ arg = page.form /\ page.form.open
                    /\ page.form.by = {} /\ page'.form.by = {c}
  /\ op # "save" => page'.form = page.form
  /\ op = "delete" => page.about = None
  /\ op \in PanelOps => page.about # None /\ ~page.loading /\ ~page.error
  /\ op = "add" => ~page.panel.adding /\ page'.panel.adding
  /\ op # "add" => page'.panel.adding = page.panel.adding

LEMMA EventClicks ==
  ASSUME EventTyped, NEW c \in Calls, E!Click(c)
  PROVE  /\ EventCallsAre' /\ UNCHANGED server /\ Spend /\ \E o, a : Send(c, o, a)
         /\ call[c].op = "none"
         /\ page' \in EventPageIs /\ page'.about = page.about /\ page'.list = page.list
         /\ page'.loading = page.loading /\ page'.error = page.error
         /\ page'.panel.invites = page.panel.invites /\ SameForm
         /\ \E op \in E!Operations : \E arg :
              /\ Changes(c, op, "sent", arg, None)
              /\ EventCallIs(op, "sent", arg, None)
              /\ EventClickIs(c, op, arg)
<1> USE EventIsVisit
<1>0. /\ EventCallsAre /\ page \in EventPageIs /\ page.panel \in Panels
      /\ page.form \in E!Forms
  BY DEF EventTyped, EventPageIs, Panels
<1>1. ASSUME NEW op \in E!Operations, NEW arg, EventCallIs(op, "sent", arg, None),
             arg \in E!Forms \cup ContactLists \cup {None}, Send(c, op, arg)
      PROVE  /\ EventCallsAre' /\ Spend /\ (\E o, a : Send(c, o, a)) /\ call[c].op = "none"
             /\ Changes(c, op, "sent", arg, None)
  <2>1. op # "none" /\ op \in E!Operations \cup E!Loads
    BY DEF E!Operations
  <2>2. EventCallsAre' /\ Changes(c, op, "sent", arg, None) /\ call[c].op = "none"
    BY <1>0, <1>1, <2>1, SendChanges DEF EventCallsAre
  <2> QED
    BY <1>1, <2>2 DEF Send
<1>2. CASE E!Submit(c)
  <2> DEFINE form == [page.form EXCEPT !.by = {c}]
  <2>1. form \in E!Forms /\ form.by = {c}
        /\ form.open = page.form.open /\ form.of = page.form.of
        /\ form.days = page.form.days /\ form.touched = page.form.touched
        /\ form.named = page.form.named /\ form.blank = page.form.blank
    BY <1>0 DEF E!Forms
  <2>2. page' = [page EXCEPT !.form = form]
    BY <1>2 DEF E!Submit, E!Form
  <2> HIDE DEF form
  <2>3. /\ page' \in EventPageIs /\ page'.about = page.about /\ page'.list = page.list
        /\ page'.loading = page.loading /\ page'.error = page.error
        /\ page'.panel = page.panel /\ page'.form = form
    BY <1>0, <2>1, <2>2 DEF EventPageIs
  <2>4. EventCallIs("save", "sent", page.form, None) /\ "save" \in E!Operations
    BY <1>0 DEF EventCallIs, E!Operations
  <2>5. Send(c, "save", page.form) /\ page.form.open /\ page.form.by = {} /\ UNCHANGED server
    BY <1>2 DEF E!Submit
  <2>6. EventClickIs(c, "save", page.form)
    BY <2>1, <2>3, <2>5 DEF EventClickIs, PanelOps
  <2> QED
    BY <1>0, <1>1, <2>1, <2>3, <2>4, <2>5, <2>6 DEF SameForm
<1>3. CASE E!DownloadZip(c)
  <2>1. page' = [page EXCEPT !.zip = TRUE]
    BY <1>3 DEF E!DownloadZip
  <2>2. /\ page' \in EventPageIs /\ page'.about = page.about /\ page'.list = page.list
        /\ page'.loading = page.loading /\ page'.error = page.error
        /\ page'.panel = page.panel /\ page'.form = page.form
    BY <1>0, <2>1 DEF EventPageIs
  <2>3. EventCallIs("zip", "sent", None, None) /\ "zip" \in E!Operations
    BY DEF EventCallIs, E!Operations
  <2>4. Send(c, "zip", None) /\ UNCHANGED server
        /\ page.about # None /\ ~page.loading /\ ~page.error
    BY <1>3 DEF E!DownloadZip, E!Mounted
  <2>5. EventClickIs(c, "zip", None)
    BY <2>2, <2>4 DEF EventClickIs
  <2> QED
    BY <1>1, <2>2, <2>3, <2>4, <2>5 DEF SameForm
<1>4. CASE \E e \in Weddings : E!DeleteEvent(c, e)
  <2>1. PICK e \in Weddings : E!DeleteEvent(c, e)
    BY <1>4
  <2> DEFINE arg == [E!Closed EXCEPT !.of = e]
  <2>2. arg \in E!Forms /\ arg.of = e
    BY ClosedIsAForm
  <2>3. Send(c, "delete", arg) /\ UNCHANGED <<server, page>> /\ page.about = None
    BY <2>1 DEF E!DeleteEvent, E!RowShown
  <2> HIDE DEF arg
  <2>4. EventCallIs("delete", "sent", arg, None) /\ "delete" \in E!Operations
        /\ EventClickIs(c, "delete", arg)
    BY <2>2, <2>3 DEF EventCallIs, E!Operations, EventClickIs, PanelOps
  <2> QED
    BY <1>0, <1>1, <2>2, <2>3, <2>4 DEF SameForm
<1>5. CASE \E emails \in SUBSET Emails \ {{}} : E!handleAdd(c, emails)
  <2>1. PICK emails \in SUBSET Emails : E!handleAdd(c, emails)
    BY <1>5
  <2> DEFINE arg == E!Contacts(emails)
             new == [page.panel EXCEPT !.adding = TRUE]
  <2>2. arg \in ContactLists
    BY DEF E!Contacts, ContactLists
  <2>3. new \in Panels /\ new.adding /\ new.invites = page.panel.invites
    BY <1>0 DEF Panels
  <2>4. Send(c, "add", arg) /\ UNCHANGED server /\ ~page.panel.adding
        /\ E!Mounted /\ page.about # None /\ ~page.loading /\ ~page.error /\ E!InPanel(new)
    BY <2>1 DEF E!handleAdd, E!Mounted
  <2> HIDE DEF arg, new
  <2>5. BesidePanel /\ page'.panel = new
    BY <1>0, <2>3, <2>4, PanelSet
  <2>6. EventCallIs("add", "sent", arg, None) /\ "add" \in E!Operations
        /\ EventClickIs(c, "add", arg)
    BY <2>2, <2>3, <2>4, <2>5 DEF EventCallIs, E!Operations, EventClickIs, BesidePanel
  <2> QED
    BY <1>1, <2>2, <2>3, <2>4, <2>5, <2>6 DEF SameForm, BesidePanel
<1>6. CASE \E m \in Emails : E!handleRemove(c, m)
  <2>1. PICK m \in Emails : E!handleRemove(c, m)
    BY <1>6
  <2> DEFINE arg == E!Contacts({m})
  <2>2. arg \in ContactLists /\ arg.contacts = {m}
    BY DEF E!Contacts, ContactLists
  <2>3. Send(c, "remove", arg) /\ UNCHANGED <<server, page>>
        /\ page.about # None /\ ~page.loading /\ ~page.error
    BY <2>1 DEF E!handleRemove, E!Mounted
  <2> HIDE DEF arg
  <2>4. EventCallIs("remove", "sent", arg, None) /\ "remove" \in E!Operations
        /\ EventClickIs(c, "remove", arg)
    BY <2>2, <2>3 DEF EventCallIs, E!Operations, EventClickIs
  <2> QED
    BY <1>0, <1>1, <2>2, <2>3, <2>4 DEF SameForm
<1> QED
  BY <1>2, <1>3, <1>4, <1>5, <1>6 DEF E!Click

(* What is typed, opened and closed without a call.                         *)
EventTypes == E!Type \/ \E e \in Weddings : E!EditEvent(e)

FormGoesOn ==
  /\ page'.form.open = page.form.open /\ page'.form.of = page.form.of
  /\ page'.form.by = page.form.by
  /\ ~page'.form.touched => ~page.form.touched /\ page'.form.days = page.form.days

FormOpens ==
  /\ page.about = None /\ page'.form.open /\ page'.form.by = {}
  /\ page'.form.of # None =>
       /\ page'.form.of \in Weddings /\ E!RowShown(page'.form.of)
       /\ page'.form.days = E!retentionDays(page.list[page'.form.of].days)

FormCloses == ~page'.form.open /\ page'.form.of = None /\ page'.form.by = {}

LEMMA EventTypings ==
  ASSUME EventTyped, EventTypes
  PROVE  /\ UNCHANGED <<server, call, disturbed>> /\ Spend
         /\ page' \in EventPageIs /\ FormBounded'
         /\ page'.about = page.about /\ page'.list = page.list
         /\ page'.loading = page.loading /\ page'.panel = page.panel
         /\ page'.error = page.error \/ (~page'.error /\ page.about = None)
         /\ FormGoesOn \/ FormOpens \/ FormCloses
<1> USE EventIsVisit
<1>0. /\ page \in EventPageIs /\ page.form \in E!Forms /\ page.list \in EventRows
      /\ page.form.named \in Nat /\ page.form.blank \in Nat
      /\ AlbumLimit \in Nat \ {0} /\ MaxInputs \in Nat /\ left \in Nat
      /\ FormBounded
  BY AlbumsAreTaken, InputsAreNat DEF EventTyped, EventPageIs, E!Forms
<1>1. UNCHANGED <<server, call, disturbed>> /\ Spend /\ left' = left - 1 /\ left' \in Nat
  <2>1. UNCHANGED <<server, call, disturbed>> /\ Spend
    BY DEF EventTypes, E!Type, E!NewEvent, E!updateAlbum, E!addAlbum, E!removeAlbum,
      E!CancelForm, E!Dismiss, E!TypeDays, E!EditEvent
  <2> QED
    BY <1>0, <2>1 DEF Spend
<1>2. ASSUME NEW form \in E!Forms, E!Form(form),
             form.named + left' <= AlbumLimit + MaxInputs + 3,
             form.blank + left' <= MaxInputs
      PROVE  /\ page' \in EventPageIs /\ FormBounded' /\ page'.form = form
             /\ page'.about = page.about /\ page'.list = page.list
             /\ page'.loading = page.loading /\ page'.panel = page.panel
             /\ page'.error = page.error
  BY <1>0, <1>2 DEF E!Form, EventPageIs, FormBounded
(* Forms with other numbers of albums.                                      *)
<1>3. ASSUME NEW form, form.open = page.form.open, form.of = page.form.of,
             form.by = page.form.by, form.days = page.form.days,
             form.touched = page.form.touched, form \in [open : BOOLEAN,
               of : Weddings \cup {None}, days : Days, named : Nat, blank : Nat,
               touched : BOOLEAN, by : SUBSET Calls], E!Form(form),
             form.named <= page.form.named + 1, form.blank <= page.form.blank + 1
      PROVE  /\ page' \in EventPageIs /\ FormBounded'
             /\ page'.about = page.about /\ page'.list = page.list
             /\ page'.loading = page.loading /\ page'.panel = page.panel
             /\ page'.error = page.error /\ FormGoesOn
  <2>1. /\ form.named + left' <= AlbumLimit + MaxInputs + 3
        /\ form.blank + left' <= MaxInputs
    <3>1. form.named \in Nat /\ form.blank \in Nat
      BY <1>3
    <3> QED
      BY <1>0, <1>1, <1>3, <3>1 DEF FormBounded
  <2>2. form \in E!Forms
    <3>1. form.named \in Nat /\ form.blank \in Nat
      BY <1>3
    <3>2. form.named \in 0..(AlbumLimit + MaxInputs + 3) /\ form.blank \in 0..MaxInputs
      BY <1>0, <1>1, <2>1, <3>1
    <3> QED
      BY <1>3, <3>2 DEF E!Forms
  <2>3. page'.form = form
    BY <1>2, <1>3, <2>1, <2>2
  <2> QED
    BY <1>2, <1>3, <2>1, <2>2, <2>3 DEF FormGoesOn
<1>4. CASE E!NewEvent
  <2> DEFINE form == [E!Closed EXCEPT !.open = TRUE, !.named = 3]
  <2>1. /\ form \in E!Forms /\ form.named = 3 /\ form.blank = 0 /\ form.open
        /\ form.by = {} /\ form.of = None
    <3>1. 3 \in 0..(AlbumLimit + MaxInputs + 3)
      BY <1>0
    <3> QED
      BY <3>1, ClosedIsAForm DEF E!Forms
  <2>2. E!Form(form) /\ page.about = None
    BY <1>4 DEF E!NewEvent
  <2> HIDE DEF form
  <2>3. form.named + left' <= AlbumLimit + MaxInputs + 3 /\ form.blank + left' <= MaxInputs
    <3>1. left' <= MaxInputs
      BY <1>0, <1>1 DEF FormBounded
    <3> QED
      BY <1>0, <1>1, <2>1, <3>1
  <2>4. page'.form = form
    BY <1>2, <2>1, <2>2, <2>3
  <2> QED
    BY <1>1, <1>2, <2>1, <2>2, <2>3, <2>4 DEF FormOpens
<1>5. CASE \E e \in Weddings : E!EditEvent(e)
  <2>1. PICK e \in Weddings : E!EditEvent(e)
    BY <1>5
  <2> DEFINE row == page.list[e]
             days == E!retentionDays(page.list[e].days)
             form == [E!Closed EXCEPT !.open = TRUE, !.of = e, !.days = days,
                                      !.named = row.albums]
  <2>2. row \in E!Rows /\ row.albums \in 1..AlbumLimit /\ days \in Days
        /\ row.albums \in 0..(AlbumLimit + MaxInputs + 3)
        /\ page.about = None /\ E!RowShown(e)
    <3>1. E!RowShown(e) /\ page.about = None /\ row # E!NoRow
      BY <2>1 DEF E!EditEvent, E!RowShown
    <3>2. row \in E!Rows
      BY <1>0, <3>1 DEF EventRows
    <3>3. row.albums \in 1..AlbumLimit /\ row.days \in Days
      BY <3>2 DEF E!Rows
    <3> QED
      BY <1>0, <3>1, <3>2, <3>3, DaysAreNat DEF E!retentionDays
  <2>3. E!Form(form)
    BY <2>1 DEF E!EditEvent
  <2>4. /\ form \in E!Forms /\ form.named = row.albums /\ form.blank = 0 /\ form.open
        /\ form.by = {} /\ form.of = e /\ form.days = days
    <3> HIDE DEF days, row
    <3> QED
      BY <2>2, ClosedIsAForm DEF E!Forms
  <2> HIDE DEF form
  <2>5. form.named + left' <= AlbumLimit + MaxInputs + 3 /\ form.blank + left' <= MaxInputs
    <3>1. left' <= MaxInputs
      BY <1>0, <1>1 DEF FormBounded
    <3> HIDE DEF row
    <3> QED
      BY <1>0, <1>1, <2>2, <2>4, <3>1
  <2>6. page'.form = form
    BY <1>2, <2>3, <2>4, <2>5
  <2> QED
    BY <1>1, <1>2, <2>2, <2>3, <2>4, <2>5, <2>6 DEF FormOpens
<1>6. CASE E!CancelForm
  <2>1. E!Form(E!Closed)
    BY <1>6 DEF E!CancelForm
  <2>2. /\ E!Closed.named + left' <= AlbumLimit + MaxInputs + 3
        /\ E!Closed.blank + left' <= MaxInputs
    BY <1>0, <1>1, ClosedIsAForm DEF FormBounded
  <2>3. page'.form = E!Closed
    BY <1>2, <2>1, <2>2, ClosedIsAForm
  <2> QED
    BY <1>1, <1>2, <2>1, <2>2, <2>3, ClosedIsAForm DEF FormCloses
<1>7. CASE \E d \in Days : E!TypeDays(d)
  <2>1. PICK d \in Days : E!Form([page.form EXCEPT !.days = d, !.touched = TRUE])
    BY <1>7 DEF E!TypeDays
  <2> DEFINE form == [page.form EXCEPT !.days = d, !.touched = TRUE]
  <2>2. /\ form \in E!Forms /\ form.named = page.form.named /\ form.blank = page.form.blank
        /\ form.open = page.form.open /\ form.of = page.form.of /\ form.by = page.form.by
        /\ form.touched
    BY <1>0 DEF E!Forms
  <2>3. E!Form(form)
    BY <2>1
  <2> HIDE DEF form
  <2>4. form.named + left' <= AlbumLimit + MaxInputs + 3 /\ form.blank + left' <= MaxInputs
    BY <1>0, <1>1, <2>2 DEF FormBounded
  <2>5. page'.form = form
    BY <1>2, <2>2, <2>3, <2>4
  <2> QED
    BY <1>1, <1>2, <2>2, <2>3, <2>4, <2>5 DEF FormGoesOn
<1>8. CASE E!updateAlbum \/ E!addAlbum \/ E!removeAlbum
  <2> DEFINE F(n, b) == [page.form EXCEPT !.named = n, !.blank = b]
  <2>1. \E n, b \in Nat : /\ n <= page.form.named + 1 /\ b <= page.form.blank + 1
                          /\ E!Form(F(n, b))
    <3>1. CASE E!updateAlbum
      <4>1. /\ E!Form(F(page.form.named - 1, page.form.blank + 1))
            /\ page.form.named > 0
        BY <1>0, <3>1 DEF E!updateAlbum, E!Forms
      <4>2. /\ page.form.named - 1 \in Nat /\ page.form.blank + 1 \in Nat
            /\ page.form.named - 1 <= page.form.named + 1
            /\ page.form.blank + 1 <= page.form.blank + 1
        BY <1>0, <4>1
      <4> HIDE DEF F
      <4> QED
        BY <4>1, <4>2
    <3>2. CASE E!addAlbum
      <4>1. E!Form(F(page.form.named + 1, page.form.blank))
        BY <1>0, <3>2 DEF E!addAlbum, E!Forms
      <4>2. /\ page.form.named + 1 \in Nat
            /\ page.form.named + 1 <= page.form.named + 1
            /\ page.form.blank <= page.form.blank + 1
        BY <1>0
      <4> HIDE DEF F
      <4> QED
        BY <1>0, <4>1, <4>2
    <3>3. CASE E!removeAlbum
      <4>1. \/ page.form.named > 0 /\ E!Form(F(page.form.named - 1, page.form.blank))
            \/ page.form.blank > 0 /\ E!Form(F(page.form.named, page.form.blank - 1))
        BY <1>0, <3>3 DEF E!removeAlbum, E!Forms
      <4>2. /\ page.form.named > 0 => page.form.named - 1 \in Nat
            /\ page.form.blank > 0 => page.form.blank - 1 \in Nat
            /\ page.form.named - 1 <= page.form.named + 1
            /\ page.form.named <= page.form.named + 1
            /\ page.form.blank - 1 <= page.form.blank + 1
            /\ page.form.blank <= page.form.blank + 1
        BY <1>0
      <4> HIDE DEF F
      <4> QED
        BY <1>0, <4>1, <4>2
    <3> QED
      BY <1>8, <3>1, <3>2, <3>3
  <2>2. PICK n \in Nat, b \in Nat : /\ n <= page.form.named + 1 /\ b <= page.form.blank + 1
                                    /\ E!Form(F(n, b))
    BY <2>1
  <2> DEFINE form == F(n, b)
  <2>3. /\ form.open = page.form.open /\ form.of = page.form.of /\ form.by = page.form.by
        /\ form.days = page.form.days /\ form.touched = page.form.touched
        /\ form.named = n /\ form.blank = b
        /\ form \in [open : BOOLEAN, of : Weddings \cup {None}, days : Days, named : Nat,
                     blank : Nat, touched : BOOLEAN, by : SUBSET Calls]
    BY <1>0 DEF E!Forms
  <2>4. E!Form(form)
    BY <2>2
  <2> HIDE DEF form
  <2> QED
    BY <1>1, <1>3, <2>2, <2>3, <2>4
<1>9. CASE E!Dismiss
  <2>1. page' = [page EXCEPT !.error = FALSE] /\ page.about = None
    BY <1>9 DEF E!Dismiss
  <2>2. /\ page' \in EventPageIs /\ page'.form = page.form
        /\ page'.about = page.about /\ page'.list = page.list
        /\ page'.loading = page.loading /\ page'.panel = page.panel /\ ~page'.error
    BY <1>0, <2>1 DEF EventPageIs
  <2>3. FormBounded'
    BY <1>0, <1>1, <2>2 DEF FormBounded
  <2> QED
    BY <1>1, <2>1, <2>2, <2>3 DEF FormGoesOn
<1> QED
  BY <1>4, <1>5, <1>6, <1>7, <1>8, <1>9 DEF EventTypes, E!Type

(* An event that was there once is there or was removed, for good.          *)
Once(e) == server.ev[e] # E!NoRow \/ e \in server.removed

LEMMA OthersDisturb ==
  ASSUME EventTyped, E!OthersWrite
  PROVE  /\ server' \in E!EventTables /\ Spend /\ disturbed' = TRUE
         /\ UNCHANGED <<page, call>>
         /\ \A e \in Weddings : Once(e) => Once(e)'
<1>0. /\ Spend /\ disturbed' = TRUE /\ UNCHANGED <<page, call>>
      /\ server \in E!EventTables /\ server.ev \in EventRows
  BY EventIsVisit DEF E!OthersWrite, EventTyped, E!EventTables, EventRows
<1>1. ASSUME NEW e \in Weddings, NEW d \in Days, NEW n \in 0..1,
             E!CreateRow(e, d, n) \/ E!UpdateRow(e, d, n)
      PROVE  server' \in E!EventTables /\ \A x \in Weddings : Once(x) => Once(x)'
  <2> DEFINE r == [days |-> d, albums |-> E!NormalizeAlbums(n)]
  <2>1. r \in E!Rows
    BY AlbumsFit DEF E!Rows
  <2>2. /\ server' \in E!EventTables /\ server'.removed = server.removed
        /\ server'.ev = [server.ev EXCEPT ![e] = r]
    <3>1. \A x \in Days, k \in Nat :
            E!CreateRow(e, x, k) \/ E!UpdateRow(e, x, k) =>
              /\ server' \in E!EventTables
              /\ server'.ev = [server.ev EXCEPT ![e] =
                                 [days |-> x, albums |-> E!NormalizeAlbums(k)]]
              /\ server'.removed = server.removed
      BY <1>0, EventWrites
    <3> QED
      BY <1>1, <3>1
  <2> HIDE DEF r
  <2> QED
    BY <1>0, <2>1, <2>2, RowsAreThere DEF Once, EventRows
<1>2. ASSUME NEW e \in Weddings, E!DeleteRow(e)
      PROVE  server' \in E!EventTables /\ \A x \in Weddings : Once(x) => Once(x)'
  <2>1. /\ server' \in E!EventTables /\ server'.removed = server.removed \cup {e}
        /\ server'.ev = [server.ev EXCEPT ![e] = E!NoRow]
    BY <1>0, <1>2, EventWrites
  <2> QED
    BY <1>0, <2>1 DEF Once, EventRows
<1>3. ASSUME NEW e \in Weddings, NEW m \in Emails, E!Invite(e, {m}) \/ E!Uninvite(e, m)
      PROVE  server' \in E!EventTables /\ \A x \in Weddings : Once(x) => Once(x)'
  <2>1. /\ server' \in E!EventTables /\ server'.removed = server.removed
        /\ server'.ev = server.ev
    BY <1>0, <1>3, EventWrites
  <2> QED
    BY <2>1 DEF Once
<1> QED
  BY <1>0, <1>1, <1>2, <1>3 DEF E!OthersWrite

(* The kinds of steps of a page about events.                               *)
LEMMA EventSteps ==
  ASSUME E!Next
  PROVE  \/ E!OthersWrite \/ EventTypes
         \/ \E c \in Calls : \/ E!Click(c) \/ E!Operate(c) \/ E!Operated(c) \/ E!Read(c)
                             \/ E!Loaded(c) \/ E!PanelLoaded(c)
                             \/ E!OperationFails(c) \/ E!LoadFails(c)
  BY DEF E!Next, EventTypes, E!Progress

LEMMA EventStepTyped ==
  ASSUME EventTyped, EventBusy, E!Next
  PROVE  EventTyped' /\ page'.about = page.about
<1> USE EventIsVisit
<1>0. /\ server \in E!EventTables /\ page \in EventPageIs /\ FormBounded /\ EventCallsAre
      /\ disturbed \in BOOLEAN /\ left \in 0..MaxInputs
      /\ \A c \in Calls : EventCallIs(call[c].op, call[c].at, call[c].arg, call[c].got)
      /\ page.form \in E!Forms
  BY DEF EventTyped, EventPageIs
(* A form that has no more albums than before is bounded as it was.         *)
<1>1. ASSUME UNCHANGED left \/ Spend, page'.form.named <= page.form.named,
             page'.form.blank <= page.form.blank,
             page'.form.named \in Nat, page'.form.blank \in Nat
      PROVE  FormBounded' /\ left' \in 0..MaxInputs
  <2>1. left' \in 0..MaxInputs /\ left' <= left
    BY <1>0, <1>1, InputsAreNat DEF Spend
  <2>2. page.form.named \in Nat /\ page.form.blank \in Nat
    BY <1>0, AlbumsAreTaken, InputsAreNat DEF E!Forms
  <2> QED
    BY <1>0, <1>1, <2>1, <2>2, AlbumsAreTaken, InputsAreNat DEF FormBounded
<1>2. ASSUME page' \in EventPageIs, page'.form.named = page.form.named \/ page'.form = E!Closed,
             page'.form.blank = page.form.blank \/ page'.form = E!Closed
      PROVE  /\ page'.form.named <= page.form.named /\ page'.form.blank <= page.form.blank
             /\ page'.form.named \in Nat /\ page'.form.blank \in Nat
  <2>1. /\ page.form.named \in Nat /\ page.form.blank \in Nat
    BY <1>0, AlbumsAreTaken, InputsAreNat DEF E!Forms
  <2> QED
    BY <1>2, <2>1, ClosedIsAForm
<1>3. ASSUME NEW c \in Calls, NEW op, NEW at, NEW arg, NEW got,
             Changes(c, op, at, arg, got), EventCallIs(op, at, arg, got),
             EventCallsAre', server' \in E!EventTables, page' \in EventPageIs, FormBounded',
             disturbed' \in BOOLEAN, left' \in 0..MaxInputs
      PROVE  EventTyped'
  BY <1>0, <1>3 DEF EventTyped, Changes, EventCallIs
<1>4. EventCallIs("none", "idle", None, None) /\ EventCallIs("load", "sent", None, None)
      /\ EventCallIs("invites", "sent", None, None)
  BY DEF EventCallIs
<1>5. CASE E!OthersWrite
  <2>1. /\ server' \in E!EventTables /\ Spend /\ disturbed' \in BOOLEAN
        /\ UNCHANGED <<page, call>>
    BY <1>5, OthersDisturb
  <2>2. FormBounded' /\ left' \in 0..MaxInputs
    BY <1>0, <1>1, <1>2, <2>1
  <2> QED
    BY <1>0, <2>1, <2>2 DEF EventTyped, EventCallsAre, CallsTyped
<1>6. CASE EventTypes
  <2>1. /\ UNCHANGED <<server, call, disturbed>> /\ Spend /\ page' \in EventPageIs
        /\ FormBounded' /\ page'.about = page.about
    BY <1>6, EventTypings
  <2>2. left' \in 0..MaxInputs
    BY <1>0, <2>1, InputSpent
  <2> QED
    BY <1>0, <2>1, <2>2 DEF EventTyped, EventCallsAre, CallsTyped
<1>7. ASSUME NEW c \in Calls, E!Click(c)
      PROVE  EventTyped' /\ page'.about = page.about
  <2>1. /\ EventCallsAre' /\ UNCHANGED server /\ Spend /\ page' \in EventPageIs
        /\ page'.about = page.about /\ SameForm
        /\ \E op, arg : Changes(c, op, "sent", arg, None) /\ EventCallIs(op, "sent", arg, None)
        /\ \E op, arg : Send(c, op, arg)
    BY <1>7, EventClicks
  <2>2. FormBounded' /\ left' \in 0..MaxInputs
    BY <1>1, <1>2, <2>1 DEF SameForm
  <2>3. disturbed' \in BOOLEAN
    BY <2>1, Zenon DEF Send
  <2> QED
    BY <1>0, <1>3, <2>1, <2>2, <2>3
<1>8. ASSUME NEW c \in Calls, E!Operate(c)
      PROVE  EventTyped' /\ page'.about = page.about
  <2>1. /\ EventCallsAre' /\ server' \in E!EventTables /\ call[c].op \in E!Operations
        /\ UNCHANGED <<page, disturbed, left>>
    BY <1>8, EventOperated DEF E!Operate
  <2>2. \E at \in {"served", "refused"} : \E got : Changes(c, call[c].op, at, call[c].arg, got)
    BY <1>8, EventOperated DEF EventOperates
  <2>3. \A at, got : EventCallIs(call[c].op, at, call[c].arg, got)
    BY <1>0, <2>1 DEF EventCallIs, E!Operations
  <2>4. FormBounded'
    BY <1>0, <2>1 DEF FormBounded
  <2> QED
    BY <1>0, <1>3, <2>1, <2>2, <2>3, <2>4
<1>9. ASSUME NEW c \in Calls, E!Read(c)
      PROVE  EventTyped' /\ page'.about = page.about
  <2>1. /\ EventCallsAre' /\ call[c].op \in E!Loads /\ UNCHANGED <<server, page, disturbed, left>>
    BY <1>9, EventRead
  <2>2. PICK at, got :
          /\ at \in {"served", "refused"}
          /\ Changes(c, call[c].op, at, call[c].arg, got)
          /\ call[c].op = "load" /\ at = "served" => got \in EventRows
          /\ call[c].op = "invites" /\ at = "served" => got \in ContactLists
    BY <1>9, EventRead
  <2>3. EventCallIs(call[c].op, at, call[c].arg, got)
    BY <1>0, <2>1, <2>2 DEF EventCallIs, E!Loads
  <2>4. FormBounded'
    BY <1>0, <2>1 DEF FormBounded
  <2> QED
    BY <1>0, <1>3, <2>1, <2>2, <2>3, <2>4
<1>10. ASSUME NEW c \in Calls, E!Operated(c) \/ E!Loaded(c) \/ E!PanelLoaded(c)
       PROVE  EventTyped' /\ page'.about = page.about
  <2>1. /\ EventCallsAre' /\ UNCHANGED <<server, disturbed, left>>
        /\ page' \in EventPageIs /\ page'.about = page.about
        /\ page'.form \in {page.form, E!Closed}
        /\ \/ Changes(c, "none", "idle", None, None)
           \/ Changes(c, "load", "sent", None, None)
           \/ Changes(c, "invites", "sent", None, None)
    BY <1>10, EventAnswered, EventLoaded, PanelAnswered DEF BesidePanel
  <2>2. FormBounded' /\ left' \in 0..MaxInputs
    BY <1>1, <1>2, <2>1
  <2> QED
    BY <1>0, <1>3, <1>4, <2>1, <2>2
<1>11. ASSUME NEW c \in Calls, E!OperationFails(c) \/ E!LoadFails(c)
       PROVE  EventTyped' /\ page'.about = page.about
  <2>1. /\ EventCallsAre' /\ UNCHANGED server /\ Changes(c, "none", "idle", None, None)
        /\ UNCHANGED left \/ Spend
        /\ page' \in EventPageIs /\ page'.about = page.about
        /\ page'.form.named = page.form.named /\ page'.form.blank = page.form.blank
    BY <1>11, EventFailed
  <2>2. FormBounded' /\ left' \in 0..MaxInputs
    BY <1>1, <1>2, <2>1
  <2>3. disturbed' \in BOOLEAN
    BY <1>11, Zenon DEF E!OperationFails, E!LoadFails
  <2> QED
    BY <1>0, <1>3, <1>4, <2>1, <2>2, <2>3
<1>12. UNCHANGED page => page'.about = page.about
  OBVIOUS
<1> QED
  BY <1>5, <1>6, <1>7, <1>8, <1>9, <1>10, <1>11, EventSteps, OthersDisturb, EventTypings

LEMMA EventStepBusy ==
  ASSUME EventTyped, EventBusy, E!Next
  PROVE  EventBusy'
<1> USE EventIsVisit
<1>0. /\ \A x, y \in page.form.by : x = y
      /\ page.form.open => page.about = None
      /\ page \in EventPageIs /\ page'.about = page.about
  BY EventStepTyped DEF EventBusy, EventTyped
<1>1. CASE E!OthersWrite
  BY <1>1, OthersDisturb DEF EventBusy
<1>2. CASE EventTypes
  <2>1. /\ UNCHANGED call /\ page'.loading = page.loading /\ page'.panel = page.panel
        /\ page'.error = page.error \/ (~page'.error /\ page.about = None)
        /\ FormGoesOn \/ FormOpens \/ FormCloses
    BY <1>2, EventTypings
  <2>2. /\ \A x, y \in page'.form.by : x = y
        /\ page'.form.open => page.about = None
    BY <1>0, <2>1 DEF FormGoesOn, FormOpens, FormCloses
  <2> QED
    BY <1>0, <2>1, <2>2 DEF EventBusy, PanelOps
(* A call that ends, goes on, or becomes a load.                            *)
<1>3. ASSUME NEW c \in Calls, NEW op, NEW at, NEW arg, NEW got,
             Changes(c, op, at, arg, got),
             op \in {"none", "load", call[c].op} \/ (op = "invites" /\ page.about # None
                                                     /\ ~page'.loading),
             page'.loading => page.loading \/ call[c].op \in {"save", "delete"},
             ~page'.error => ~page.error \/ call[c].op \in {"save", "delete"},
             ~page'.error /\ (op = "add" \/ call[c].op # "add") =>
               page'.panel.adding = page.panel.adding,
             \A x, y \in page'.form.by : x = y,
             page'.form.open => page.about = None
      PROVE  EventBusy'
  <2>1. /\ op \in {"save", "delete"} => page.about = None
        /\ op \in PanelOps => page.about # None /\ ~page'.loading
        /\ op = "add" /\ ~page'.error => page'.panel.adding
    BY <1>0, <1>3 DEF EventBusy, PanelOps
  <2>2. ASSUME NEW d \in Calls, d # c
        PROVE  /\ call[d].op \in {"save", "delete"} => page.about = None
               /\ call[d].op \in PanelOps => page.about # None /\ ~page'.loading
               /\ call[d].op = "add" /\ ~page'.error => page'.panel.adding
    BY <1>0, <1>3, <2>2 DEF EventBusy, PanelOps
  <2>3. \A x, y \in Calls : call'[x].op = "add" /\ call'[y].op = "add" => x = y
    BY <1>3 DEF EventBusy, Changes
  <2> QED
    BY <1>0, <1>3, <2>1, <2>2, <2>3 DEF EventBusy, Changes
<1>4. ASSUME NEW c \in Calls, E!Click(c) PROVE EventBusy'
  <2>1. /\ page'.loading = page.loading /\ page'.error = page.error /\ SameForm
        /\ call[c].op = "none"
    BY <1>4, EventClicks
  <2>2. PICK op, arg :
          /\ op \in E!Operations
          /\ Changes(c, op, "sent", arg, None) /\ EventClickIs(c, op, arg)
    BY <1>4, EventClicks
  <2>3. /\ \A x, y \in page'.form.by : x = y
        /\ page'.form.open => page.about = None
    BY <1>0, <2>1, <2>2 DEF EventClickIs, SameForm
  <2>4. /\ op \in {"save", "delete"} => page.about = None
        /\ op \in PanelOps => page.about # None /\ ~page'.loading
        /\ op = "add" => page'.panel.adding
    BY <1>0, <2>1, <2>2 DEF EventClickIs
  <2>5. op = "add" => \A d \in Calls : call[d].op # "add"
    BY <2>2 DEF EventClickIs, EventBusy, PanelOps
  <2>6. \A d \in Calls : d # c =>
          /\ call[d].op \in {"save", "delete"} => page.about = None
          /\ call[d].op \in PanelOps => page.about # None /\ ~page'.loading
          /\ call[d].op = "add" /\ ~page'.error => page'.panel.adding
    BY <2>1, <2>2, <2>4 DEF EventBusy, EventClickIs
  <2> QED
    BY <1>0, <2>2, <2>3, <2>4, <2>5, <2>6 DEF EventBusy, Changes
<1>5. ASSUME NEW c \in Calls, E!Operate(c) \/ E!Read(c) PROVE EventBusy'
  <2>1. UNCHANGED page
    BY <1>5 DEF E!Operate, E!Read
  <2>2. \E at, got : Changes(c, call[c].op, at, call[c].arg, got)
    BY <1>5, EventOperated, EventRead DEF EventOperates
  <2> QED
    BY <1>0, <1>3, <2>1, <2>2
<1>6. ASSUME NEW c \in Calls, E!Operated(c) PROVE EventBusy'
  <2>1. \A x, y \in page'.form.by : x = y
    BY <1>0, <1>6, EventAnswered, ClosedIsAForm
  <2>2. page'.form.open => page.about = None
    BY <1>0, <1>6, EventAnswered, ClosedIsAForm
  <2>3. CASE call[c].op \in {"save", "delete"}
    <3>1. Changes(c, "load", "sent", None, None) /\ page'.panel = page.panel
      BY <1>6, <2>3, EventAnswered
    <3> QED
      BY <1>3, <2>1, <2>2, <2>3, <3>1
  <2>4. CASE call[c].op \notin {"save", "delete"}
    <3>1. /\ Changes(c, "none", "idle", None, None)
          /\ page'.loading = page.loading /\ page'.error = page.error
          /\ call[c].op # "add" => page'.panel.adding = page.panel.adding
      BY <1>6, <2>4, EventAnswered DEF BesidePanel
    <3> QED
      BY <1>3, <2>1, <2>2, <3>1
  <2> QED
    BY <2>3, <2>4
<1>7. ASSUME NEW c \in Calls, E!Loaded(c) PROVE EventBusy'
  <2>1. /\ ~page'.loading /\ page'.error = page.error /\ page'.form = page.form
        /\ page'.panel.adding = page.panel.adding
        /\ page.about = None => Changes(c, "none", "idle", None, None)
        /\ page.about # None => Changes(c, "invites", "sent", None, None)
    BY <1>7, EventLoaded
  <2> QED
    BY <1>0, <1>3, <2>1
<1>8. ASSUME NEW c \in Calls, E!PanelLoaded(c) PROVE EventBusy'
  <2>1. /\ page'.loading = page.loading /\ page'.error = page.error /\ page'.form = page.form
        /\ page'.panel.adding = page.panel.adding
        /\ Changes(c, "none", "idle", None, None)
    BY <1>8, PanelAnswered DEF BesidePanel
  <2> QED
    BY <1>0, <1>3, <2>1
<1>9. ASSUME NEW c \in Calls, E!OperationFails(c) \/ E!LoadFails(c) PROVE EventBusy'
  <2>1. /\ page'.loading => page.loading
        /\ page.error => page'.error
        /\ page'.form.by \subseteq page.form.by /\ page'.form.open = page.form.open
        /\ call[c].op # "add" /\ ~page'.error => page'.panel.adding = page.panel.adding
        /\ Changes(c, "none", "idle", None, None)
    BY <1>9, EventFailed
  <2> QED
    BY <1>0, <1>3, <2>1
<1> QED
  BY <1>1, <1>2, <1>4, <1>5, <1>6, <1>7, <1>8, <1>9, EventSteps

(* What a page shows or edits was there once.                               *)
EventKnown ==
  /\ \A e \in Weddings : page.list[e] # E!NoRow => Once(e)
  /\ \A c \in Calls : call[c].op = "load" /\ call[c].at = "served" =>
       \A e \in Weddings : call[c].got[e] # E!NoRow => Once(e)
  /\ page.form.of # None => Once(page.form.of)

LEMMA OnceStays ==
  ASSUME EventTyped, EventBusy, NEW c \in Calls, E!Operate(c)
  PROVE  \A e \in Weddings : Once(e) => Once(e)'
<1>0. /\ server.ev \in EventRows /\ EventOperates(c)
      /\ EventCallIs(call[c].op, call[c].at, call[c].arg, call[c].got)
  BY EventOperated DEF EventTyped, E!EventTables, EventRows
<1>1. CASE server'.ev = server.ev /\ server'.removed = server.removed
  BY <1>1 DEF Once
<1>2. ASSUME NEW e \in Weddings, NEW r \in E!Rows, RowBecomes(e, r),
             server'.removed = server.removed
      PROVE  \A x \in Weddings : Once(x) => Once(x)'
  BY <1>0, <1>2, RowsAreThere DEF Once, RowBecomes, EventRows
<1>3. ASSUME NEW e \in Weddings, RowBecomes(e, E!NoRow),
             server'.removed = server.removed \cup {e}
      PROVE  \A x \in Weddings : Once(x) => Once(x)'
  BY <1>0, <1>3 DEF Once, RowBecomes, EventRows
<1> QED
  BY <1>0, <1>1, <1>2, <1>3 DEF EventOperates, EventCallIs

LEMMA EventStepKnown ==
  ASSUME EventTyped, EventBusy, EventKnown, E!Next
  PROVE  EventKnown'
<1> USE EventIsVisit
<1>0. /\ page \in EventPageIs /\ page' \in EventPageIs /\ page.list \in EventRows
      /\ page.form.of \in Weddings \cup {None} /\ page'.form.of \in Weddings \cup {None}
      /\ E!Closed.of = None
  BY EventStepTyped, ClosedIsAForm DEF EventTyped, EventPageIs, E!Forms
<1>1. ASSUME \A e \in Weddings : Once(e) => Once(e)',
             page'.list = page.list, page'.form.of \in {page.form.of, None},
             \A c \in Calls : call'[c].op = "load" /\ call'[c].at = "served" =>
               call[c].op = "load" /\ call[c].at = "served" /\ call'[c].got = call[c].got
      PROVE  EventKnown'
  BY <1>0, <1>1 DEF EventKnown
<1>2. UNCHANGED server => \A e \in Weddings : Once(e) => Once(e)'
  BY DEF Once
<1>3. CASE E!OthersWrite
  BY <1>1, <1>3, OthersDisturb
<1>4. CASE EventTypes
  <2>1. UNCHANGED <<server, call>> /\ page'.list = page.list
        /\ (FormGoesOn \/ FormOpens \/ FormCloses)
    BY <1>4, EventTypings
  <2>2. page'.form.of # None => Once(page'.form.of)
    BY <1>0, <2>1 DEF EventKnown, FormGoesOn, FormOpens, FormCloses, E!RowShown
  <2> QED
    BY <2>1, <2>2 DEF EventKnown, Once
<1>5. ASSUME NEW c \in Calls, E!Click(c) PROVE EventKnown'
  <2>1. /\ UNCHANGED server /\ page'.list = page.list /\ SameForm
        /\ \E op, arg : Changes(c, op, "sent", arg, None)
    BY <1>5, EventClicks
  <2> QED
    BY <1>1, <1>2, <2>1 DEF SameForm, Changes
<1>6. ASSUME NEW c \in Calls, E!Operate(c) PROVE EventKnown'
  <2>1. call[c].op \in E!Operations /\ UNCHANGED page
    BY <1>6, EventOperated DEF E!Operate
  <2>2. \E at, got : Changes(c, call[c].op, at, call[c].arg, got)
    BY <1>6, EventOperated DEF EventOperates
  <2> QED
    BY <1>1, <1>6, <2>1, <2>2, OnceStays DEF Changes, E!Operations
<1>7. ASSUME NEW c \in Calls, E!Read(c) PROVE EventKnown'
  <2>1. UNCHANGED <<server, page>>
    BY <1>7, EventRead
  <2>2. PICK at, got :
          /\ Changes(c, call[c].op, at, call[c].arg, got)
          /\ call[c].op = "load" /\ at = "served" =>
               \A e \in Weddings : got[e] # E!NoRow => got[e] = server.ev[e]
    BY <1>7, EventRead
  <2>3. call[c].op = "load" /\ at = "served" =>
          \A e \in Weddings : got[e] # E!NoRow => Once(e)
    BY <2>2 DEF Once
  <2> QED
    BY <2>1, <2>2, <2>3 DEF EventKnown, Once, Changes
<1>8. ASSUME NEW c \in Calls, E!Operated(c) \/ E!PanelLoaded(c)
                              \/ E!OperationFails(c) \/ E!LoadFails(c)
      PROVE  EventKnown'
  <2>1. /\ UNCHANGED server /\ page'.list = page.list
        /\ page'.form.of \in {page.form.of, None}
        /\ \E op, arg : Changes(c, op, "sent", arg, None) \/ Changes(c, op, "idle", arg, None)
    BY <1>0, <1>8, EventAnswered, PanelAnswered, EventFailed DEF BesidePanel
  <2> QED
    BY <1>1, <1>2, <2>1 DEF Changes
<1>9. ASSUME NEW c \in Calls, E!Loaded(c) PROVE EventKnown'
  <2>1. /\ UNCHANGED server /\ page'.list = call[c].got /\ page'.form = page.form
        /\ call[c].op = "load" /\ call[c].at = "served"
        /\ \E op, arg : Changes(c, op, "sent", arg, None) \/ Changes(c, op, "idle", arg, None)
    BY <1>9, EventLoaded
  <2> QED
    BY <2>1 DEF EventKnown, Once, Changes
<1> QED
  BY <1>3, <1>4, <1>5, <1>6, <1>7, <1>8, <1>9, EventSteps

(* The events and the contacts as the page shows them, beside nobody else.  *)
ListsEvents(list) ==
  \A e \in Weddings : page.about \in {None, e} => list[e] = server.ev[e]

ListsContacts == page.about # None => page.panel.invites = server.invited[page.about]

(* What they show while the one call is in flight.                          *)
EventFits(c) ==
  LET op == call[c].op
      arg == call[c].arg
      served(o) == op = o /\ call[c].at = "served" IN
  /\ op \in E!Operations /\ call[c].at = "sent" => ListsEvents(page.list) /\ ListsContacts
  /\ op \in PanelOps => ListsEvents(page.list)
  /\ op \in {"save", "delete"} /\ call[c].at # "served" => ListsEvents(page.list)
  /\ served("zip") => ListsContacts
  /\ served("add") =>
       server.invited[page.about] = page.panel.invites \cup arg.contacts
  /\ served("remove") =>
       server.invited[page.about] = page.panel.invites \ arg.contacts
  /\ served("save") /\ arg.of = None =>
       \A e \in Weddings : page.list[e] \in {server.ev[e], E!NoRow}
  /\ served("delete") =>
       \A e \in Weddings : server.ev[e] \in {page.list[e], E!NoRow}
  /\ op = "load" /\ page.about = None => page.loading
  /\ served("load") => ListsEvents(call[c].got)
  /\ served("invites") => call[c].got.contacts = server.invited[page.about]

EventsShown ==
  /\ ~page.error /\ Alone
  /\ \A c \in Calls : EventFits(c)
  /\ Quiet => ListsEvents(page.list) /\ ListsContacts

EventShows == ~disturbed => EventsShown

LEMMA EventStepShows ==
  ASSUME EventTyped, EventBusy, EventShows, E!Next
  PROVE  EventShows'
<1> USE EventIsVisit
<1>0. /\ page \in EventPageIs /\ page'.about = page.about /\ server \in E!EventTables
      /\ \A c \in Calls : EventCallIs(call[c].op, call[c].at, call[c].arg, call[c].got)
      /\ page.list \in EventRows /\ server.ev \in EventRows
      /\ server.invited \in [Weddings -> SUBSET Emails]
      /\ page.about \in {None} \cup Weddings
  BY EventStepTyped DEF EventTyped, EventPageIs, E!EventTables, EventRows
<1>1. SUFFICES ASSUME ~disturbed' PROVE EventsShown'
  BY DEF EventShows
<1>2. CASE E!OthersWrite
  BY <1>1, <1>2, OthersDisturb
<1>3. CASE EventTypes
  <2>1. /\ UNCHANGED <<server, call, disturbed>> /\ page'.list = page.list
        /\ page'.loading = page.loading /\ page'.panel = page.panel
        /\ page.error = page'.error \/ ~page'.error
    BY <1>3, EventTypings
  <2>2. EventsShown
    BY <1>1, <2>1 DEF EventShows
  <2> QED
    BY <1>0, <2>1, <2>2 DEF EventsShown, Alone, EventFits, ListsEvents, ListsContacts, Quiet
(* The one call there is has been sent or answered.                         *)
<1>4. ASSUME NEW c \in Calls, NEW op, NEW at, NEW arg, NEW got,
             Changes(c, op, at, arg, got), op # "none", ~page'.error,
             \A d \in Calls : d # c => call'[d].op = "none",
             EventFits(c)'
      PROVE  EventsShown'
  <2>1. ~Quiet' /\ Alone'
    BY <1>4 DEF Quiet, Changes, Idle, Alone
  <2>2. \A d \in Calls : d # c => EventFits(d)'
    BY <1>4 DEF EventFits, PanelOps, E!Operations
  <2> QED
    BY <1>4, <2>1, <2>2 DEF EventsShown
<1>5. ASSUME NEW c \in Calls, call[c].op # "none", ~disturbed
      PROVE  /\ EventFits(c) /\ ~page.error
             /\ \A op, at, arg, got : Changes(c, op, at, arg, got) =>
                  \A d \in Calls : d # c => call'[d].op = "none"
  BY <1>5, AloneGoesOn DEF EventShows, EventsShown
(* The one call is over.                                                    *)
<1>6. ASSUME NEW c \in Calls, Changes(c, "none", "idle", None, None), ~page'.error,
             \A d \in Calls : d # c => call'[d].op = "none",
             ListsEvents(page.list)', ListsContacts'
      PROVE  EventsShown'
  <2>1. \A d \in Calls : call'[d].op = "none"
    BY <1>6 DEF Changes
  <2>2. \A d \in Calls : EventFits(d)'
    BY <2>1 DEF EventFits, PanelOps, E!Operations
  <2> QED
    BY <1>6, <2>1, <2>2 DEF EventsShown, Alone
<1>7. ASSUME NEW c \in Calls, E!Click(c)
      PROVE  EventsShown'
  <2>1. /\ UNCHANGED server /\ page'.list = page.list /\ page'.error = page.error
        /\ page'.panel.invites = page.panel.invites
        /\ \E o, a : Send(c, o, a)
    BY <1>7, EventClicks
  <2>2. PICK op, arg : op \in E!Operations /\ Changes(c, op, "sent", arg, None)
    BY <1>7, EventClicks
  <2>3. ~disturbed /\ Quiet /\ \A d \in Calls : d # c => call'[d].op = "none"
    BY <1>1, <2>1, <2>2, AloneBegins DEF Changes
  <2>4. ListsEvents(page.list)' /\ ListsContacts' /\ ~page'.error
    BY <1>0, <2>1, <2>3 DEF EventShows, EventsShown, ListsEvents, ListsContacts
  <2>5. EventFits(c)' /\ op # "none"
    BY <2>2, <2>4 DEF EventFits, Changes, E!Operations
  <2> QED
    BY <1>4, <2>2, <2>3, <2>4, <2>5
<1>8. ASSUME NEW c \in Calls, E!Operate(c)
      PROVE  EventsShown'
  <2>1. /\ call[c].op \in E!Operations /\ call[c].op # "none" /\ call[c].at = "sent"
        /\ UNCHANGED <<page, disturbed>> /\ EventOperates(c)
    BY <1>8, EventOperated DEF E!Operate, E!Operations
  <2>2. PICK at, got : Changes(c, call[c].op, at, call[c].arg, got)
    BY <2>1 DEF EventOperates
  <2>3. /\ EventFits(c) /\ ~page'.error
        /\ \A d \in Calls : d # c => call'[d].op = "none"
    BY <1>1, <1>5, <2>1, <2>2
  <2>4. ListsEvents(page.list) /\ ListsContacts
    BY <2>1, <2>3 DEF EventFits
  <2> DEFINE arg == call[c].arg
  <2>5. EventFits(c)'
    <3>1. CASE server'.ev = server.ev /\ call'[c].op \in PanelOps
      <4>1. ListsEvents(page.list)'
        BY <1>0, <2>1, <2>4, <3>1 DEF ListsEvents
      <4>2. page.about # None /\ call'[c].op \in {"add", "remove", "zip"}
        BY <2>1, <2>2, <3>1 DEF EventBusy, PanelOps, Changes, E!Operations
      <4>3. CASE call[c].op = "add" /\ Changes(c, "add", "served", arg, None)
                 /\ server'.invited[page.about] = server.invited[page.about] \cup arg.contacts
        BY <2>1, <2>4, <4>1, <4>2, <4>3 DEF EventFits, Changes, ListsContacts, E!Operations
      <4>4. CASE call[c].op = "remove" /\ Changes(c, "remove", "served", arg, None)
                 /\ server'.invited[page.about] = server.invited[page.about] \ arg.contacts
        BY <2>1, <2>4, <4>1, <4>2, <4>4 DEF EventFits, Changes, ListsContacts, E!Operations
      <4>5. CASE call[c].op = "zip" /\ Changes(c, "zip", "served", arg, None) /\ UNCHANGED server
        BY <2>1, <2>4, <4>1, <4>2, <4>5 DEF EventFits, Changes, ListsContacts, E!Operations
      <4>6. CASE \E g : Changes(c, call[c].op, "refused", arg, g)
        BY <2>1, <4>1, <4>2, <4>6 DEF EventFits, Changes, E!Operations
      <4> QED
        BY <2>1, <2>2, <3>1, <4>2, <4>3, <4>4, <4>5, <4>6 DEF EventOperates, Changes
    <3>2. CASE call[c].op = "save" /\ Changes(c, "save", "served", arg, None)
               /\ \E e \in Weddings, r \in E!Rows :
                    RowBecomes(e, r) /\ (arg.of = None => Untaken(e))
      <4>1. page.about = None
        BY <3>2 DEF EventBusy
      <4>2. arg.of = None => \A e \in Weddings : page'.list[e] \in {server'.ev[e], E!NoRow}
        BY <1>0, <2>1, <2>4, <3>2, <4>1 DEF RowBecomes, Untaken, ListsEvents, EventRows
      <4> QED
        BY <3>2, <4>2 DEF EventFits, Changes, PanelOps
    <3>3. CASE call[c].op = "delete" /\ Changes(c, "delete", "served", arg, None)
               /\ RowBecomes(arg.of, E!NoRow)
      <4>1. page.about = None
        BY <3>3 DEF EventBusy
      <4>2. \A e \in Weddings : server'.ev[e] \in {page'.list[e], E!NoRow}
        BY <1>0, <2>1, <2>4, <3>3, <4>1 DEF RowBecomes, ListsEvents, EventRows
      <4> QED
        BY <3>3, <4>2 DEF EventFits, Changes, PanelOps
    <3>4. CASE call[c].op \in {"save", "delete"} /\ \E g : Changes(c, call[c].op, "refused", arg, g)
      <4>1. ListsEvents(page.list)'
        <5>1. page.about = None /\ server'.ev = server.ev
          BY <2>1, <3>4 DEF EventBusy, EventOperates, Changes
        <5> QED
          BY <1>0, <2>1, <2>4, <5>1 DEF ListsEvents
      <4> QED
        BY <3>4, <4>1 DEF EventFits, Changes, PanelOps
    <3> QED
      BY <2>1, <2>2, <3>1, <3>2, <3>3, <3>4
         DEF EventOperates, E!Operations, PanelOps, Changes
  <2> QED
    BY <1>4, <2>1, <2>2, <2>3, <2>5
<1>9. ASSUME NEW c \in Calls, E!Read(c)
      PROVE  EventsShown'
  <2>1. /\ call[c].op \in {"load", "invites"} /\ call[c].at = "sent"
        /\ UNCHANGED <<server, page, disturbed>>
    BY <1>9, EventRead DEF E!Loads
  <2>2. PICK at, got :
          /\ Changes(c, call[c].op, at, call[c].arg, got)
          /\ call[c].op = "load" /\ at = "served" =>
               \A e \in Weddings : page.about \in {None, e} => got[e] = server.ev[e]
          /\ call[c].op = "invites" /\ at = "served" =>
               got.contacts = server.invited[page.about]
    BY <1>9, EventRead
  <2>3. /\ EventFits(c) /\ ~page'.error
        /\ \A d \in Calls : d # c => call'[d].op = "none"
    BY <1>1, <1>5, <2>1, <2>2
  <2>4. /\ call[c].op \in PanelOps => ListsEvents(page.list)'
        /\ call[c].op = "load" /\ page.about = None => page'.loading
    BY <1>0, <2>1, <2>3 DEF EventFits, ListsEvents
  <2>5. call[c].op = "load" /\ at = "served" => ListsEvents(got)'
    BY <1>0, <2>1, <2>2 DEF ListsEvents
  <2>6. EventFits(c)'
    BY <1>0, <2>1, <2>2, <2>4, <2>5 DEF EventFits, Changes, E!Operations, ListsEvents
  <2> QED
    BY <1>4, <2>1, <2>2, <2>3, <2>6
<1>10. CASE \E c \in Calls : E!OperationFails(c) \/ E!LoadFails(c)
  BY <1>1, <1>10, EventFailed
<1>11. ASSUME NEW c \in Calls, E!Operated(c)
       PROVE  EventsShown'
  <2>1. /\ UNCHANGED <<server, disturbed>> /\ page'.list = page.list
        /\ call[c].op \in E!Operations /\ call[c].op # "none" /\ call[c].at = "served"
    BY <1>11, EventAnswered DEF E!Operations
  <2>2. EventFits(c) /\ ~page.error
        /\ \A op, at, arg, got : Changes(c, op, at, arg, got) =>
             \A d \in Calls : d # c => call'[d].op = "none"
    BY <1>1, <1>5, <2>1
  <2>3. CASE call[c].op \in {"save", "delete"}
    <3>1. Changes(c, "load", "sent", None, None) /\ page'.loading /\ ~page'.error
      BY <1>11, <2>3, EventAnswered
    <3>2. EventFits(c)'
      BY <3>1 DEF EventFits, Changes, PanelOps, E!Operations
    <3> QED
      BY <1>4, <2>2, <3>1, <3>2
  <2>4. CASE call[c].op \notin {"save", "delete"}
    <3>1. /\ Changes(c, "none", "idle", None, None) /\ page'.error = page.error
          /\ page'.panel.invites =
               IF call[c].op = "add" THEN page.panel.invites \cup call[c].arg.contacts
               ELSE IF call[c].op = "remove"
                    THEN page.panel.invites \ call[c].arg.contacts
                    ELSE page.panel.invites
      BY <1>11, <2>2, <2>4, EventAnswered DEF BesidePanel
    <3>2. call[c].op \in {"add", "remove", "zip"}
      BY <2>1, <2>4 DEF E!Operations
    <3>3. ListsEvents(page.list)'
      BY <1>0, <2>1, <2>2, <3>2 DEF EventFits, PanelOps, ListsEvents
    <3>4. ListsContacts'
      BY <1>0, <2>1, <2>2, <3>1, <3>2 DEF EventFits, ListsContacts
    <3> QED
      BY <1>6, <2>2, <3>1, <3>3, <3>4
  <2> QED
    BY <2>3, <2>4
<1>12. ASSUME NEW c \in Calls, E!Loaded(c)
       PROVE  EventsShown'
  <2>1. /\ UNCHANGED <<server, disturbed>> /\ page'.list = call[c].got
        /\ page'.error = page.error
        /\ call[c].op = "load" /\ call[c].op # "none" /\ call[c].at = "served"
    BY <1>12, EventLoaded
  <2>2. EventFits(c) /\ ~page'.error
        /\ \A op, at, arg, got : Changes(c, op, at, arg, got) =>
             \A d \in Calls : d # c => call'[d].op = "none"
    BY <1>1, <1>5, <2>1
  <2>3. ListsEvents(page.list)'
    BY <1>0, <2>1, <2>2 DEF EventFits, ListsEvents
  <2>4. CASE page.about = None
    <3>1. Changes(c, "none", "idle", None, None) /\ ListsContacts'
      BY <1>0, <1>12, <2>4, EventLoaded DEF ListsContacts
    <3> QED
      BY <1>6, <2>2, <2>3, <3>1
  <2>5. CASE page.about # None
    <3>1. Changes(c, "invites", "sent", None, None)
      BY <1>12, <2>5, EventLoaded
    <3>2. EventFits(c)'
      BY <2>3, <3>1 DEF EventFits, Changes, PanelOps, E!Operations
    <3> QED
      BY <1>4, <2>2, <3>1, <3>2
  <2> QED
    BY <2>4, <2>5
<1>13. ASSUME NEW c \in Calls, E!PanelLoaded(c)
       PROVE  EventsShown'
  <2>1. /\ UNCHANGED <<server, disturbed>> /\ page'.list = page.list
        /\ page'.error = page.error /\ Changes(c, "none", "idle", None, None)
        /\ call[c].op = "invites" /\ call[c].op # "none" /\ call[c].at = "served"
    BY <1>13, PanelAnswered DEF BesidePanel
  <2>2. EventFits(c) /\ ~page.error /\ ~page'.error
        /\ \A d \in Calls : d # c => call'[d].op = "none"
    BY <1>1, <1>5, <2>1
  <2>3. ListsEvents(page.list)'
    BY <1>0, <2>1, <2>2 DEF EventFits, PanelOps, ListsEvents
  <2>4. ListsContacts'
    <3>1. page'.panel.invites = call[c].got.contacts
      BY <1>13, <2>2, PanelAnswered
    <3> QED
      BY <1>0, <2>1, <2>2, <3>1 DEF EventFits, ListsContacts
  <2> QED
    BY <1>6, <2>1, <2>2, <2>3, <2>4
<1> QED
  BY <1>2, <1>3, <1>7, <1>8, <1>9, <1>10, <1>11, <1>12, <1>13, EventSteps

(* The days of a form that were not touched are those of its event, or the  *)
(* default if that has none; unless the event is gone. What is about to     *)
(* close the form may change them.                                          *)
DaysOrDefault(e) ==
  IF server.ev[e].days = 0 THEN DefaultDays ELSE server.ev[e].days

DaysKept(form) ==
  form.of # None /\ ~form.touched /\ server.ev[form.of] # E!NoRow =>
    form.days = DaysOrDefault(form.of)

NoUpdate == \A c \in Calls : call[c].op = "save" => call[c].arg.of = None

EventDays ==
  ~disturbed =>
    /\ \A c \in Calls : call[c].op = "save" /\ call[c].at = "sent" => DaysKept(call[c].arg)
    /\ page.form.open /\ NoUpdate => DaysKept(page.form)

(* A form opens with the days of its event, or the default for an event     *)
(* that has none, whatever call is in flight.                               *)
LEMMA OpensWithDays ==
  ASSUME EventTyped, EventBusy, EventsShown, NoUpdate, NEW e \in Weddings, E!RowShown(e)
  PROVE  server.ev[e] # E!NoRow =>
           E!retentionDays(page.list[e].days) = DaysOrDefault(e)
<1>1. /\ page.about = None /\ ~page.loading /\ page.list[e] # E!NoRow
      /\ page.list \in EventRows
  BY DEF E!RowShown, EventTyped, EventPageIs
<1>2. server.ev[e] \in {page.list[e], E!NoRow}
  <2>1. CASE Quiet
    BY <1>1, <2>1 DEF EventsShown, ListsEvents
  <2>2. CASE ~Quiet
    <3>1. PICK c \in Calls : call[c] # Idle
      BY <2>2 DEF Quiet
    <3>2. call[c].op # "none" /\ call[c].op \in {"none"} \cup E!Operations \cup E!Loads
          /\ EventFits(c)
      BY <3>1 DEF EventTyped, EventCallsAre, CallsTyped, CallsOf, EventsShown
    <3>3. call[c].op \notin PanelOps /\ call[c].op # "load"
      BY <1>1, <3>2 DEF EventBusy, EventFits
    <3>4. call[c].op \in {"save", "delete"}
      BY <3>2, <3>3 DEF E!Operations, E!Loads, PanelOps
    <3>5. CASE call[c].at # "served"
      BY <1>1, <3>2, <3>4, <3>5 DEF EventFits, ListsEvents
    <3>6. CASE call[c].at = "served"
      BY <1>1, <3>2, <3>4, <3>6 DEF EventFits, NoUpdate
    <3> QED
      BY <3>5, <3>6
  <2> QED
    BY <2>1, <2>2
<1>3. page.list[e].days \in Nat
  BY <1>1, DaysAreNat DEF EventRows, E!Rows
<1> QED
  BY <1>2, <1>3 DEF E!retentionDays, DaysOrDefault

LEMMA EventStepDays ==
  ASSUME EventTyped, EventBusy, EventKnown, EventShows, EventDays, E!Next
  PROVE  EventDays'
<1> USE EventIsVisit
<1>0. /\ page.form \in E!Forms /\ page.form.of \in Weddings \cup {None}
      /\ server.ev \in EventRows
      /\ \A c \in Calls : EventCallIs(call[c].op, call[c].at, call[c].arg, call[c].got)
      /\ ~E!Closed.open
  BY ClosedIsAForm DEF EventTyped, EventPageIs, E!Forms, E!EventTables, EventRows
<1> SUFFICES ASSUME ~disturbed' PROVE EventDays'
  BY DEF EventDays
<1>1. CASE E!OthersWrite
  BY <1>1, OthersDisturb
<1>2. CASE EventTypes
  <2>1. /\ UNCHANGED <<server, call, disturbed>>
        /\ FormGoesOn \/ FormOpens \/ FormCloses
    BY <1>2, EventTypings
  <2>2. ASSUME page'.form.open, NoUpdate PROVE DaysKept(page.form)'
    <3>1. EventsShown /\ (page.form.open => DaysKept(page.form))
      BY <2>1, <2>2 DEF EventShows, EventDays
    <3>2. CASE FormGoesOn
      BY <2>1, <2>2, <3>1, <3>2 DEF FormGoesOn, DaysKept, DaysOrDefault
    <3>3. CASE FormOpens
      BY <2>1, <2>2, <3>1, <3>3, OpensWithDays DEF FormOpens, DaysKept, DaysOrDefault
    <3> QED
      BY <2>1, <2>2, <3>2, <3>3 DEF FormCloses
  <2> QED
    BY <2>1, <2>2 DEF EventDays, NoUpdate, DaysKept, DaysOrDefault
<1>3. ASSUME NEW c \in Calls, E!Click(c) PROVE EventDays'
  <2>1. UNCHANGED server /\ SameForm /\ \E o, a : Send(c, o, a)
    BY <1>3, EventClicks
  <2>2. PICK op, arg : Changes(c, op, "sent", arg, None) /\ EventClickIs(c, op, arg)
    BY <1>3, EventClicks
  <2>3. ~disturbed /\ Quiet /\ \A d \in Calls : d # c => call'[d].op = "none"
    BY <2>1, <2>2, AloneBegins DEF Changes
  <2>4. page.form.open => DaysKept(page.form)
    BY <2>3 DEF EventDays, NoUpdate, Quiet, Idle
  <2>5. page'.form.open => DaysKept(page.form)'
    BY <2>1, <2>4 DEF SameForm, DaysKept, DaysOrDefault
  <2>6. op = "save" => DaysKept(arg)'
    BY <2>1, <2>2, <2>4 DEF EventClickIs, DaysKept, DaysOrDefault
  <2> QED
    BY <2>2, <2>3, <2>5, <2>6 DEF EventDays, Changes
<1>4. ASSUME NEW c \in Calls, E!Operate(c) PROVE EventDays'
  <2>1. /\ call[c].op \in E!Operations /\ UNCHANGED <<page, disturbed>> /\ EventOperates(c)
        /\ call[c].op # "none"
    BY <1>4, EventOperated DEF E!Operate, E!Operations
  <2>2. PICK at, got : /\ Changes(c, call[c].op, at, call[c].arg, got)
                       /\ at # "sent"
    BY <2>1 DEF EventOperates
  <2>3. \A d \in Calls : d # c => call'[d].op = "none"
    BY <2>1, <2>2, AloneGoesOn DEF EventShows, EventsShown
  <2>4. ASSUME page.form.open, NoUpdate' PROVE DaysKept(page.form)'
    <3>1. NoUpdate
      BY <2>2, <2>4 DEF NoUpdate, Changes
    <3>2. DaysKept(page.form)
      BY <2>1, <2>4, <3>1 DEF EventDays
    <3>3. CASE server'.ev = server.ev
      BY <2>1, <3>2, <3>3 DEF DaysKept, DaysOrDefault
    <3>4. CASE call[c].op = "save" /\ \E e \in Weddings, r \in E!Rows :
                 RowBecomes(e, r) /\ (call[c].arg.of = None => Untaken(e))
      <4>1. page.form.of # None => Once(page.form.of)
        BY DEF EventKnown
      <4>2. call[c].arg.of = None
        BY <3>1, <3>4 DEF NoUpdate
      <4> QED
        BY <1>0, <2>1, <3>2, <3>4, <4>1, <4>2 DEF DaysKept, DaysOrDefault, RowBecomes, Untaken, Once, EventRows
    <3>5. CASE RowBecomes(call[c].arg.of, E!NoRow)
      BY <1>0, <2>1, <3>2, <3>5 DEF DaysKept, DaysOrDefault, RowBecomes, E!NoRow, EventRows
    <3> QED
      BY <2>1, <3>3, <3>4, <3>5 DEF EventOperates
  <2> QED
    BY <2>1, <2>2, <2>3, <2>4 DEF EventDays, Changes
(* A step that sends no save and changes neither the tables nor the form.   *)
<1>5. ASSUME NEW c \in Calls, NEW op, NEW at, NEW arg, NEW got,
             Changes(c, op, at, arg, got), op # "save", UNCHANGED <<server, disturbed>>,
             page'.form.open =>
               page'.form = page.form
                 /\ (page.form.of # None /\ call[c].op = "save" => call[c].arg.of = None)
      PROVE  EventDays'
  <2>1. \A d \in Calls : call'[d].op = "save" => call[d] = call'[d]
    BY <1>5 DEF Changes
  <2>2. ASSUME page'.form.open, NoUpdate', page'.form.of # None PROVE DaysKept(page.form)'
    <3>1. NoUpdate
      BY <1>5, <2>2 DEF NoUpdate, Changes
    <3> QED
      BY <1>5, <2>2, <3>1 DEF EventDays, DaysKept, DaysOrDefault
  <2>3. ASSUME page'.form.open, NoUpdate' PROVE DaysKept(page.form)'
    BY <2>2, <2>3 DEF DaysKept, DaysOrDefault
  <2> QED
    BY <1>5, <2>1, <2>3 DEF EventDays, DaysKept, DaysOrDefault
<1>6. ASSUME NEW c \in Calls, E!Read(c) PROVE EventDays'
  <2>1. call[c].op \in {"load", "invites"} /\ UNCHANGED <<server, page, disturbed>>
    BY <1>6, EventRead DEF E!Loads
  <2>2. \E at, got : Changes(c, call[c].op, at, call[c].arg, got)
    BY <1>6, EventRead
  <2> QED
    BY <1>5, <2>1, <2>2
<1>7. ASSUME NEW c \in Calls, E!Operated(c) PROVE EventDays'
  <2>1. /\ UNCHANGED <<server, disturbed>> /\ page'.form \in {page.form, E!Closed}
        /\ call[c].op = "save" /\ call[c].arg.of # None /\ page.form.of # None =>
             page'.form = E!Closed
        /\ \/ Changes(c, "load", "sent", None, None)
           \/ Changes(c, "none", "idle", None, None)
    BY <1>7, EventAnswered
  <2> QED
    BY <1>0, <1>5, <2>1
<1>8. ASSUME NEW c \in Calls, E!Loaded(c) \/ E!PanelLoaded(c) PROVE EventDays'
  <2>1. /\ UNCHANGED <<server, disturbed>> /\ page'.form = page.form
        /\ call[c].op # "save"
        /\ \/ Changes(c, "invites", "sent", None, None)
           \/ Changes(c, "none", "idle", None, None)
    BY <1>8, EventLoaded, PanelAnswered DEF BesidePanel
  <2> QED
    BY <1>5, <2>1
<1>9. CASE \E c \in Calls : E!OperationFails(c) \/ E!LoadFails(c)
  BY <1>9, EventFailed
<1> QED
  BY <1>1, <1>2, <1>3, <1>4, <1>6, <1>7, <1>8, <1>9, EventSteps

LEMMA EventBegins == E!Init => EventTyped /\ EventBusy /\ EventKnown /\ EventShows /\ EventDays
<1> SUFFICES ASSUME E!Init
             PROVE  EventTyped /\ EventBusy /\ EventKnown /\ EventShows /\ EventDays
  OBVIOUS
<1>1. /\ EventCallsAre /\ Alone /\ ~Quiet
      /\ \A c \in Calls : call[c].op \in {"none", "load"} /\ call[c].at # "served"
      /\ disturbed = FALSE /\ left = MaxInputs
  <2>1. VisitInit
    BY EventIsVisit DEF E!Init
  <2> QED
    BY <2>1, VisitBegins, VisitCalls DEF EventCallsAre, E!Loads
<1>2. server \in E!EventTables
  <2>1. {E!NoRow} \cup [days : Days, albums : {1}] \subseteq E!Rows \cup {E!NoRow}
    BY AlbumsAreTaken DEF E!Rows
  <2> QED
    BY <2>1 DEF E!Init, E!EventTables
<1>3. /\ page \in EventPageIs /\ page.list = E!NoRows /\ page.loading /\ ~page.error
      /\ page.form = E!Closed
  <2>1. E!NoRows \in EventRows /\ E!NoPanel \in Panels /\ E!Closed \in E!Forms
    BY ClosedIsAForm DEF E!NoRows, EventRows, E!NoPanel, Panels
  <2>2. page \in [about : {None} \cup Weddings, list : {E!NoRows}, loading : {TRUE},
               error : {FALSE}, form : {E!Closed}, zip : {FALSE}, panel : {E!NoPanel}]
    BY DEF E!Init
  <2> QED
    BY <2>1, <2>2 DEF EventPageIs, Panels
<1>4. EventTyped
  <2>1. FormBounded /\ left \in 0..MaxInputs
    BY <1>1, <1>3, ClosedIsAForm, AlbumsAreTaken, InputsAreNat DEF FormBounded
  <2> QED
    BY <1>1, <1>2, <1>3, <2>1 DEF EventTyped, EventCallIs
<1>5. EventBusy
  BY <1>1, <1>3, ClosedIsAForm DEF EventBusy, PanelOps
<1>6. EventKnown
  BY <1>1, <1>3, ClosedIsAForm DEF EventKnown, E!NoRows
<1>7. EventShows
  BY <1>1, <1>3 DEF EventShows, EventsShown, EventFits, PanelOps, E!Operations
<1>8. EventDays
  BY <1>1, <1>3, ClosedIsAForm DEF EventDays
<1> QED
  BY <1>4, <1>5, <1>6, <1>7, <1>8

LEMMA EventHolds ==
  ASSUME EventTyped, EventBusy, EventShows, EventDays
  PROVE  E!TypeOK /\ E!OneAtATime /\ E!ShowsOwnWork /\ E!UntouchedDaysOrDefault
<1>1. E!TypeOK
  BY DEF EventTyped, EventCallsAre, CallsTyped, E!TypeOK, EventPageIs, EventRows,
    ContactLists, E!CallsOf, CallsOf
<1>2. E!OneAtATime
  <2>1. /\ \A x, y \in page.form.by : x = y
        /\ \A x, y \in {c \in Calls : call[c].op = "add"} : x = y
    BY DEF EventBusy
  <2>2. \A X : E!Cardinality(X) = Cardinality(X)
    BY DEF E!Cardinality, Cardinality
  <2> QED
    BY <2>1, <2>2, AtMostOne DEF E!OneAtATime
<1>3. E!ShowsOwnWork
  BY EventIsVisit DEF EventShows, EventsShown, E!ShowsOwnWork, ListsEvents, ListsContacts
<1>4. E!UntouchedDaysOrDefault
  BY DEF EventDays, DaysKept, DaysOrDefault, E!UntouchedDaysOrDefault, E!SavesUntouched,
    E!Exists, E!Sent
<1> QED
  BY <1>1, <1>2, <1>3, <1>4

-----------------------------------------------------------------------------
(* Photos: what is stored was stored once, and what the list says of a file *)
(* is said of the drop it belongs to.                                       *)
PageOf(V) ==
  [about : V, list : V, loading : V, error : V, editing : V, text : V, saving : V,
   zip : V, item : [Photos -> C!Statuses]]

PageIs == \E V : page \in PageOf(V)

GalleryIs == \E V : server \in [photo : [Photos -> V], removed : SUBSET V, valid : V]

Kept(p) == server.photo[p] # C!Gone \/ p \in server.removed

(* What there is to tell of an item.                                        *)
Told(p) ==
  /\ page.item[p] = "done" => Kept(p)
  /\ page.item[p] = "uploading" =>
       \E c \in Calls : call[c].op = "upload" /\ call[c].arg.of = p
  /\ page.item[p] = "pending" =>
       \E c \in Calls : call[c].op = "upload" /\ p \in call[c].arg.rest

(* Captions are written as they were typed, and uploads are of photos.      *)
ArgsAre(c) ==
  /\ call[c].op = "save" => call[c].arg.text # C!Gone
  /\ call[c].op = "upload" =>
       /\ call[c].arg.of \in Photos /\ call[c].arg.rest \subseteq Photos
       /\ call[c].at = "served" => Kept(call[c].arg.of)

CoupleInv ==
  /\ CallsAre /\ PageIs /\ GalleryIs
  /\ page.text # C!Gone
  /\ \A c \in Calls : ArgsAre(c)
  /\ \A p \in Photos : Told(p)

LEMMA CoupleVisits ==
  /\ \A c, r : C!SetCall(c, r) => SetCall(c, r)
  /\ \A c, op, arg : C!Send(c, op, arg) => Send(c, op, arg)
  /\ \A c, got : C!Serve(c, got) => Serve(c, got)
  /\ \A c : C!Refuse(c) => Refuse(c)
  /\ C!Idle = Idle /\ C!Loading = Loading
  /\ C!VisitInit => VisitInit
  BY DEF C!SetCall, SetCall, C!Send, Send, C!Serve, Serve, C!Refuse, Refuse,
    C!Idle, Idle, C!Loading, Loading, C!VisitInit, VisitInit, C!Spend, Spend,
    C!Quiet, Quiet

LEMMA GalleryWrites ==
  ASSUME GalleryIs, NEW p,
         \/ C!StorePhoto(p) \/ C!DeletePhoto(p)
         \/ \E t : t # C!Gone /\ C!WriteCaption(p, t)
  PROVE  /\ GalleryIs'
         /\ \A x \in Photos : Kept(x) => Kept(x)'
         /\ C!StorePhoto(p) /\ p \in Photos => Kept(p)'
<1>1. PICK V : server \in [photo : [Photos -> V], removed : SUBSET V, valid : V]
  BY DEF GalleryIs
<1> DEFINE first == CHOOSE x \in Captions : TRUE
           W == V \cup {p, first, C!Gone}
<1>2. /\ server \in [photo : [Photos -> W], removed : SUBSET W, valid : W]
      /\ p \in W /\ first \in W /\ C!Gone \in W
  BY <1>1
<1>3. first # C!Gone
  BY CaptionsAreText DEF C!Gone
<1> HIDE DEF W, first
<1>4. CASE C!StorePhoto(p)
  <2>1. server' = [server EXCEPT !.photo[p] = first]
    BY <1>4 DEF C!StorePhoto, first
  <2>2. server' \in [photo : [Photos -> W], removed : SUBSET W, valid : W]
    BY <1>2, <2>1
  <2> QED
    BY <1>2, <1>3, <2>1, <2>2 DEF GalleryIs, Kept
<1>5. CASE C!DeletePhoto(p) /\ ~C!StorePhoto(p)
  <2>1. server' = [server EXCEPT !.photo[p] = C!Gone, !.removed = @ \cup {p}]
    BY <1>5 DEF C!DeletePhoto
  <2>2. server' \in [photo : [Photos -> W], removed : SUBSET W, valid : W]
    BY <1>2, <2>1
  <2> QED
    BY <1>2, <1>5, <2>1, <2>2 DEF GalleryIs, Kept
<1>6. ASSUME NEW t, t # C!Gone, C!WriteCaption(p, t), ~C!StorePhoto(p)
      PROVE  /\ GalleryIs'
             /\ \A x \in Photos : Kept(x) => Kept(x)'
  <2> DEFINE U == W \cup {t}
  <2>1. server \in [photo : [Photos -> U], removed : SUBSET U, valid : U] /\ t \in U
    BY <1>2
  <2> HIDE DEF U
  <2>2. server' = [server EXCEPT !.photo[p] = t]
    BY <1>6 DEF C!WriteCaption
  <2>3. server' \in [photo : [Photos -> U], removed : SUBSET U, valid : U]
    BY <2>1, <2>2
  <2> QED
    BY <1>6, <2>1, <2>2, <2>3 DEF GalleryIs, Kept
<1> QED
  BY <1>4, <1>5, <1>6

(* The page changes, and no call of an upload does.                         *)
LEMMA Untold ==
  ASSUME CoupleInv, CallsAre', PageIs', UNCHANGED server,
         page'.item = page.item, page'.text # C!Gone,
         \A d \in Calls :
           \/ call'[d] = call[d]
           \/ /\ call[d].op # "upload" /\ call'[d].op # "upload"
              /\ call'[d].op = "save" => call'[d].arg.text # C!Gone
  PROVE  CoupleInv'
<1>1. \A d \in Calls : ArgsAre(d)'
  BY DEF CoupleInv, ArgsAre, Kept
<1>2. ASSUME NEW p \in Photos PROVE Told(p)'
  <2>1. Told(p)
    BY DEF CoupleInv
  <2> QED
    BY <2>1 DEF Told, Kept
<1> QED
  BY <1>1, <1>2 DEF CoupleInv, GalleryIs

(* The server changes, and a call of it is served with that, or none is.    *)
LEMMA StoredOrSo ==
  ASSUME CoupleInv, CallsAre', GalleryIs', UNCHANGED page,
         \A x \in Photos : Kept(x) => Kept(x)',
         \A d \in Calls : /\ call'[d].op = call[d].op /\ call'[d].arg = call[d].arg
                          /\ call'[d].at = call[d].at \/ ArgsAre(d)'
  PROVE  CoupleInv'
<1>1. ASSUME NEW d \in Calls PROVE ArgsAre(d)'
  <2>1. ArgsAre(d)
    BY DEF CoupleInv
  <2> QED
    BY <2>1 DEF ArgsAre
<1>2. ASSUME NEW p \in Photos PROVE Told(p)'
  <2>1. Told(p)
    BY DEF CoupleInv
  <2> QED
    BY <2>1 DEF Told
<1> QED
  BY <1>1, <1>2 DEF CoupleInv, PageIs

(* The fields of the page besides the items and the text.                   *)
LEMMA FieldsChange ==
  ASSUME CoupleInv, NEW x,
         \/ page' = [page EXCEPT !.zip = x]
         \/ page' = [page EXCEPT !.saving = x]
         \/ page' = [page EXCEPT !.list = x]
         \/ page' = [page EXCEPT !.zip = FALSE, !.error = TRUE]
         \/ page' = [page EXCEPT !.loading = FALSE, !.error = TRUE]
         \/ page' = [page EXCEPT !.loading = FALSE, !.list = x]
         \/ page' = [page EXCEPT !.saving = FALSE, !.editing = None, !.list = x]
  PROVE  PageIs' /\ page'.item = page.item /\ page'.text # C!Gone
<1>1. PICK V : page \in PageOf(V)
  BY DEF CoupleInv, PageIs
<1> DEFINE W == V \cup {x, TRUE, FALSE, None}
<1>2. page \in PageOf(W) /\ x \in W /\ TRUE \in W /\ FALSE \in W /\ None \in W
  BY <1>1 DEF PageOf
<1>3. page.text # C!Gone
  BY DEF CoupleInv
<1> HIDE DEF W
<1> SUFFICES page' \in PageOf(W) /\ page'.item = page.item /\ page'.text = page.text
  BY <1>3 DEF PageIs
<1>4. CASE page' = [page EXCEPT !.zip = x]
  BY <1>2, <1>4 DEF PageOf
<1>5. CASE page' = [page EXCEPT !.saving = x]
  BY <1>2, <1>5 DEF PageOf
<1>6. CASE page' = [page EXCEPT !.list = x]
  BY <1>2, <1>6 DEF PageOf
<1>7. CASE page' = [page EXCEPT !.zip = FALSE, !.error = TRUE]
  BY <1>2, <1>7 DEF PageOf
<1>8. CASE page' = [page EXCEPT !.loading = FALSE, !.error = TRUE]
  BY <1>2, <1>8 DEF PageOf
<1>9. CASE page' = [page EXCEPT !.loading = FALSE, !.list = x]
  BY <1>2, <1>9 DEF PageOf
<1>10. CASE page' = [page EXCEPT !.saving = FALSE, !.editing = None, !.list = x]
  BY <1>2, <1>10 DEF PageOf
<1> QED
  BY <1>4, <1>5, <1>6, <1>7, <1>8, <1>9, <1>10

LEMMA EditKeeps ==
  ASSUME CoupleInv, C!Edit
  PROVE  CoupleInv'
<1>1. PICK V : page \in PageOf(V)
  BY DEF CoupleInv, PageIs
<1>2. UNCHANGED <<server, call>>
  BY DEF C!Edit, C!CancelCaption, C!startEditCaption, C!TypeCaption
<1>3. CallsAre'
  BY <1>2 DEF CoupleInv, CallsAre
<1>4. CASE C!CancelCaption
  <2> DEFINE W == V \cup {None}
  <2>1. page \in PageOf(W) /\ None \in W
    BY <1>1 DEF PageOf
  <2> HIDE DEF W
  <2>2. page' = [page EXCEPT !.editing = None]
    BY <1>4 DEF C!CancelCaption
  <2>3. page' \in PageOf(W) /\ page'.item = page.item /\ page'.text = page.text
    BY <2>1, <2>2 DEF PageOf
  <2> QED
    BY <1>2, <1>3, <2>3, Untold DEF CoupleInv, PageIs
<1>5. ASSUME NEW p \in Photos, C!startEditCaption(p) PROVE CoupleInv'
  <2> DEFINE x == page.list[p]
             W == V \cup {p, x}
  <2>1. page \in PageOf(W) /\ p \in W /\ x \in W
    BY <1>1 DEF PageOf
  <2>2. page' = [page EXCEPT !.editing = p, !.text = x] /\ x # C!Gone
    BY <1>5 DEF C!startEditCaption, C!Shown
  <2> HIDE DEF W, x
  <2>3. page' \in PageOf(W) /\ page'.item = page.item /\ page'.text = x
    BY <2>1, <2>2 DEF PageOf
  <2> QED
    BY <1>2, <1>3, <2>2, <2>3, Untold DEF CoupleInv, PageIs
<1>6. ASSUME NEW t \in Captions, C!TypeCaption(t) PROVE CoupleInv'
  <2> DEFINE W == V \cup {t}
  <2>1. page \in PageOf(W) /\ t \in W /\ t # C!Gone
    BY <1>1, CaptionsAreText DEF PageOf, C!Gone
  <2> HIDE DEF W
  <2>2. page' = [page EXCEPT !.text = t]
    BY <1>6 DEF C!TypeCaption
  <2>3. page' \in PageOf(W) /\ page'.item = page.item /\ page'.text = t
    BY <2>1, <2>2 DEF PageOf
  <2> QED
    BY <1>2, <1>3, <2>1, <2>3, Untold DEF CoupleInv, PageIs
<1> QED
  BY <1>4, <1>5, <1>6 DEF C!Edit

(* Others work on the same photos.                                          *)
LEMMA OthersKeep ==
  ASSUME CoupleInv, C!OthersWrite
  PROVE  CoupleInv'
<1>1. UNCHANGED <<page, call>>
  BY DEF C!OthersWrite
<1>2. GalleryIs' /\ \A x \in Photos : Kept(x) => Kept(x)'
  <2>1. CASE \E p \in Photos : C!StorePhoto(p) \/ C!DeletePhoto(p)
    BY <2>1, GalleryWrites DEF CoupleInv
  <2>2. CASE \E p \in Photos, t \in Captions : C!WriteCaption(p, t)
    <3>1. \A t \in Captions : t # C!Gone
      BY CaptionsAreText DEF C!Gone
    <3> QED
      BY <2>2, <3>1, GalleryWrites DEF CoupleInv
  <2>3. CASE server' = [server EXCEPT !.valid = FALSE]
    <3>1. PICK V : server \in [photo : [Photos -> V], removed : SUBSET V, valid : V]
      BY DEF CoupleInv, GalleryIs
    <3> DEFINE W == V \cup {FALSE}
    <3>2. server \in [photo : [Photos -> W], removed : SUBSET W, valid : W] /\ FALSE \in W
      BY <3>1
    <3> HIDE DEF W
    <3>3. server' \in [photo : [Photos -> W], removed : SUBSET W, valid : W]
      BY <2>3, <3>2
    <3> QED
      BY <2>3, <3>2, <3>3 DEF GalleryIs, Kept
  <2> QED
    BY <2>1, <2>2, <2>3 DEF C!OthersWrite
<1>3. CallsAre'
  BY <1>1 DEF CoupleInv, CallsAre
<1> QED
  BY <1>1, <1>2, <1>3, StoredOrSo

(* The server carries out an operation.                                     *)
LEMMA CoupleOperates ==
  ASSUME CoupleInv, NEW c \in Calls, C!Operate(c)
  PROVE  CoupleInv'
<1> DEFINE arg == call[c].arg
<1>0. CallsAre /\ GalleryIs /\ ArgsAre(c)
  BY DEF CoupleInv
<1>1. CallsAre' /\ \E at : Becomes(c, call[c].op, at, arg)
  <2>1. C!Serve(c, None) \/ C!Refuse(c)
    BY DEF C!Operate
  <2> QED
    BY <1>0, <2>1, CoupleVisits, IsServed, IsRefused
<1>2. /\ GalleryIs'
      /\ \A x \in Photos : Kept(x) => Kept(x)'
      /\ \A x \in Photos :
           x = arg.of /\ call'[c].op = "upload" /\ call'[c].at = "served" => Kept(x)'
  <2>1. CASE C!Sent(c, "save") /\ C!WriteCaption(arg.of, arg.text)
    <3>1. arg.text # C!Gone
      BY <1>0, <2>1 DEF ArgsAre, C!Sent
    <3>2. call'[c].op # "upload"
      BY <1>1, <2>1 DEF Becomes, C!Sent
    <3> HIDE DEF arg
    <3> QED
      BY <1>0, <2>1, <3>1, <3>2, GalleryWrites
  <2>2. CASE C!Sent(c, "delete") /\ C!DeletePhoto(arg.of)
    <3>1. call'[c].op # "upload"
      BY <1>1, <2>2 DEF Becomes, C!Sent
    <3> HIDE DEF arg
    <3> QED
      BY <1>0, <2>2, <3>1, GalleryWrites
  <2>3. CASE C!Sent(c, "upload") /\ C!StorePhoto(arg.of)
    <3>1. arg.of \in Photos
      BY <1>0, <2>3 DEF ArgsAre, C!Sent
    <3> DEFINE x == arg.of
    <3>2. x \in Photos /\ C!StorePhoto(x)
      BY <2>3, <3>1
    <3> HIDE DEF x
    <3>3. GalleryIs' /\ (\A y \in Photos : Kept(y) => Kept(y)') /\ \A y : y = x => Kept(y)'
      BY <1>0, <3>2, GalleryWrites
    <3> QED
      BY <3>3 DEF x
  <2>4. CASE /\ UNCHANGED server
             /\ C!Refuse(c) \/ (~C!Sent(c, "upload") /\ call[c].at = "sent")
    <3>1. call'[c].op # "upload" \/ call'[c].at # "served"
      <4>1. CASE C!Refuse(c)
        BY <1>0, <4>1, CoupleVisits, IsRefused DEF Becomes
      <4>2. CASE ~C!Sent(c, "upload") /\ call[c].at = "sent"
        BY <1>1, <4>2 DEF Becomes, C!Sent
      <4> QED
        BY <2>4, <4>1, <4>2
    <3> QED
      BY <1>0, <2>4, <3>1 DEF GalleryIs, Kept
  <2>5. C!Sent(c, "zip") => ~C!Sent(c, "upload") /\ call[c].at = "sent"
    BY DEF C!Sent
  <2>6. \/ C!Sent(c, "save") /\ C!WriteCaption(arg.of, arg.text)
        \/ C!Sent(c, "delete") /\ C!DeletePhoto(arg.of)
        \/ C!Sent(c, "upload") /\ C!StorePhoto(arg.of)
        \/ C!Sent(c, "zip") /\ UNCHANGED server
        \/ UNCHANGED server /\ C!Refuse(c)
    BY DEF C!Operate
  <2> QED
    BY <2>1, <2>2, <2>3, <2>4, <2>5, <2>6
<1>3. ArgsAre(c)'
  <2>1. call'[c].op = call[c].op /\ call'[c].arg = arg
    BY <1>1 DEF Becomes
  <2> QED
    BY <1>0, <1>2, <2>1 DEF ArgsAre
<1>4. \A d \in Calls : /\ call'[d].op = call[d].op /\ call'[d].arg = call[d].arg
                       /\ call'[d].at = call[d].at \/ ArgsAre(d)'
  BY <1>1, <1>3 DEF Becomes
<1> QED
  BY <1>1, <1>2, <1>4, StoredOrSo DEF C!Operate

(* The items change, and so does the call that they belong to.              *)
LEMMA ItemsChange ==
  ASSUME CoupleInv, CallsAre', UNCHANGED server,
         NEW items \in [Photos -> C!Statuses], page' = [page EXCEPT !.item = items],
         \A d \in Calls : ArgsAre(d)', \A p \in Photos : Told(p)'
  PROVE  CoupleInv'
<1>1. PICK V : page \in PageOf(V)
  BY DEF CoupleInv, PageIs
<1>2. page' \in PageOf(V) /\ page'.text = page.text
  BY <1>1 DEF PageOf
<1> QED
  BY <1>2 DEF CoupleInv, PageIs, GalleryIs

LEMMA ItemOf ==
  ASSUME CoupleInv, NEW items, page' = [page EXCEPT !.item = items]
  PROVE  page'.item = items /\ page.item \in [Photos -> C!Statuses]
  BY DEF CoupleInv, PageIs, PageOf

(* A drop goes on to its next file.                                         *)
LEMMA NextFileKeeps ==
  ASSUME CoupleInv, NEW c \in Calls, call[c].op = "upload", UNCHANGED server,
         NEW status \in {"done", "error"}, status = "done" => Kept(call[c].arg.of),
         C!NextFile(c, status)
  PROVE  CoupleInv'
<1> DEFINE of == call[c].arg.of
           rest == call[c].arg.rest
           items == [page.item EXCEPT ![of] = status]
<1>0. /\ of \in Photos /\ rest \subseteq Photos /\ CallsAre
      /\ \A p \in Photos : Told(p) /\ (Kept(p) => Kept(p)')
  BY DEF CoupleInv, ArgsAre, Kept
<1>1. CASE rest = {}
  <2>1. page' = [page EXCEPT !.item = items] /\ C!SetCall(c, C!Idle)
    BY <1>1 DEF C!NextFile
  <2>2. page'.item = items /\ items \in [Photos -> C!Statuses]
    BY <1>0, <2>1, ItemOf DEF C!Statuses
  <2>3. CallsAre' /\ Becomes(c, "none", "idle", None)
    BY <1>0, <2>1, CoupleVisits, Ends
  <2>4. ASSUME NEW d \in Calls PROVE ArgsAre(d)'
    BY <2>3 DEF Becomes, CoupleInv, ArgsAre, Kept
  <2>5. ASSUME NEW p \in Photos PROVE Told(p)'
    <3>1. CASE p = of
      BY <1>0, <2>2, <3>1 DEF Told, CoupleInv, PageIs, PageOf, Kept
    <3>2. CASE p # of
      <4>1. page'.item[p] = page.item[p]
        BY <2>1, <2>2, <3>2, ItemOf
      <4>2. Told(p) /\ (Kept(p) => Kept(p)')
        BY <1>0
      <4> QED
        BY <1>1, <2>3, <3>2, <4>1, <4>2 DEF Told, Becomes
    <3> QED
      BY <3>1, <3>2
  <2> HIDE DEF items
  <2> QED
    BY <2>1, <2>2, <2>3, <2>4, <2>5, ItemsChange
<1>2. CASE rest # {}
  <2> DEFINE next == CHOOSE p \in rest : TRUE
             after == [items EXCEPT ![next] = "uploading"]
             arg == [of |-> next, rest |-> rest \ {next}]
  <2>1. /\ page' = [page EXCEPT !.item = after]
        /\ C!SetCall(c, [C!Loading EXCEPT !.op = "upload", !.arg = arg])
    BY <1>2 DEF C!NextFile
  <2>2. next \in rest
    BY <1>2
  <2> HIDE DEF next
  <2>3. page'.item = after /\ after \in [Photos -> C!Statuses]
    BY <1>0, <2>1, ItemOf DEF C!Statuses
  <2>4. arg.of = next /\ arg.rest = rest \ {next}
    OBVIOUS
  <2> HIDE DEF arg
  <2>5. CallsAre' /\ Becomes(c, "upload", "sent", arg)
    <3> DEFINE W == {"none", "idle", None, "load", "sent", "upload", arg}
               r == [Loading EXCEPT !.op = "upload", !.arg = arg]
    <3>1. Loading \in CallOf(W) /\ "upload" \in W /\ arg \in W /\ Loading.at = "sent"
      <4>1. Idle \in CallOf(W)
        BY DEF Idle, CallOf
      <4>2. Loading.at = "sent"
        BY <4>1 DEF Loading, CallOf
      <4> QED
        BY <4>2, LoadIsACall DEF CallOf
    <3> HIDE DEF W
    <3>2. r \in CallOf(W) /\ r.op = "upload" /\ r.at = "sent" /\ r.arg = arg
      BY <3>1 DEF CallOf
    <3>3. SetCall(c, r)
      BY <2>1, CoupleVisits
    <3> HIDE DEF r
    <3> QED
      BY <1>0, <3>2, <3>3, CallBecomes
  <2>6. ASSUME NEW d \in Calls PROVE ArgsAre(d)'
    <3>1. CASE d = c
      BY <1>0, <2>2, <2>4, <2>5, <3>1 DEF Becomes, ArgsAre
    <3>2. CASE d # c
      BY <2>5, <3>2 DEF Becomes, CoupleInv, ArgsAre, Kept
    <3> QED
      BY <3>1, <3>2
  <2>7. ASSUME NEW p \in Photos PROVE Told(p)'
    <3>1. CASE p = next
      <4>1. page'.item[p] = "uploading"
        BY <1>0, <2>1, <2>3, <3>1, ItemOf
      <4> QED
        BY <2>4, <2>5, <3>1, <4>1 DEF Told, Becomes
    <3>2. CASE p = of /\ p # next
      <4>1. page'.item[p] = status
        BY <1>0, <2>1, <2>3, <3>2, ItemOf
      <4> QED
        BY <1>0, <3>2, <4>1 DEF Told, Kept
    <3>3. CASE p # of /\ p # next
      <4>1. page'.item[p] = page.item[p]
        BY <2>1, <2>3, <3>3, ItemOf
      <4>2. Told(p) /\ (Kept(p) => Kept(p)')
        BY <1>0
      <4> QED
        BY <2>4, <2>5, <3>3, <4>1, <4>2 DEF Told, Becomes
    <3> QED
      BY <3>1, <3>2, <3>3
  <2> HIDE DEF after
  <2> QED
    BY <2>1, <2>3, <2>5, <2>6, <2>7, ItemsChange
<1> QED
  BY <1>1, <1>2

(* Files are dropped on the page.                                           *)
LEMMA DropKeeps ==
  ASSUME CoupleInv, NEW c \in Calls, NEW files \in SUBSET Photos, NEW first \in files,
         C!onDrop(c, files, first)
  PROVE  CoupleInv'
<1> DEFINE arg == [of |-> first, rest |-> files \ {first}]
           items == [p \in Photos |->
                       CASE p = first -> "uploading"
                         [] p \in files \ {first} -> "pending"
                         [] OTHER -> page.item[p]]
<1>1. /\ page' = [page EXCEPT !.item = items] /\ UNCHANGED server
      /\ C!Send(c, "upload", arg)
  BY DEF C!onDrop
<1>2. arg.of = first /\ arg.rest = files \ {first}
  OBVIOUS
<1> HIDE DEF arg
<1>3. page'.item = items /\ items \in [Photos -> C!Statuses]
  BY <1>1, ItemOf DEF C!Statuses
<1>4. CallsAre' /\ Becomes(c, "upload", "sent", arg) /\ call[c].op # "upload"
  <2>1. call[c] = C!Idle
    BY <1>1 DEF C!Send
  <2> QED
    BY <1>1, <2>1, CoupleVisits, Begins DEF CoupleInv, C!Idle
<1>5. ASSUME NEW d \in Calls PROVE ArgsAre(d)'
  <2>1. CASE d = c
    BY <1>2, <1>4, <2>1 DEF Becomes, ArgsAre
  <2>2. CASE d # c
    BY <1>1, <1>4, <2>2 DEF Becomes, CoupleInv, ArgsAre, Kept
  <2> QED
    BY <2>1, <2>2
<1>6. ASSUME NEW p \in Photos PROVE Told(p)'
  <2>1. CASE p \in files
    <3>1. page'.item[p] = IF p = first THEN "uploading" ELSE "pending"
      BY <1>3, <2>1
    <3> QED
      BY <1>2, <1>4, <2>1, <3>1 DEF Told, Becomes
  <2>2. CASE p \notin files
    <3>1. page'.item[p] = page.item[p]
      BY <1>3, <2>2
    <3>2. Told(p)
      BY DEF CoupleInv
    <3> QED
      BY <1>1, <1>4, <3>1, <3>2 DEF Told, Becomes, Kept
  <2> QED
    BY <2>1, <2>2
<1> HIDE DEF items
<1> QED
  BY <1>1, <1>3, <1>4, <1>5, <1>6, ItemsChange

(* Clicks of the gallery.                                                   *)
LEMMA ClickKeeps ==
  ASSUME CoupleInv, NEW c \in Calls, C!Click(c)
  PROVE  CoupleInv'
<1>1. ASSUME NEW op \in {"zip", "save", "delete"}, NEW arg, C!Send(c, op, arg),
             op = "save" => arg.text # C!Gone,
             UNCHANGED server,
             \/ UNCHANGED page \/ page' = [page EXCEPT !.zip = TRUE]
             \/ page' = [page EXCEPT !.saving = TRUE]
      PROVE  CoupleInv'
  <2>1. CallsAre' /\ Becomes(c, op, "sent", arg)
    BY <1>1, CoupleVisits, Begins DEF CoupleInv
  <2>2. call[c].op # "upload"
    BY <1>1 DEF C!Send, C!Idle
  <2>3. PageIs' /\ page'.item = page.item /\ page'.text # C!Gone
    <3>1. CASE UNCHANGED page
      BY <3>1 DEF CoupleInv, PageIs
    <3> QED
      BY <1>1, <3>1, FieldsChange
  <2>4. \A d \in Calls :
          \/ call'[d] = call[d]
          \/ /\ call[d].op # "upload" /\ call'[d].op # "upload"
             /\ call'[d].op = "save" => call'[d].arg.text # C!Gone
    BY <1>1, <2>1, <2>2 DEF Becomes
  <2> QED
    BY <1>1, <2>1, <2>3, <2>4, Untold
<1>2. CASE C!handleDownloadEventZip(c)
  BY <1>1, <1>2 DEF C!handleDownloadEventZip
<1>3. ASSUME NEW p \in Photos, C!saveCaption(c, p) PROVE CoupleInv'
  <2> DEFINE arg == [of |-> p, text |-> page.text]
  <2>1. C!Send(c, "save", arg) /\ UNCHANGED server /\ page' = [page EXCEPT !.saving = TRUE]
    BY <1>3 DEF C!saveCaption
  <2>2. arg.text # C!Gone
    BY DEF CoupleInv
  <2> HIDE DEF arg
  <2> QED
    BY <1>1, <2>1, <2>2
<1>4. ASSUME NEW p \in Photos, C!handleDelete(c, p) PROVE CoupleInv'
  <2>1. C!Send(c, "delete", [of |-> p]) /\ UNCHANGED <<server, page>>
    BY <1>4 DEF C!handleDelete
  <2> QED
    BY <1>1, <2>1
<1> QED
  BY <1>2, <1>3, <1>4, DropKeeps DEF C!Click

(* Answers, and calls that fail.                                            *)
LEMMA AnswersKeep ==
  ASSUME CoupleInv, NEW c \in Calls,
         \/ C!OperationFails(c) \/ C!Saved(c) \/ C!Operated(c)
         \/ C!Read(c) \/ C!LoadFails(c) \/ C!Loaded(c)
  PROVE  CoupleInv'
<1>0. CallsAre /\ ArgsAre(c)
  BY DEF CoupleInv
<1>1. ASSUME call[c].op # "upload", C!SetCall(c, C!Idle), UNCHANGED server, NEW x,
             \/ UNCHANGED page
             \/ page' = [page EXCEPT !.zip = x]
             \/ page' = [page EXCEPT !.saving = x]
             \/ page' = [page EXCEPT !.list = x]
             \/ page' = [page EXCEPT !.zip = FALSE, !.error = TRUE]
             \/ page' = [page EXCEPT !.loading = FALSE, !.error = TRUE]
             \/ page' = [page EXCEPT !.loading = FALSE, !.list = x]
             \/ page' = [page EXCEPT !.saving = FALSE, !.editing = None, !.list = x]
      PROVE  CoupleInv'
  <2>1. CallsAre' /\ Becomes(c, "none", "idle", None)
    BY <1>0, <1>1, CoupleVisits, Ends
  <2>2. PageIs' /\ page'.item = page.item /\ page'.text # C!Gone
    <3>1. CASE UNCHANGED page
      BY <3>1 DEF CoupleInv, PageIs
    <3> QED
      BY <1>1, <3>1, FieldsChange
  <2>3. \A d \in Calls :
          \/ call'[d] = call[d]
          \/ /\ call[d].op # "upload" /\ call'[d].op # "upload"
             /\ call'[d].op = "save" => call'[d].arg.text # C!Gone
    BY <1>1, <2>1 DEF Becomes
  <2> QED
    BY <1>1, <2>1, <2>2, <2>3, Untold
<1>2. CASE C!OperationFails(c)
  <2>1. UNCHANGED server
    BY <1>2 DEF C!OperationFails
  <2>2. CASE call[c].op = "upload"
    <3>1. C!NextFile(c, "error")
      BY <1>2, <2>2 DEF C!OperationFails
    <3> QED
      BY <2>1, <2>2, <3>1, NextFileKeeps
  <2>3. CASE call[c].op # "upload"
    <3>1. /\ C!SetCall(c, C!Idle)
          /\ \/ UNCHANGED page
             \/ page' = [page EXCEPT !.saving = FALSE]
             \/ page' = [page EXCEPT !.zip = FALSE, !.error = TRUE]
      BY <1>2, <2>3 DEF C!OperationFails
    <3> QED
      BY <1>1, <2>1, <2>3, <3>1
  <2> QED
    BY <2>2, <2>3
<1>3. CASE C!Saved(c)
  <2> DEFINE x == [page.list EXCEPT ![call[c].arg.of] =
                     IF page.list[call[c].arg.of] = C!Gone THEN C!Gone ELSE call[c].arg.text]
  <2>1. page' = [page EXCEPT !.saving = FALSE, !.editing = None, !.list = x]
    BY <1>3 DEF C!Saved
  <2>2. call[c].op # "upload" /\ C!SetCall(c, C!Idle) /\ UNCHANGED server
    BY <1>3 DEF C!Saved, C!Served
  <2> HIDE DEF x
  <2> QED
    BY <1>1, <2>1, <2>2
<1>4. CASE C!Operated(c)
  <2>1. UNCHANGED server
    BY <1>4 DEF C!Operated
  <2>2. CASE C!Served(c, "upload") /\ C!NextFile(c, "done")
    <3>1. call[c].op = "upload" /\ Kept(call[c].arg.of)
      BY <1>0, <2>2 DEF C!Served, ArgsAre
    <3> QED
      BY <2>1, <2>2, <3>1, NextFileKeeps
  <2>3. CASE C!Served(c, "zip") \/ C!Served(c, "delete")
    <3> DEFINE x == [page.list EXCEPT ![call[c].arg.of] = C!Gone]
    <3>1. call[c].op # "upload" /\ ~C!Served(c, "upload")
      BY <2>3 DEF C!Served
    <3>2. /\ C!SetCall(c, C!Idle)
          /\ page' = [page EXCEPT !.zip = FALSE] \/ page' = [page EXCEPT !.list = x]
      BY <1>4, <3>1 DEF C!Operated
    <3> HIDE DEF x
    <3> QED
      BY <1>1, <2>1, <3>1, <3>2
  <2> QED
    BY <1>4, <2>2, <2>3 DEF C!Operated
<1>5. CASE C!Read(c)
  <2>1. call[c].op = "load" /\ UNCHANGED <<server, page>>
    BY <1>5 DEF C!Read, C!Sent
  <2>2. (\E got : C!Serve(c, got)) \/ C!Refuse(c)
    BY <1>5 DEF C!Read
  <2>3. CallsAre' /\ \E at : Becomes(c, call[c].op, at, call[c].arg)
    BY <1>0, <2>2, CoupleVisits, IsServed, IsRefused
  <2>4. PageIs' /\ page'.item = page.item /\ page'.text # C!Gone
    BY <2>1 DEF CoupleInv, PageIs
  <2>5. \A d \in Calls :
          \/ call'[d] = call[d]
          \/ call[d].op # "upload" /\ call'[d].op # "upload" /\ call'[d].op # "save"
    BY <2>1, <2>3 DEF Becomes
  <2> QED
    BY <2>1, <2>3, <2>4, <2>5, Untold
<1>6. CASE C!LoadFails(c)
  BY <1>1, <1>6 DEF C!LoadFails
<1>7. CASE C!Loaded(c)
  <2> DEFINE x == IF page.about = "upload" THEN page.list ELSE call[c].got
  <2>1. page' = [page EXCEPT !.loading = FALSE, !.list = x]
    BY <1>7 DEF C!Loaded
  <2>2. call[c].op # "upload" /\ C!SetCall(c, C!Idle) /\ UNCHANGED server
    BY <1>7 DEF C!Loaded, C!Served
  <2> HIDE DEF x
  <2> QED
    BY <1>1, <2>1, <2>2
<1> QED
  BY <1>2, <1>3, <1>4, <1>5, <1>6, <1>7

LEMMA CoupleStepKeeps ==
  ASSUME CoupleInv, C!Next
  PROVE  CoupleInv'
  BY OthersKeep, EditKeeps, ClickKeeps, CoupleOperates, AnswersKeep DEF C!Next, C!Progress

LEMMA CouplesBegin == C!Init => CoupleInv
<1> SUFFICES ASSUME C!Init PROVE CoupleInv
  OBVIOUS
<1> DEFINE first == CHOOSE t \in Captions : TRUE
<1>1. first \in Captions /\ first # C!Gone
  BY CaptionsAreText DEF C!Gone
<1>2. CallsAre /\ \A c \in Calls : call[c].op \in {"none", "load"}
  BY FirstCalls, CoupleVisits DEF C!Init
<1>3. server \in [photo : [Photos -> {C!Gone, first}], removed : {{}}, valid : BOOLEAN]
  BY DEF C!Init
<1>4. page \in [about : {"gallery", "upload"} \cup Photos, list : {C!NothingKnown},
                loading : {TRUE}, error : {FALSE}, editing : {None}, text : {first},
                saving : {FALSE}, zip : {FALSE}, item : {[p \in Photos |-> "none"]}]
  BY DEF C!Init
<1> HIDE DEF first
<1>5. GalleryIs
  <2>1. server \in [photo : [Photos -> {C!Gone, first} \cup BOOLEAN],
                    removed : SUBSET ({C!Gone, first} \cup BOOLEAN),
                    valid : {C!Gone, first} \cup BOOLEAN]
    BY <1>3
  <2> QED
    BY <2>1 DEF GalleryIs
<1>6. PageIs /\ page.text = first /\ \A p \in Photos : page.item[p] = "none"
  <2> DEFINE W == {"gallery", "upload", C!NothingKnown, TRUE, FALSE, None, first}
                    \cup Photos
  <2>0. /\ {"gallery", "upload"} \cup Photos \subseteq W /\ C!NothingKnown \in W
        /\ TRUE \in W /\ FALSE \in W /\ None \in W /\ first \in W
        /\ [p \in Photos |-> "none"] \in [Photos -> C!Statuses]
    BY DEF C!Statuses
  <2> HIDE DEF W
  <2>1. page \in PageOf(W)
    BY <1>4, <2>0 DEF PageOf
  <2> QED
    BY <1>4, <2>1 DEF PageIs
<1> QED
  BY <1>1, <1>2, <1>5, <1>6 DEF CoupleInv, ArgsAre, Told

(* The list of uploads is true: what is done is stored, unless it was       *)
(* deleted since, what is uploading has its call, and what is pending a     *)
(* drop that will come to it, whatever uploads fail in between.             *)
THEOREM UploadsToldTrue == Spec => []UploadsAreTrue
<1> DEFINE Inv == visit = "couple" => CoupleInv
<1>1. Init => Inv
  BY CouplesBegin DEF Init
<1>2. Inv /\ [Next]_<<visit, vars>> => Inv'
  <2> SUFFICES ASSUME Inv, [Next]_<<visit, vars>>, visit' = "couple"
               PROVE  CoupleInv'
    OBVIOUS
  <2>1. CASE CoupleStep
    BY <2>1, CoupleStepKeeps DEF CoupleStep
  <2>2. CASE UNCHANGED <<visit, vars>>
    <3>1. CoupleInv
      BY <2>2
    <3> QED
      BY <2>2, <3>1, StoredOrSo DEF vars, CoupleInv, CallsAre, GalleryIs, Kept
  <2>3. CASE Next /\ ~CoupleStep
    BY <2>3 DEF Next, DeviceStep, EventStep, SmtpStep, PasswordStep, ConsoleStep
  <2> QED
    BY <2>1, <2>2, <2>3
<1>3. Inv => UploadsAreTrue
  <2> SUFFICES ASSUME CoupleInv PROVE C!UploadsAreTrue
    BY DEF UploadsAreTrue
  <2>1. \A p \in Photos : Told(p)
    BY DEF CoupleInv
  <2> QED
    BY <2>1 DEF C!UploadsAreTrue, C!photo, Told, Kept
<1> QED
  BY <1>1, <1>2, <1>3, PTL DEF Spec

-----------------------------------------------------------------------------
(* The couple's pages: operations of one photo or of the files of a drop.   *)
SaveArgs == [of : Photos, text : Captions]
DeleteArgs == [of : Photos]
DropArgs == [of : Photos, rest : SUBSET Photos]
Shots == [Photos -> C!Values]

CoupleCallsAre ==
  CallsTyped(C!Operations \cup {"load"}, DeleteArgs \cup SaveArgs \cup DropArgs, Shots)

(* What the call c is about, by what it does.                               *)
CoupleArg(op, arg) ==
  /\ op = "save" => arg \in SaveArgs
  /\ op = "delete" => arg \in DeleteArgs
  /\ op = "upload" => arg \in DropArgs

CoupleGot(op, at, got) ==
  op = "load" /\ at = "served" /\ page.about # "upload" => got \in Shots

CoupleTyped ==
  /\ server \in C!Galleries /\ page \in C!CouplePage
  /\ CoupleCallsAre
  /\ disturbed \in BOOLEAN /\ left \in 0..MaxInputs
  /\ \A c \in Calls : /\ CoupleArg(call[c].op, call[c].arg)
                      /\ CoupleGot(call[c].op, call[c].at, call[c].got)

(* The flag of the page tells that a caption is being saved.                *)
CoupleBusy ==
  /\ \A c \in Calls : call[c].op = "save" => page.saving
  /\ \A c, d \in Calls : call[c].op = "save" /\ call[d].op = "save" => c = d

ListsAll == page.list = server.photo

ListsOthers(p) == \A q \in Photos : q # p => page.list[q] = server.photo[q]

(* What the list shows of the gallery while the one call is in flight.      *)
GalleryFits(c) ==
  LET arg == call[c].arg IN
  /\ call[c].op # "upload"
  /\ call[c].op = "zip" => ListsAll
  /\ call[c].op \in {"save", "delete"} /\ call[c].at # "served" => ListsAll
  /\ C!Served(c, "save") => /\ ListsOthers(arg.of)
                            /\ server.photo[arg.of] = arg.text
                            /\ page.list[arg.of] # C!Gone
  /\ C!Served(c, "delete") => ListsOthers(arg.of) /\ server.photo[arg.of] = C!Gone
  /\ C!Served(c, "load") => call[c].got = server.photo

GalleryShown ==
  Alone /\ (\A c \in Calls : GalleryFits(c)) /\ (Quiet => ListsAll)

CoupleShows == ~disturbed /\ page.about = "gallery" => GalleryShown

LEMMA CoupleIsVisit ==
  /\ \A c, r : C!SetCall(c, r) <=> SetCall(c, r)
  /\ \A c, op, arg : C!Send(c, op, arg) <=> Send(c, op, arg)
  /\ \A c, got : C!Serve(c, got) <=> Serve(c, got)
  /\ \A c : C!Refuse(c) <=> Refuse(c)
  /\ C!Idle = Idle /\ C!Loading = Loading
  /\ C!VisitInit <=> VisitInit
  /\ C!Quiet <=> Quiet
  /\ C!Spend <=> Spend
  BY DEF C!SetCall, SetCall, C!Send, Send, C!Serve, Serve, C!Refuse, Refuse,
    C!Idle, Idle, C!Loading, Loading, C!VisitInit, VisitInit, C!Spend, Spend,
    C!Quiet, Quiet

LEMMA CoupleSends ==
  ASSUME CoupleTyped, NEW c \in Calls, NEW op \in C!Operations,
         NEW arg \in DeleteArgs \cup SaveArgs \cup DropArgs \cup {None}, Send(c, op, arg)
  PROVE  CoupleCallsAre' /\ call[c].op = "none" /\ Changes(c, op, "sent", arg, None)
<1>1. CoupleCallsAre /\ op # "none"
  BY DEF CoupleTyped, C!Operations
<1> QED
  BY <1>1, SendChanges DEF CoupleCallsAre

(* What each click makes of its call.                                       *)
LEMMA CoupleClicks ==
  ASSUME CoupleTyped, NEW c \in Calls, C!Click(c)
  PROVE  /\ CoupleCallsAre' /\ call[c].op = "none"
         /\ \E op \in C!Operations : \E arg :
              /\ Changes(c, op, "sent", arg, None) /\ CoupleArg(op, arg)
              /\ op = "save" => ~page.saving /\ page' = [page EXCEPT !.saving = TRUE]
              /\ op = "delete" => UNCHANGED page
              /\ op = "zip" => page' = [page EXCEPT !.zip = TRUE]
              /\ op = "upload" => page.about = "upload"
<1> USE CoupleIsVisit
<1>0. page \in C!CouplePage
  BY DEF CoupleTyped
<1>1. ASSUME NEW p \in Photos, C!saveCaption(c, p)
      PROVE  /\ CoupleCallsAre' /\ call[c].op = "none"
             /\ \E arg \in SaveArgs : Changes(c, "save", "sent", arg, None)
  <2> DEFINE arg == [of |-> p, text |-> page.text]
  <2>1. arg \in SaveArgs /\ Send(c, "save", arg)
    BY <1>0, <1>1 DEF C!saveCaption, SaveArgs, C!CouplePage
  <2> HIDE DEF arg
  <2> QED
    BY <2>1, CoupleSends DEF C!Operations
<1>2. ASSUME NEW p \in Photos, C!handleDelete(c, p)
      PROVE  /\ CoupleCallsAre' /\ call[c].op = "none"
             /\ \E arg \in DeleteArgs : Changes(c, "delete", "sent", arg, None)
  <2> DEFINE arg == [of |-> p]
  <2>1. arg \in DeleteArgs /\ Send(c, "delete", arg)
    BY <1>2 DEF C!handleDelete, DeleteArgs
  <2> HIDE DEF arg
  <2> QED
    BY <2>1, CoupleSends DEF C!Operations
<1>3. ASSUME C!handleDownloadEventZip(c)
      PROVE  CoupleCallsAre' /\ call[c].op = "none" /\ Changes(c, "zip", "sent", None, None)
  BY <1>3, CoupleSends DEF C!handleDownloadEventZip, C!Operations
<1>4. ASSUME NEW files \in SUBSET Photos, NEW first \in files, C!onDrop(c, files, first)
      PROVE  /\ CoupleCallsAre' /\ call[c].op = "none"
             /\ \E arg \in DropArgs : Changes(c, "upload", "sent", arg, None)
  <2> DEFINE arg == [of |-> first, rest |-> files \ {first}]
  <2>1. arg \in DropArgs /\ Send(c, "upload", arg)
    BY <1>4 DEF C!onDrop, DropArgs
  <2> HIDE DEF arg
  <2> QED
    BY <2>1, CoupleSends DEF C!Operations
<1>5. CASE \E p \in Photos : C!saveCaption(c, p)
  <2>1. ~page.saving /\ page' = [page EXCEPT !.saving = TRUE]
    BY <1>5 DEF C!saveCaption
  <2> QED
    BY <1>1, <1>5, <2>1 DEF CoupleArg, C!Operations
<1>6. CASE \E p \in Photos : C!handleDelete(c, p)
  BY <1>2, <1>6 DEF CoupleArg, C!handleDelete, C!Operations
<1>7. CASE C!handleDownloadEventZip(c)
  BY <1>3, <1>7 DEF CoupleArg, C!handleDownloadEventZip, C!Operations
<1>8. CASE \E files \in SUBSET Photos : \E first \in files : C!onDrop(c, files, first)
  <2>1. page.about = "upload"
    BY <1>8 DEF C!onDrop
  <2> QED
    BY <1>4, <1>8, <2>1 DEF CoupleArg, C!Operations
<1> QED
  BY <1>5, <1>6, <1>7, <1>8 DEF C!Click

(* A drop is over, or goes on with a photo of its rest.                     *)
LEMMA DropGoesOn ==
  ASSUME CoupleTyped, NEW c \in Calls, call[c].op = "upload",
         NEW status \in {"done", "error"}, C!NextFile(c, status)
  PROVE  /\ CoupleCallsAre'
         /\ \/ Changes(c, "none", "idle", None, None)
            \/ \E arg \in DropArgs : Changes(c, "upload", "sent", arg, None)
         /\ \E items \in [Photos -> C!Statuses] : page' = [page EXCEPT !.item = items]
<1> USE CoupleIsVisit
<1> DEFINE of == call[c].arg.of
           rest == call[c].arg.rest
           items == [page.item EXCEPT ![of] = status]
<1>0. /\ CoupleCallsAre /\ of \in Photos /\ rest \in SUBSET Photos
      /\ page.item \in [Photos -> C!Statuses]
  BY DEF CoupleTyped, CoupleArg, DropArgs, C!CouplePage
<1>1. items \in [Photos -> C!Statuses]
  BY <1>0 DEF C!Statuses
<1>2. CASE rest = {}
  <2>1. page' = [page EXCEPT !.item = items] /\ SetCall(c, Idle)
    BY <1>2 DEF C!NextFile
  <2> HIDE DEF items
  <2> QED
    BY <1>0, <1>1, <2>1, EndChanges DEF CoupleCallsAre
<1>3. CASE rest # {}
  <2> DEFINE next == CHOOSE p \in rest : TRUE
             arg == [of |-> next, rest |-> rest \ {next}]
             more == [items EXCEPT ![next] = "uploading"]
             r == [Loading EXCEPT !.op = "upload", !.arg = arg]
             R == [op : (C!Operations \cup {"load"}) \cup {"none"},
                   at : {"idle", "sent", "served", "refused"},
                   arg : (DeleteArgs \cup SaveArgs \cup DropArgs) \cup {None},
                   got : Shots \cup {None}]
  <2>1. page' = [page EXCEPT !.item = more] /\ SetCall(c, r)
    BY <1>3 DEF C!NextFile
  <2>2. next \in Photos
    BY <1>0, <1>3
  <2>3. more \in [Photos -> C!Statuses] /\ arg \in DropArgs
    BY <1>0, <1>1, <2>2 DEF C!Statuses, DropArgs
  <2> HIDE DEF more, arg
  <2>4. r \in R /\ r.op = "upload" /\ r.at = "sent" /\ r.arg = arg /\ r.got = None
    BY <2>3 DEF Loading, Idle, C!Operations
  <2> HIDE DEF r
  <2>5. CoupleCallsAre' /\ Changes(c, r.op, r.at, r.arg, r.got)
    BY <1>0, <2>1, <2>4, CallChanges DEF CoupleCallsAre
  <2> QED
    BY <2>1, <2>3, <2>4, <2>5
<1> QED
  BY <1>2, <1>3

(* What an answer makes of its call, and of the page beside its list.       *)
LEMMA CoupleAnswers ==
  ASSUME CoupleTyped, NEW c \in Calls,
         \/ C!OperationFails(c) \/ C!Saved(c) \/ C!Operated(c)
         \/ C!LoadFails(c) \/ C!Loaded(c)
  PROVE  /\ CoupleCallsAre' /\ call[c].op # "none"
         /\ \/ Changes(c, "none", "idle", None, None)
            \/ /\ call[c].op = "upload"
               /\ \E arg \in DropArgs : Changes(c, "upload", "sent", arg, None)
<1> USE CoupleIsVisit
<1>0. CoupleCallsAre
  BY DEF CoupleTyped
<1>1. CASE C!Loaded(c) \/ C!LoadFails(c) \/ C!Saved(c)
  <2>1. SetCall(c, Idle) /\ call[c].op # "none"
    BY <1>1 DEF C!Loaded, C!LoadFails, C!Saved, C!Served
  <2> QED
    BY <1>0, <2>1, EndChanges DEF CoupleCallsAre
<1>2. CASE call[c].op # "upload" /\ (C!OperationFails(c) \/ C!Operated(c))
  <2>1. SetCall(c, Idle) /\ call[c].op # "none"
    BY <1>2 DEF C!OperationFails, C!Operated, C!Served, C!Operations
  <2> QED
    BY <1>0, <2>1, EndChanges DEF CoupleCallsAre
<1>3. CASE call[c].op = "upload" /\ (C!OperationFails(c) \/ C!Operated(c))
  <2>1. C!NextFile(c, "done") \/ C!NextFile(c, "error")
    BY <1>3 DEF C!OperationFails, C!Operated, C!Served
  <2> QED
    BY <1>3, <2>1, DropGoesOn
<1> QED
  BY <1>1, <1>2, <1>3

(* What the server makes of a call.                                         *)
LEMMA CoupleOperated ==
  ASSUME CoupleTyped, NEW c \in Calls, C!Operate(c)
  PROVE  /\ CoupleCallsAre' /\ call[c].op \in C!Operations /\ call[c].at = "sent"
         /\ \E at \in {"served", "refused"} : \E got :
              Changes(c, call[c].op, at, call[c].arg, got)
<1> USE CoupleIsVisit
<1>1. /\ CoupleCallsAre /\ call[c].op \in C!Operations /\ call[c].at = "sent"
      /\ Serve(c, None) \/ Refuse(c)
  BY DEF CoupleTyped, C!Operate, C!Sent, C!Operations
<1>2. call[c].op # "none"
  BY <1>1 DEF C!Operations
<1> QED
  BY <1>1, <1>2, ServeChanges, RefuseChanges DEF CoupleCallsAre

LEMMA GalleryRead ==
  ASSUME CoupleTyped, NEW c \in Calls, C!Read(c)
  PROVE  /\ CoupleCallsAre' /\ call[c].op = "load"
         /\ \E at, got :
              /\ Changes(c, "load", at, call[c].arg, got)
              /\ at = "served" /\ page.about # "upload" => got \in Shots
              /\ page.about = "gallery" => at = "served" /\ got = server.photo
<1> USE CoupleIsVisit
<1>0. /\ CoupleCallsAre /\ server.photo \in Shots /\ call[c].op = "load"
      /\ page.about \in {"gallery", "upload"} \cup Photos
  BY DEF CoupleTyped, C!Galleries, Shots, C!Read, C!Sent, C!CouplePage
<1>1. CASE page.about = "gallery"
  <2>1. Serve(c, server.photo)
    BY <1>1, PhotosAreNoPages DEF C!Read, C!photo
  <2> QED
    BY <1>0, <1>1, <2>1, ServeChanges DEF CoupleCallsAre
<1>2. CASE page.about = "upload"
  <2>1. Serve(c, None) \/ Refuse(c)
    BY <1>2, PhotosAreNoPages DEF C!Read
  <2> QED
    BY <1>0, <1>2, <2>1, ServeChanges, RefuseChanges DEF CoupleCallsAre
<1>3. CASE page.about \in Photos
  <2> DEFINE p == page.about
             got == [C!NothingKnown EXCEPT ![p] = server.photo[p]]
  <2>1. Serve(c, got) \/ Refuse(c)
    BY <1>3, PhotosAreNoPages DEF C!Read, C!photo
  <2>2. got \in Shots
    BY <1>0, <1>3 DEF C!NothingKnown, Shots, C!Values
  <2>3. p # "gallery"
    BY <1>3, PhotosAreNoPages
  <2> HIDE DEF got
  <2> QED
    BY <1>0, <2>1, <2>2, <2>3, ServeChanges, RefuseChanges DEF CoupleCallsAre
<1> QED
  BY <1>0, <1>1, <1>2, <1>3

(* The writes of the gallery.                                               *)
LEMMA GalleryTyped ==
  ASSUME server \in C!Galleries, NEW p \in Photos,
         \/ C!StorePhoto(p) \/ C!DeletePhoto(p)
         \/ \E t \in Captions : C!WriteCaption(p, t)
  PROVE  server' \in C!Galleries
<1> DEFINE first == CHOOSE t \in Captions : TRUE
<1>1. first \in Captions
  BY CaptionsAreText
<1>2. CASE C!StorePhoto(p)
  <2>1. server' = [server EXCEPT !.photo[p] = first]
    BY <1>2 DEF C!StorePhoto
  <2> HIDE DEF first
  <2> QED
    BY <1>1, <2>1 DEF C!Galleries, C!Values
<1>3. CASE C!DeletePhoto(p)
  BY <1>3 DEF C!DeletePhoto, C!Galleries, C!Values
<1>4. CASE \E t \in Captions : C!WriteCaption(p, t)
  BY <1>4 DEF C!WriteCaption, C!Galleries, C!Values
<1> QED
  BY <1>2, <1>3, <1>4

(* The page after an answer.                                                *)
LEMMA CouplePageAnswers ==
  ASSUME CoupleTyped, NEW c \in Calls,
         \/ C!OperationFails(c) \/ C!Saved(c) \/ C!Operated(c)
         \/ C!LoadFails(c) \/ C!Loaded(c)
  PROVE  /\ page' \in C!CouplePage /\ page'.about = page.about
         /\ page.saving /\ call[c].op # "save" => page'.saving
         /\ C!Saved(c) => page'.list = [page.list EXCEPT ![call[c].arg.of] =
                            IF @ = C!Gone THEN C!Gone ELSE call[c].arg.text]
         /\ C!Operated(c) /\ call[c].op = "delete" =>
              page'.list = [page.list EXCEPT ![call[c].arg.of] = C!Gone]
         /\ C!Operated(c) /\ call[c].op # "delete" => page'.list = page.list
         /\ C!Loaded(c) /\ page.about # "upload" => page'.list = call[c].got
<1>0. /\ page \in C!CouplePage /\ page.list \in Shots
      /\ CoupleArg(call[c].op, call[c].arg)
      /\ CoupleGot(call[c].op, call[c].at, call[c].got)
  BY DEF CoupleTyped, C!CouplePage, Shots
<1>1. CASE call[c].op = "upload"
  <2>1. C!NextFile(c, "done") \/ C!NextFile(c, "error")
    BY <1>1 DEF C!OperationFails, C!Saved, C!Operated, C!LoadFails, C!Loaded, C!Served
  <2>2. PICK items \in [Photos -> C!Statuses] : page' = [page EXCEPT !.item = items]
    BY <1>1, <2>1, DropGoesOn
  <2> QED
    BY <1>0, <1>1, <2>2 DEF C!CouplePage, C!Saved, C!Loaded, C!Served
<1>2. CASE C!OperationFails(c) /\ call[c].op # "upload"
  BY <1>0, <1>2 DEF C!OperationFails, C!CouplePage, C!Saved, C!Operated, C!Loaded,
    C!Served, C!Fails, C!Spend
<1>3. CASE C!Saved(c)
  <2> DEFINE of == call[c].arg.of
             list == [page.list EXCEPT ![of] =
                        IF @ = C!Gone THEN C!Gone ELSE call[c].arg.text]
  <2>1. call[c].op = "save" /\ call[c].arg \in SaveArgs
    BY <1>0, <1>3 DEF C!Saved, C!Served, CoupleArg
  <2>2. of \in Photos /\ call[c].arg.text \in Captions
    BY <2>1 DEF SaveArgs
  <2>3. list \in Shots
    BY <1>0, <2>2 DEF Shots, C!Values
  <2>4. page' = [page EXCEPT !.saving = FALSE, !.editing = None, !.list = list]
    BY <1>3 DEF C!Saved
  <2>5. page' \in C!CouplePage /\ page'.about = page.about /\ page'.list = list
    <3> HIDE DEF list
    <3> QED
      BY <1>0, <2>3, <2>4 DEF C!CouplePage, Shots
  <2> QED
    BY <2>1, <2>5 DEF C!Operated, C!Loaded, C!Served
<1>4. CASE C!Operated(c) /\ call[c].op # "upload"
  <2>1. CASE call[c].op = "delete"
    <3> DEFINE of == call[c].arg.of
               list == [page.list EXCEPT ![of] = C!Gone]
    <3>1. of \in Photos
      BY <1>0, <2>1 DEF CoupleArg, DeleteArgs
    <3>2. list \in Shots
      BY <1>0, <3>1 DEF Shots, C!Values
    <3>3. page' = [page EXCEPT !.list = list]
      BY <1>4, <2>1 DEF C!Operated, C!Served
    <3>4. page' \in C!CouplePage /\ page'.about = page.about /\ page'.list = list
          /\ page'.saving = page.saving
      <4> HIDE DEF list
      <4> QED
        BY <1>0, <3>2, <3>3 DEF C!CouplePage, Shots
    <3> QED
      BY <2>1, <3>4 DEF C!Saved, C!Loaded, C!Served
  <2>2. CASE call[c].op = "zip"
    BY <1>0, <1>4, <2>2 DEF C!Operated, C!CouplePage, C!Saved, C!Loaded, C!Served
  <2> QED
    BY <1>4, <2>1, <2>2 DEF C!Operated, C!Served
<1>5. CASE C!LoadFails(c)
  BY <1>0, <1>5 DEF C!LoadFails, C!CouplePage, C!Saved, C!Operated, C!Loaded, C!Served,
    C!Fails, C!Spend
<1>6. CASE C!Loaded(c)
  <2> DEFINE list == IF page.about = "upload" THEN page.list ELSE call[c].got
  <2>1. list \in Shots
    BY <1>0, <1>6 DEF C!Loaded, C!Served, CoupleGot
  <2>2. page' = [page EXCEPT !.loading = FALSE, !.list = list]
    BY <1>6 DEF C!Loaded
  <2>3. page' \in C!CouplePage /\ page'.about = page.about /\ page'.list = list
        /\ page'.saving = page.saving
    <3> HIDE DEF list
    <3> QED
      BY <1>0, <2>1, <2>2 DEF C!CouplePage, Shots
  <2> QED
    BY <1>6, <2>3 DEF C!Saved, C!Operated, C!Loaded, C!Served
<1> QED
  BY <1>1, <1>2, <1>3, <1>4, <1>5, <1>6

LEMMA CouplePageEdits ==
  ASSUME CoupleTyped, C!Edit
  PROVE  /\ page' \in C!CouplePage /\ UNCHANGED <<server, call, disturbed>>
         /\ page'.about = page.about /\ page'.list = page.list /\ page'.saving = page.saving
<1>0. page \in C!CouplePage
  BY DEF CoupleTyped
<1>1. CASE C!CancelCaption
  BY <1>0, <1>1 DEF C!CancelCaption, C!CouplePage
<1>2. ASSUME NEW p \in Photos, C!startEditCaption(p)
      PROVE  /\ page' \in C!CouplePage /\ UNCHANGED <<server, call, disturbed>>
             /\ page'.about = page.about /\ page'.list = page.list
             /\ page'.saving = page.saving
  <2>1. page.list[p] \in Captions
    BY <1>0, <1>2 DEF C!startEditCaption, C!Shown, C!CouplePage, C!Values
  <2> QED
    BY <1>0, <1>2, <2>1 DEF C!startEditCaption, C!CouplePage
<1>3. ASSUME NEW t \in Captions, C!TypeCaption(t)
      PROVE  /\ page' \in C!CouplePage /\ UNCHANGED <<server, call, disturbed>>
             /\ page'.about = page.about /\ page'.list = page.list
             /\ page'.saving = page.saving
  BY <1>0, <1>3 DEF C!TypeCaption, C!CouplePage
<1> QED
  BY <1>1, <1>2, <1>3 DEF C!Edit

LEMMA CouplePageClicks ==
  ASSUME CoupleTyped, NEW c \in Calls, C!Click(c)
  PROVE  page' \in C!CouplePage /\ page'.about = page.about /\ page'.list = page.list
         /\ (page.saving => page'.saving)
<1>0. page \in C!CouplePage
  BY DEF CoupleTyped
<1>1. ASSUME NEW files \in SUBSET Photos, NEW first \in files, C!onDrop(c, files, first)
      PROVE  page' \in C!CouplePage /\ page'.about = page.about /\ page'.list = page.list
             /\ page'.saving = page.saving
  <2> DEFINE items == [p \in Photos |-> CASE p = first -> "uploading"
                                          [] p \in files \ {first} -> "pending"
                                          [] OTHER -> page.item[p]]
  <2>1. items \in [Photos -> C!Statuses]
    BY <1>0 DEF C!CouplePage, C!Statuses
  <2>2. page' = [page EXCEPT !.item = items]
    BY <1>1 DEF C!onDrop
  <2> HIDE DEF items
  <2> QED
    BY <1>0, <2>1, <2>2 DEF C!CouplePage
<1>2. ASSUME NEW p \in Photos, C!saveCaption(c, p) \/ C!handleDelete(c, p)
      PROVE  page' \in C!CouplePage /\ page'.about = page.about /\ page'.list = page.list
             /\ (page.saving => page'.saving)
  BY <1>0, <1>2 DEF C!saveCaption, C!handleDelete, C!CouplePage
<1>3. CASE C!handleDownloadEventZip(c)
  BY <1>0, <1>3 DEF C!handleDownloadEventZip, C!CouplePage
<1> QED
  BY <1>1, <1>2, <1>3 DEF C!Click

LEMMA CoupleStepTyped ==
  ASSUME CoupleTyped, C!Next
  PROVE  CoupleTyped' /\ page'.about = page.about
<1> USE CoupleIsVisit
<1>0. /\ CoupleCallsAre /\ page \in C!CouplePage /\ server \in C!Galleries
      /\ disturbed \in BOOLEAN /\ left \in 0..MaxInputs
      /\ \A c \in Calls : /\ CoupleArg(call[c].op, call[c].arg)
                          /\ CoupleGot(call[c].op, call[c].at, call[c].got)
  BY DEF CoupleTyped
<1>1. left' \in 0..MaxInputs
  <2>1. UNCHANGED left \/ Spend
    BY DEF C!Next, C!OthersWrite, C!Edit, C!CancelCaption, C!startEditCaption,
      C!TypeCaption, C!Click, C!handleDownloadEventZip, C!saveCaption, C!handleDelete,
      C!onDrop, C!Send, C!Progress, C!Operate, C!OperationFails, C!Saved, C!Operated,
      C!Read, C!LoadFails, C!Loaded, C!Fails
  <2> QED
    BY <1>0, <2>1, InputSpent
<1>2. disturbed' \in BOOLEAN
  BY <1>0, Zenon DEF C!Next, C!OthersWrite, C!Edit, C!CancelCaption, C!startEditCaption,
    C!TypeCaption, C!Click, C!handleDownloadEventZip, C!saveCaption, C!handleDelete,
    C!onDrop, C!Send, C!Progress, C!Operate, C!OperationFails, C!Saved, C!Operated,
    C!Read, C!LoadFails, C!Loaded
<1>3. server' \in C!Galleries
  <2>1. CASE C!OthersWrite
    <3>1. CASE server' = [server EXCEPT !.valid = FALSE]
      BY <1>0, <3>1 DEF C!Galleries
    <3> QED
      BY <1>0, <2>1, <3>1, GalleryTyped DEF C!OthersWrite
  <2>2. ASSUME NEW c \in Calls, C!Operate(c) PROVE server' \in C!Galleries
    <3> DEFINE arg == call[c].arg
    <3>0. CoupleArg(call[c].op, arg)
      BY <1>0
    <3>1. CASE C!Sent(c, "save") /\ C!WriteCaption(arg.of, arg.text)
      <4>1. arg.of \in Photos /\ arg.text \in Captions
        BY <3>0, <3>1 DEF CoupleArg, C!Sent, SaveArgs
      <4> QED
        BY <1>0, <3>1, <4>1, GalleryTyped
    <3>2. CASE C!Sent(c, "delete") /\ C!DeletePhoto(arg.of)
      <4>1. arg.of \in Photos
        BY <3>0, <3>2 DEF CoupleArg, C!Sent, DeleteArgs
      <4> QED
        BY <1>0, <3>2, <4>1, GalleryTyped
    <3>3. CASE C!Sent(c, "upload") /\ C!StorePhoto(arg.of)
      <4>1. arg.of \in Photos
        BY <3>0, <3>3 DEF CoupleArg, C!Sent, DropArgs
      <4> QED
        BY <1>0, <3>3, <4>1, GalleryTyped
    <3>4. CASE UNCHANGED server
      BY <1>0, <3>4
    <3> QED
      BY <2>2, <3>1, <3>2, <3>3, <3>4 DEF C!Operate
  <2>3. CASE UNCHANGED server
    BY <1>0, <2>3
  <2> QED
    BY <2>1, <2>2, <2>3 DEF C!Next, C!Edit, C!CancelCaption, C!startEditCaption,
      C!TypeCaption, C!Click, C!handleDownloadEventZip, C!saveCaption, C!handleDelete,
      C!onDrop, C!Progress, C!OperationFails, C!Saved, C!Operated, C!Read, C!LoadFails,
      C!Loaded
<1>4. page' \in C!CouplePage /\ page'.about = page.about
  <2>1. CASE UNCHANGED page
    BY <1>0, <2>1
  <2> QED
    BY <2>1, CouplePageAnswers, CouplePageEdits, CouplePageClicks
       DEF C!Next, C!OthersWrite, C!Progress, C!Operate, C!Read
<1>5. /\ CoupleCallsAre'
      /\ \A c \in Calls : /\ CoupleArg(call'[c].op, call'[c].arg)
                          /\ CoupleGot(call'[c].op, call'[c].at, call'[c].got)
  <2>1. CASE UNCHANGED call
    BY <1>0, <2>1 DEF CoupleCallsAre, CallsTyped
  <2>2. ASSUME NEW c \in Calls, NEW op, NEW at, NEW arg, NEW got,
               CoupleCallsAre', Changes(c, op, at, arg, got),
               CoupleArg(op, arg), CoupleGot(op, at, got)
        PROVE  <1>5!:
    BY <1>0, <2>2 DEF Changes
  <2>3. ASSUME NEW c \in Calls, C!Click(c) PROVE <1>5!:
    <3>1. PICK op, arg : Changes(c, op, "sent", arg, None) /\ CoupleArg(op, arg)
      BY <2>3, CoupleClicks
    <3>2. CoupleGot(op, "sent", None) /\ CoupleCallsAre'
      BY <2>3, CoupleClicks DEF CoupleGot
    <3> QED
      BY <2>2, <3>1, <3>2
  <2>4. ASSUME NEW c \in Calls, C!Operate(c) PROVE <1>5!:
    <3>1. /\ call[c].op \in C!Operations /\ CoupleCallsAre'
          /\ \E at \in {"served", "refused"} : \E got :
               Changes(c, call[c].op, at, call[c].arg, got)
      BY <2>4, CoupleOperated
    <3>2. \A at, got : CoupleGot(call[c].op, at, got)
      BY <3>1 DEF CoupleGot, C!Operations
    <3> QED
      BY <1>0, <2>2, <3>1, <3>2
  <2>5. ASSUME NEW c \in Calls, C!Read(c) PROVE <1>5!:
    <3>1. PICK at, got : /\ Changes(c, "load", at, call[c].arg, got)
                         /\ at = "served" /\ page.about # "upload" => got \in Shots
      BY <2>5, GalleryRead
    <3>2. CoupleGot("load", at, got) /\ CoupleArg("load", call[c].arg) /\ CoupleCallsAre'
      BY <2>5, <3>1, GalleryRead DEF CoupleGot, CoupleArg
    <3> QED
      BY <2>2, <3>1, <3>2
  <2>6. ASSUME NEW c \in Calls,
               \/ C!OperationFails(c) \/ C!Saved(c) \/ C!Operated(c)
               \/ C!LoadFails(c) \/ C!Loaded(c)
        PROVE  <1>5!:
    <3>1. /\ CoupleArg("none", None) /\ \A arg \in DropArgs : CoupleArg("upload", arg)
          /\ \A at, got : CoupleGot("none", at, got) /\ CoupleGot("upload", at, got)
      BY DEF CoupleArg, CoupleGot
    <3> QED
      BY <2>2, <2>6, <3>1, CoupleAnswers
  <2> QED
    BY <2>1, <2>3, <2>4, <2>5, <2>6 DEF C!Next, C!OthersWrite, C!Edit, C!CancelCaption,
      C!startEditCaption, C!TypeCaption, C!Progress
<1>6. \A c \in Calls : CoupleGot(call[c].op, call[c].at, call[c].got)'
  BY <1>4, <1>5 DEF CoupleGot
<1> QED
  BY <1>1, <1>2, <1>3, <1>4, <1>5, <1>6 DEF CoupleTyped, CoupleArg

LEMMA CoupleStepBusy ==
  ASSUME CoupleTyped, CoupleBusy, C!Next
  PROVE  CoupleBusy'
<1>1. ASSUME UNCHANGED call, page.saving => page'.saving
      PROVE  CoupleBusy'
  BY <1>1 DEF CoupleBusy
<1>2. CASE C!OthersWrite
  BY <1>1, <1>2 DEF C!OthersWrite
<1>3. CASE C!Edit
  BY <1>1, <1>3, CouplePageEdits
<1>4. ASSUME NEW c \in Calls, C!Click(c) PROVE CoupleBusy'
  <2>1. page \in C!CouplePage
    BY DEF CoupleTyped
  <2>2. PICK op, arg : /\ Changes(c, op, "sent", arg, None)
                       /\ op = "save" => ~page.saving /\ page' = [page EXCEPT !.saving = TRUE]
    BY <1>4, CoupleClicks
  <2>3. op = "save" => ~page.saving /\ page'.saving
    BY <2>1, <2>2 DEF C!CouplePage
  <2>4. page.saving => page'.saving
    BY <1>4, CouplePageClicks
  <2> QED
    BY <2>2, <2>3, <2>4 DEF CoupleBusy, Changes
<1>5. ASSUME NEW c \in Calls, C!Operate(c) \/ C!Read(c) PROVE CoupleBusy'
  <2>1. UNCHANGED page
    BY <1>5 DEF C!Operate, C!Read
  <2>2. \E at, arg, got : Changes(c, call[c].op, at, arg, got)
    BY <1>5, CoupleOperated, GalleryRead
  <2> QED
    BY <2>1, <2>2 DEF CoupleBusy, Changes
<1>6. ASSUME NEW c \in Calls,
             \/ C!OperationFails(c) \/ C!Saved(c) \/ C!Operated(c)
             \/ C!LoadFails(c) \/ C!Loaded(c)
      PROVE  CoupleBusy'
  <2>1. page.saving /\ call[c].op # "save" => page'.saving
    BY <1>6, CouplePageAnswers
  <2>2. \E op \in {"none", "upload"} : \E at, arg, got : Changes(c, op, at, arg, got)
    BY <1>6, CoupleAnswers
  <2> QED
    BY <2>1, <2>2 DEF CoupleBusy, Changes
<1> QED
  BY <1>2, <1>3, <1>4, <1>5, <1>6 DEF C!Next, C!Progress

LEMMA CoupleStepShows ==
  ASSUME CoupleTyped, CoupleShows, C!Next
  PROVE  CoupleShows'
<1> USE CoupleIsVisit
<1>0. /\ page \in C!CouplePage /\ server \in C!Galleries /\ page'.about = page.about
      /\ \A c \in Calls : CoupleArg(call[c].op, call[c].arg)
      /\ page.list \in Shots /\ server.photo \in Shots
  BY CoupleStepTyped DEF CoupleTyped, C!CouplePage, C!Galleries, Shots
<1>1. SUFFICES ASSUME ~disturbed', page.about = "gallery"
               PROVE  GalleryShown'
  BY <1>0 DEF CoupleShows, GalleryShown
<1>2. CASE C!OthersWrite
  BY <1>1, <1>2 DEF C!OthersWrite
<1>3. CASE C!Edit
  <2>1. UNCHANGED <<server, call, disturbed>> /\ page'.list = page.list
    BY <1>3, CouplePageEdits
  <2>2. Alone /\ (\A c \in Calls : GalleryFits(c)) /\ (Quiet => ListsAll)
    BY <1>1, <2>1 DEF CoupleShows, GalleryShown
  <2> QED
    BY <2>1, <2>2 DEF GalleryShown, Alone, GalleryFits, ListsAll, ListsOthers, C!Served, Quiet
(* The one call there is has been sent or answered.                         *)
<1>4. ASSUME NEW c \in Calls, NEW op, NEW at, NEW arg, NEW got,
             Changes(c, op, at, arg, got), op # "none",
             \A d \in Calls : d # c => call'[d].op = "none",
             GalleryFits(c)'
      PROVE  GalleryShown'
  <2>1. ~Quiet' /\ Alone'
    BY <1>4 DEF Quiet, Changes, Idle, Alone
  <2>2. \A d \in Calls : d # c => GalleryFits(d)'
    BY <1>4 DEF GalleryFits, C!Served
  <2> QED
    BY <1>4, <2>1, <2>2 DEF GalleryShown
<1>5. ASSUME NEW c \in Calls, C!Click(c)
      PROVE  GalleryShown'
  <2>1. PICK op, arg :
          /\ op \in C!Operations
          /\ Changes(c, op, "sent", arg, None) /\ (op = "upload" => page.about = "upload")
    BY <1>5, CoupleClicks
  <2>2. \E o, a : Send(c, o, a)
    BY <1>5 DEF C!Click, C!handleDownloadEventZip, C!saveCaption, C!handleDelete, C!onDrop
  <2>3. ~disturbed /\ Quiet /\ \A d \in Calls : d # c => call'[d].op = "none"
    BY <1>1, <2>1, <2>2, AloneBegins DEF Changes
  <2>4. ListsAll'
    <3>1. UNCHANGED server
      BY <1>5 DEF C!Click, C!handleDownloadEventZip, C!saveCaption, C!handleDelete, C!onDrop
    <3>2. page'.list = page.list
      BY <1>5, CouplePageClicks
    <3> QED
      BY <1>1, <2>3, <3>1, <3>2 DEF CoupleShows, GalleryShown, ListsAll
  <2>5. GalleryFits(c)'
    BY <1>1, <2>1, <2>4 DEF GalleryFits, C!Served, Changes
  <2>6. op # "none"
    BY <2>1 DEF C!Operations
  <2> QED
    BY <1>4, <2>1, <2>3, <2>5, <2>6
<1>6. ASSUME NEW c \in Calls, call[c].op # "none", ~disturbed,
             NEW op, NEW at, NEW arg, NEW got, Changes(c, op, at, arg, got)
      PROVE  GalleryFits(c) /\ \A d \in Calls : d # c => call'[d].op = "none"
  BY <1>1, <1>6, AloneGoesOn DEF CoupleShows, GalleryShown
<1>7. ASSUME NEW c \in Calls, C!Operate(c)
      PROVE  GalleryShown'
  <2>1. /\ call[c].op \in C!Operations /\ call[c].op # "none" /\ call[c].at = "sent"
        /\ UNCHANGED <<page, disturbed>>
    BY <1>7, CoupleOperated DEF C!Operate, C!Operations
  <2>2. PICK at, got :
          /\ at \in {"served", "refused"}
          /\ Changes(c, call[c].op, at, call[c].arg, got)
    BY <1>7, CoupleOperated
  <2>3. GalleryFits(c) /\ \A d \in Calls : d # c => call'[d].op = "none"
    BY <1>1, <1>6, <2>1, <2>2
  <2>4. ListsAll /\ call[c].op # "upload"
    BY <2>1, <2>3 DEF GalleryFits, C!Operations
  <2> DEFINE arg == call[c].arg
             of == call[c].arg.of
  <2>5. GalleryFits(c)'
    <3>0. Serve(c, None) => Changes(c, call[c].op, "served", arg, None)
      BY <2>1, ServeChanges DEF CoupleTyped, CoupleCallsAre
    <3>1. CASE C!Sent(c, "save") /\ C!WriteCaption(of, arg.text) /\ Serve(c, None)
      <4>1. of \in Photos /\ arg.text \in Captions
        BY <1>0, <3>1 DEF CoupleArg, SaveArgs, C!Sent
      <4>2. server'.photo = [server.photo EXCEPT ![of] = arg.text] /\ server.photo[of] # C!Gone
        BY <1>0, <3>1 DEF C!WriteCaption, C!Galleries, C!photo
      <4>3. /\ \A q \in Photos : q # of => page'.list[q] = server'.photo[q]
            /\ server'.photo[of] = arg.text /\ page'.list[of] # C!Gone
        BY <1>0, <2>1, <2>4, <4>1, <4>2 DEF ListsAll, Shots
      <4> QED
        BY <3>0, <3>1, <4>3 DEF GalleryFits, ListsOthers, C!Served, C!Sent, Changes
    <3>2. CASE C!Sent(c, "delete") /\ C!DeletePhoto(of) /\ Serve(c, None)
      <4>1. of \in Photos
        BY <1>0, <3>2 DEF CoupleArg, DeleteArgs, C!Sent
      <4>2. server'.photo = [server.photo EXCEPT ![of] = C!Gone]
        BY <1>0, <3>2 DEF C!DeletePhoto, C!Galleries
      <4>3. /\ \A q \in Photos : q # of => page'.list[q] = server'.photo[q]
            /\ server'.photo[of] = C!Gone
        BY <1>0, <2>1, <2>4, <4>1, <4>2 DEF ListsAll, Shots
      <4> QED
        BY <3>0, <3>2, <4>3 DEF GalleryFits, ListsOthers, C!Served, C!Sent, Changes
    <3>3. CASE C!Sent(c, "zip") /\ UNCHANGED server
      <4>1. ListsAll'
        BY <2>1, <2>4, <3>3 DEF ListsAll
      <4> QED
        BY <2>2, <3>3, <4>1 DEF GalleryFits, C!Served, C!Sent, Changes
    <3>4. CASE UNCHANGED server /\ Refuse(c)
      <4>1. ListsAll'
        BY <2>1, <2>4, <3>4 DEF ListsAll
      <4>2. Changes(c, call[c].op, "refused", arg, call[c].got)
        BY <2>1, <3>4, RefuseChanges DEF CoupleTyped, CoupleCallsAre
      <4> QED
        BY <2>1, <2>4, <4>1, <4>2 DEF GalleryFits, C!Served, Changes, C!Operations
    <3> QED
      BY <1>7, <2>4, <3>1, <3>2, <3>3, <3>4 DEF C!Operate, C!Sent
  <2> QED
    BY <1>4, <2>1, <2>2, <2>3, <2>5
<1>8. ASSUME NEW c \in Calls, C!Read(c)
      PROVE  GalleryShown'
  <2>1. PICK got : /\ Changes(c, "load", "served", call[c].arg, got)
                   /\ got = server.photo /\ call[c].op = "load"
    BY <1>1, <1>8, GalleryRead
  <2>2. UNCHANGED <<server, disturbed>>
    BY <1>8 DEF C!Read
  <2>3. \A d \in Calls : d # c => call'[d].op = "none"
    BY <1>1, <1>6, <2>1, <2>2
  <2> QED
    BY <1>4, <2>1, <2>2, <2>3 DEF GalleryFits, C!Served, Changes
<1>9. CASE \E c \in Calls : C!OperationFails(c) \/ C!LoadFails(c)
  BY <1>1, <1>9 DEF C!OperationFails, C!LoadFails
<1>10. ASSUME NEW c \in Calls, C!Saved(c) \/ C!Operated(c) \/ C!Loaded(c)
       PROVE  GalleryShown'
  <2>1. UNCHANGED <<server, disturbed>> /\ call[c].op # "none"
    BY <1>10, CoupleAnswers DEF C!Saved, C!Operated, C!Loaded
  <2>2. GalleryFits(c)
    BY <1>1, <2>1 DEF CoupleShows, GalleryShown
  <2>3. Changes(c, "none", "idle", None, None)
    BY <1>10, <2>2, CoupleAnswers DEF GalleryFits
  <2>4. \A d \in Calls : call'[d].op = "none"
    BY <1>1, <1>6, <2>1, <2>3 DEF Changes
  <2>5. ListsAll'
    <3> DEFINE arg == call[c].arg
               of == call[c].arg.of
    <3>1. CASE C!Saved(c)
      <4>1. /\ ListsOthers(of) /\ server.photo[of] = arg.text /\ page.list[of] # C!Gone
            /\ of \in Photos
        BY <1>0, <2>2, <3>1 DEF C!Saved, C!Served, GalleryFits, CoupleArg, SaveArgs
      <4>2. page'.list = [page.list EXCEPT ![of] = IF @ = C!Gone THEN C!Gone ELSE arg.text]
        BY <3>1, CouplePageAnswers
      <4> QED
        BY <1>0, <2>1, <4>1, <4>2 DEF ListsAll, ListsOthers, Shots
    <3>2. CASE C!Operated(c) /\ call[c].op = "delete"
      <4>1. ListsOthers(of) /\ server.photo[of] = C!Gone /\ of \in Photos
        BY <1>0, <2>2, <3>2 DEF C!Operated, C!Served, GalleryFits, CoupleArg, DeleteArgs
      <4>2. page'.list = [page.list EXCEPT ![of] = C!Gone]
        BY <3>2, CouplePageAnswers
      <4> QED
        BY <1>0, <2>1, <4>1, <4>2 DEF ListsAll, ListsOthers, Shots
    <3>3. CASE C!Operated(c) /\ call[c].op # "delete"
      <4>1. ListsAll
        BY <2>2, <3>3 DEF C!Operated, C!Served, GalleryFits
      <4> QED
        BY <2>1, <3>3, <4>1, CouplePageAnswers DEF ListsAll
    <3>4. CASE C!Loaded(c)
      <4>1. call[c].got = server.photo
        BY <2>2, <3>4 DEF C!Loaded, GalleryFits
      <4> QED
        BY <1>1, <2>1, <3>4, <4>1, CouplePageAnswers DEF ListsAll
    <3> QED
      BY <1>10, <3>1, <3>2, <3>3, <3>4
  <2> QED
    BY <2>4, <2>5 DEF GalleryShown, Alone, GalleryFits, C!Served
<1> QED
  BY <1>2, <1>3, <1>5, <1>7, <1>8, <1>9, <1>10 DEF C!Next, C!Progress

LEMMA CoupleBegins == C!Init => CoupleTyped /\ CoupleBusy /\ CoupleShows
<1> SUFFICES ASSUME C!Init PROVE CoupleTyped /\ CoupleBusy /\ CoupleShows
  OBVIOUS
<1>1. /\ CoupleCallsAre /\ Alone /\ ~Quiet
      /\ \A c \in Calls : call[c].op \in {"none", "load"} /\ call[c].at # "served"
      /\ disturbed = FALSE /\ left = MaxInputs
  <2>1. VisitInit
    BY CoupleIsVisit DEF C!Init
  <2> QED
    BY <2>1, VisitBegins, VisitCalls DEF CoupleCallsAre
<1> DEFINE first == CHOOSE t \in Captions : TRUE
<1>2. first \in Captions
  BY CaptionsAreText
<1>3. server \in [photo : [Photos -> {C!Gone, first}], removed : {{}}, valid : BOOLEAN]
  BY DEF C!Init
<1>4. page \in [about : {"gallery", "upload"} \cup Photos, list : {C!NothingKnown},
                loading : {TRUE}, error : {FALSE}, editing : {None}, text : {first},
                saving : {FALSE}, zip : {FALSE}, item : {[p \in Photos |-> "none"]}]
  BY DEF C!Init
<1> HIDE DEF first
<1>5. server \in C!Galleries
  BY <1>2, <1>3 DEF C!Galleries, C!Values
<1>6. page \in C!CouplePage
  <2>1. /\ C!NothingKnown \in [Photos -> C!Values]
        /\ [p \in Photos |-> "none"] \in [Photos -> C!Statuses]
    BY DEF C!NothingKnown, C!Values, C!Statuses
  <2> QED
    BY <1>2, <1>4, <2>1 DEF C!CouplePage
<1>7. CoupleTyped
  <2>1. left \in 0..MaxInputs
    BY <1>1, InputsAreNat
  <2> QED
    BY <1>1, <1>5, <1>6, <2>1 DEF CoupleTyped, CoupleArg, CoupleGot
<1>8. CoupleBusy
  BY <1>1 DEF CoupleBusy
<1>9. CoupleShows
  BY <1>1 DEF CoupleShows, GalleryShown, GalleryFits, C!Served
<1> QED
  BY <1>7, <1>8, <1>9

LEMMA CoupleHolds ==
  ASSUME CoupleTyped, CoupleBusy, CoupleShows
  PROVE  C!TypeOK /\ C!OneAtATime /\ C!ShowsOwnWork
<1>1. C!TypeOK
  BY DEF CoupleTyped, CoupleCallsAre, CallsTyped, C!TypeOK, DeleteArgs, SaveArgs, DropArgs,
    Shots, C!CallsOf, CallsOf
<1>2. C!OneAtATime
  <2>1. \A x, y \in {c \in Calls : call[c].op = "save"} : x = y
    BY DEF CoupleBusy
  <2>2. \A X : C!Cardinality(X) = Cardinality(X)
    BY DEF C!Cardinality, Cardinality
  <2> QED
    BY <2>1, <2>2, AtMostOne DEF C!OneAtATime
<1>3. C!ShowsOwnWork
  BY CoupleIsVisit DEF CoupleShows, GalleryShown, C!ShowsOwnWork, ListsAll, C!photo
<1> QED
  BY <1>1, <1>2, <1>3

-----------------------------------------------------------------------------
(* Mail settings: as long as nothing overlapped there is one call at most,  *)
(* and a test that has read the row is a test of the row as it is.          *)
MailIs == \E V : server \in [row : V, verified : BOOLEAN, passed : V]

TestsTheRow(c) ==
  call[c].op = "test" /\ call[c].at = "sent" /\ call[c].arg # None =>
    call[c].arg.row = server.row /\ call[c].arg.verified = server.verified

SmtpInv ==
  /\ CallsAre /\ MailIs
  /\ ~disturbed => /\ Alone
                   /\ server.verified => server.passed = server.row
                   /\ \A c \in Calls : TestsTheRow(c)

LEMMA SmtpVisits ==
  /\ \A c, r : S!SetCall(c, r) => SetCall(c, r)
  /\ \A c, op, arg : S!Send(c, op, arg) => Send(c, op, arg)
  /\ \A c, got : S!Serve(c, got) => Serve(c, got)
  /\ \A c : S!Refuse(c) => Refuse(c)
  /\ S!Idle = Idle /\ S!Loading = Loading
  /\ S!VisitInit => VisitInit
  BY DEF S!SetCall, SetCall, S!Send, Send, S!Serve, Serve, S!Refuse, Refuse,
    S!Idle, Idle, S!Loading, Loading, S!VisitInit, VisitInit, S!Spend, Spend,
    S!Quiet, Quiet

(* A call ends or is answered, and the row stays as it is.                  *)
LEMMA SmtpCalls ==
  ASSUME SmtpInv, NEW c \in Calls, UNCHANGED server, disturbed => disturbed', CallsAre',
         \A d \in Calls : d # c => call'[d] = call[d],
         call'[c].op \in {"none", call[c].op}, call'[c].at # "sent"
  PROVE  SmtpInv'
<1>1. MailIs'
  BY DEF SmtpInv, MailIs
<1>2. ASSUME ~disturbed' PROVE Alone' /\ \A d \in Calls : TestsTheRow(d)'
  BY <1>2 DEF SmtpInv, Alone, TestsTheRow
<1> QED
  BY <1>1, <1>2 DEF SmtpInv

LEMMA SmtpSends ==
  ASSUME SmtpInv, NEW c \in Calls, NEW op, NEW arg, S!Send(c, op, arg),
         op = "test" => arg = None, UNCHANGED server
  PROVE  SmtpInv'
<1>1. CallsAre' /\ Becomes(c, op, "sent", arg)
  BY SmtpVisits, Begins DEF SmtpInv
<1>2. MailIs'
  BY DEF SmtpInv, MailIs
<1>3. ASSUME ~disturbed'
      PROVE  /\ ~disturbed /\ Alone' /\ \A d \in Calls : TestsTheRow(d)'
  <2>1. ~disturbed /\ \A d \in Calls : call[d] = S!Idle
    BY <1>3 DEF S!Send, S!Quiet
  <2>2. \A d \in Calls : d # c => call'[d].op = "none"
    BY <1>1, <2>1 DEF Becomes, S!Idle
  <2> QED
    BY <1>1, <2>1, <2>2 DEF Alone, TestsTheRow, Becomes
<1> QED
  BY <1>1, <1>2, <1>3 DEF SmtpInv

(* Settings are saved: a test in flight would be of others.                 *)
LEMMA SaveKeeps ==
  ASSUME SmtpInv, NEW s, S!SaveAsync(s),
         \/ UNCHANGED call /\ disturbed'
         \/ \E c \in Calls : S!Sent(c, "save") /\ S!Serve(c, None) /\ UNCHANGED disturbed
  PROVE  SmtpInv'
<1>1. PICK V : server \in [row : V, verified : BOOLEAN, passed : V]
  BY DEF SmtpInv, MailIs
<1>2. MailIs' /\ server'.verified = FALSE
  <2>1. server \in [row : V \cup {s}, verified : BOOLEAN, passed : V \cup {s}]
    BY <1>1
  <2>2. server' = [server EXCEPT !.row = s, !.verified = FALSE]
    BY DEF S!SaveAsync
  <2>3. /\ server' \in [row : V \cup {s}, verified : BOOLEAN, passed : V \cup {s}]
        /\ server'.verified = FALSE
    BY <2>1, <2>2
  <2> QED
    BY <2>3 DEF MailIs
<1>3. CASE UNCHANGED call /\ disturbed'
  BY <1>2, <1>3 DEF SmtpInv, CallsAre
<1>4. ASSUME NEW c \in Calls, S!Sent(c, "save"), S!Serve(c, None), UNCHANGED disturbed
      PROVE  SmtpInv'
  <2>1. CallsAre' /\ Becomes(c, "save", "served", call[c].arg) /\ call[c].op = "save"
    BY <1>4, SmtpVisits, IsServed DEF SmtpInv, S!Sent
  <2>2. ASSUME ~disturbed' PROVE Alone' /\ \A d \in Calls : TestsTheRow(d)'
    <3>1. Alone
      BY <1>4, <2>2 DEF SmtpInv
    <3>2. \A d \in Calls : d # c => call'[d].op = "none"
      BY <2>1, <3>1 DEF Alone, Becomes
    <3> QED
      BY <2>1, <3>2 DEF Alone, TestsTheRow, Becomes
  <2> QED
    BY <1>2, <2>1, <2>2 DEF SmtpInv
<1> QED
  BY <1>3, <1>4

LEMMA TestReadKeeps ==
  ASSUME SmtpInv, NEW c \in Calls, S!TestRead(c)
  PROVE  SmtpInv'
<1>1. UNCHANGED <<server, disturbed>> /\ call[c].op = "test"
  BY DEF S!TestRead, S!Sent
<1>2. CASE server.row = None
  <2>1. CallsAre' /\ Becomes(c, call[c].op, "refused", call[c].arg)
    BY <1>2, SmtpVisits, IsRefused DEF SmtpInv, S!TestRead
  <2> QED
    BY <1>1, <2>1, SmtpCalls DEF Becomes
<1>3. CASE server.row # None
  <2> DEFINE read == [row |-> server.row, verified |-> server.verified]
             r == [call[c] EXCEPT !.arg = read]
  <2>1. PICK V : call \in [Calls -> CallOf(V)]
    BY DEF SmtpInv, CallsAre
  <2> DEFINE W == V \cup {read}
  <2>2. call[c] \in CallOf(W) /\ read \in W
    BY <2>1 DEF CallOf
  <2>3. SetCall(c, r)
    BY <1>3, SmtpVisits DEF S!TestRead
  <2>4. read.row = server.row /\ read.verified = server.verified
    OBVIOUS
  <2> HIDE DEF W, read
  <2>5. r \in CallOf(W) /\ r.op = "test" /\ r.arg = read
    BY <1>1, <2>2 DEF CallOf
  <2> HIDE DEF r
  <2>6. CallsAre' /\ Becomes(c, "test", r.at, read)
    BY <2>3, <2>5, CallBecomes DEF SmtpInv
  <2>7. ASSUME ~disturbed' PROVE Alone' /\ \A d \in Calls : TestsTheRow(d)'
    <3>1. Alone /\ \A d \in Calls : TestsTheRow(d)
      BY <1>1, <2>7 DEF SmtpInv
    <3>2. Alone'
      BY <1>1, <2>6, <3>1 DEF Alone, Becomes
    <3>3. ASSUME NEW d \in Calls PROVE TestsTheRow(d)'
      BY <1>1, <2>4, <2>6, <3>1 DEF TestsTheRow, Becomes
    <3> QED
      BY <3>2, <3>3
  <2> QED
    BY <1>1, <2>6, <2>7 DEF SmtpInv, MailIs
<1> QED
  BY <1>2, <1>3

(* A test has ended: alone, it read the row as it is.                       *)
LEMMA TestWriteKeeps ==
  ASSUME SmtpInv, NEW c \in Calls, NEW passes \in BOOLEAN, S!TestWrite(c, passes)
  PROVE  SmtpInv'
<1> DEFINE read == call[c].arg
           verified == IF passes # read.verified THEN passes ELSE server.verified
           passed == IF passes THEN read.row ELSE server.passed
<1>1. /\ server' = [server EXCEPT !.verified = verified, !.passed = passed]
      /\ UNCHANGED disturbed /\ read # None /\ call[c].op = "test" /\ call[c].at = "sent"
      /\ S!Serve(c, None) \/ S!Refuse(c)
  BY DEF S!TestWrite, S!Sent
<1>2. PICK V : server \in [row : V, verified : BOOLEAN, passed : V]
  BY DEF SmtpInv, MailIs
<1>3. verified \in BOOLEAN
  BY <1>2
<1>4. /\ ~disturbed => /\ read.row = server.row /\ read.verified = server.verified
                       /\ verified = passes
                       /\ verified => passed = server.row
  BY <1>1 DEF SmtpInv, TestsTheRow
<1> HIDE DEF verified, passed
<1>5. MailIs' /\ server'.verified = verified /\ server'.passed = passed
      /\ server'.row = server.row
  <2> DEFINE W == V \cup {passed}
  <2>1. server \in [row : W, verified : BOOLEAN, passed : W] /\ passed \in W
    BY <1>2
  <2> HIDE DEF W
  <2>2. /\ server' \in [row : W, verified : BOOLEAN, passed : W]
        /\ server'.verified = verified /\ server'.passed = passed
        /\ server'.row = server.row
    BY <1>1, <1>3, <2>1
  <2> QED
    BY <2>2 DEF MailIs
<1>6. CallsAre' /\ \E at \in {"served", "refused"} : Becomes(c, "test", at, read)
  BY <1>1, SmtpVisits, IsServed, IsRefused DEF SmtpInv
<1>7. ASSUME ~disturbed' PROVE Alone' /\ \A d \in Calls : TestsTheRow(d)'
  <2>1. Alone
    BY <1>1, <1>7 DEF SmtpInv
  <2>2. \A d \in Calls : d # c => call'[d].op = "none"
    BY <1>1, <1>6, <2>1 DEF Alone, Becomes
  <2>3. call'[c].at # "sent"
    BY <1>6 DEF Becomes
  <2> QED
    BY <2>2, <2>3 DEF Alone, TestsTheRow
<1> QED
  BY <1>1, <1>4, <1>5, <1>6, <1>7 DEF SmtpInv

LEMMA SmtpStepKeeps ==
  ASSUME SmtpInv, S!Next
  PROVE  SmtpInv'
<1>1. ASSUME NEW s \in Settings, S!Type(s) PROVE SmtpInv'
  BY <1>1 DEF S!Type, SmtpInv, CallsAre, MailIs, Alone, TestsTheRow
<1>2. CASE S!OthersWrite
  BY <1>2, SaveKeeps DEF S!OthersWrite
<1>3. ASSUME NEW c \in Calls, S!onSave(c) \/ S!onTest(c) PROVE SmtpInv'
  <2>1. CASE S!onSave(c)
    BY <2>1, SmtpSends DEF S!onSave
  <2>2. CASE S!onTest(c)
    BY <2>2, SmtpSends DEF S!onTest
  <2> QED
    BY <1>3, <2>1, <2>2
<1>4. ASSUME NEW c \in Calls, S!SaveRow(c) PROVE SmtpInv'
  BY <1>4, SaveKeeps DEF S!SaveRow
<1>5. ASSUME NEW c \in Calls, S!ReadRow(c) PROVE SmtpInv'
  <2>1. CallsAre' /\ Becomes(c, call[c].op, "served", call[c].arg)
    BY <1>5, SmtpVisits, IsServed DEF SmtpInv, S!ReadRow
  <2> QED
    BY <1>5, <2>1, SmtpCalls DEF S!ReadRow, Becomes
<1>6. ASSUME NEW c \in Calls, S!CallFails(c) \/ S!Loaded(c) \/ S!Done(c) PROVE SmtpInv'
  <2>1. S!SetCall(c, S!Idle) /\ UNCHANGED server /\ (disturbed => disturbed')
    <3>1. CASE S!CallFails(c)
      <4>1. disturbed' = (disturbed \/ call[c].op = "load" \/ call[c].at # "refused")
        BY <3>1 DEF S!CallFails
      <4>2. disturbed => disturbed'
        BY <4>1, Zenon
      <4> QED
        BY <3>1, <4>2 DEF S!CallFails
    <3>2. CASE S!Loaded(c)
      BY <3>2 DEF S!Loaded
    <3>3. CASE S!Done(c)
      BY <3>3 DEF S!Done
    <3> QED
      BY <1>6, <3>1, <3>2, <3>3
  <2>2. CallsAre' /\ Becomes(c, "none", "idle", None)
    BY <2>1, SmtpVisits, Ends DEF SmtpInv
  <2> QED
    BY <2>1, <2>2, SmtpCalls DEF Becomes
<1> QED
  BY <1>1, <1>2, <1>3, <1>4, <1>5, <1>6, TestReadKeeps, TestWriteKeeps DEF S!Next, S!Progress

LEMMA SmtpBegins == S!Init => SmtpInv
<1> SUFFICES ASSUME S!Init PROVE SmtpInv
  OBVIOUS
<1>1. VisitInit /\ CallsAre /\ \A c \in Calls : call[c].op \in {"none", "load"}
  BY FirstCalls, SmtpVisits DEF S!Init
<1>2. Alone /\ \A c \in Calls : TestsTheRow(c)
  BY <1>1 DEF VisitInit, Alone, TestsTheRow, Idle
<1>3. MailIs
  BY DEF S!Init, MailIs
<1>4. server.verified => server.passed = server.row
  BY DEF S!Init
<1> QED
  BY <1>1, <1>2, <1>3, <1>4 DEF SmtpInv

(* Codes are asked for by settings that were tested: unless a save overlaps *)
(* a test, what a test has enabled is what it tested.                       *)
THEOREM VerifiedByItsTest == Spec => []VerifiedIsTested
<1> DEFINE Inv == visit = "smtp" => SmtpInv
<1>1. Init => Inv
  BY SmtpBegins DEF Init
<1>2. Inv /\ [Next]_<<visit, vars>> => Inv'
  <2> SUFFICES ASSUME Inv, [Next]_<<visit, vars>>, visit' = "smtp"
               PROVE  SmtpInv'
    OBVIOUS
  <2>1. CASE SmtpStep
    BY <2>1, SmtpStepKeeps DEF SmtpStep
  <2>2. CASE UNCHANGED <<visit, vars>>
    BY <2>2 DEF vars, SmtpInv, CallsAre, MailIs, Alone, TestsTheRow
  <2>3. CASE Next /\ ~SmtpStep
    BY <2>3 DEF Next, DeviceStep, EventStep, CoupleStep, PasswordStep, ConsoleStep
  <2> QED
    BY <2>1, <2>2, <2>3
<1>3. Inv => VerifiedIsTested
  BY DEF SmtpInv, VerifiedIsTested, S!VerifiedIsTested
<1> QED
  BY <1>1, <1>2, <1>3, PTL DEF Spec

-----------------------------------------------------------------------------
(* The page of the mail settings: what it has at work, and what it knows of *)
(* the flag of the server.                                                  *)
SmtpPageIs ==
  [form : Settings, loading : BOOLEAN, saving : BOOLEAN,
   testing : BOOLEAN, otpReady : BOOLEAN, error : BOOLEAN]

SmtpArgs == [row : Settings, verified : BOOLEAN]

SmtpReads == [row : Settings \cup {None}, verified : BOOLEAN]

SmtpCallsAre == CallsTyped({"load", "save", "test"}, SmtpArgs, SmtpReads)

(* The types of a visit: a save is of settings, a load that is answered has *)
(* read the row.                                                            *)
SmtpTyped ==
  /\ server \in S!Stores /\ page \in SmtpPageIs
  /\ SmtpCallsAre
  /\ disturbed \in BOOLEAN /\ left \in 0..MaxInputs
  /\ \A c \in Calls : /\ call[c].op = "save" => call[c].arg \in SmtpArgs
                      /\ S!Served(c, "load") => call[c].got \in SmtpReads

(* The flags of the page tell what it waits for.                            *)
SmtpBusy ==
  /\ \A c \in Calls : /\ call[c].op = "save" => page.saving
                      /\ call[c].op = "test" => page.testing
  /\ \A c, d \in Calls :
       call[c].op \in {"save", "test"} /\ call[d].op = call[c].op => c = d

(* What is known of the flag of the server when a call has been served.     *)
SmtpFits(c) ==
  /\ S!Served(c, "load") => call[c].got.verified = server.verified
  /\ S!Served(c, "save") => ~server.verified
  /\ S!Served(c, "test") => server.verified

SmtpShows ==
  ~disturbed =>
    /\ \A c \in Calls : SmtpFits(c)
    /\ Quiet /\ ~page.error => page.otpReady = server.verified

LEMMA SmtpIsVisit ==
  /\ \A c, r : S!SetCall(c, r) <=> SetCall(c, r)
  /\ \A c, op, arg : S!Send(c, op, arg) <=> Send(c, op, arg)
  /\ \A c, got : S!Serve(c, got) <=> Serve(c, got)
  /\ \A c : S!Refuse(c) <=> Refuse(c)
  /\ S!Idle = Idle /\ S!Loading = Loading
  /\ S!VisitInit <=> VisitInit
  /\ S!Quiet <=> Quiet
  /\ S!Spend <=> Spend
  BY DEF S!SetCall, SetCall, S!Send, Send, S!Serve, Serve, S!Refuse, Refuse,
    S!Idle, Idle, S!Loading, Loading, S!VisitInit, VisitInit, S!Spend, Spend,
    S!Quiet, Quiet

(* What each step makes of its call.                                        *)
LEMMA SmtpCallSteps ==
  ASSUME SmtpTyped, NEW c \in Calls
  PROVE  /\ S!onSave(c) => /\ SmtpCallsAre' /\ call[c].op = "none"
                           /\ \E arg \in SmtpArgs : Changes(c, "save", "sent", arg, None)
         /\ S!onTest(c) => /\ SmtpCallsAre' /\ call[c].op = "none"
                           /\ Changes(c, "test", "sent", None, None)
         /\ S!SaveRow(c) => /\ SmtpCallsAre' /\ call[c].op = "save"
                            /\ Changes(c, "save", "served", call[c].arg, None)
         /\ S!TestRead(c) => /\ SmtpCallsAre' /\ call[c].op = "test"
                             /\ \E at \in {"sent", "refused"} : \E arg, got :
                                  Changes(c, "test", at, arg, got)
         /\ \A passes \in BOOLEAN : S!TestWrite(c, passes) =>
              /\ SmtpCallsAre' /\ call[c].op = "test"
              /\ passes => \E arg, got : Changes(c, "test", "served", arg, got)
              /\ ~passes => \E arg, got : Changes(c, "test", "refused", arg, got)
         /\ S!ReadRow(c) => /\ SmtpCallsAre' /\ call[c].op = "load"
                            /\ \E got \in SmtpReads :
                                 /\ Changes(c, "load", "served", call[c].arg, got)
                                 /\ got.verified = server.verified
         /\ S!CallFails(c) \/ S!Loaded(c) \/ S!Done(c) =>
              /\ SmtpCallsAre' /\ call[c].op # "none"
              /\ Changes(c, "none", "idle", None, None)
<1> USE SmtpIsVisit DEF SmtpCallsAre
<1>0. SmtpCallsAre /\ page \in SmtpPageIs /\ server \in S!Stores
  BY DEF SmtpTyped
<1>1. ASSUME S!onSave(c)
      PROVE  /\ SmtpCallsAre' /\ call[c].op = "none"
             /\ \E arg \in SmtpArgs : Changes(c, "save", "sent", arg, None)
  <2> DEFINE arg == [row |-> page.form, verified |-> FALSE]
  <2>1. arg \in SmtpArgs
    BY <1>0 DEF SmtpArgs, SmtpPageIs
  <2>2. Send(c, "save", arg)
    BY <1>1 DEF S!onSave
  <2> HIDE DEF arg
  <2> QED
    BY <1>0, <2>1, <2>2, SendChanges
<1>2. ASSUME S!onTest(c)
      PROVE  /\ SmtpCallsAre' /\ call[c].op = "none"
             /\ Changes(c, "test", "sent", None, None)
  BY <1>0, <1>2, SendChanges DEF S!onTest
<1>3. ASSUME S!SaveRow(c)
      PROVE  /\ SmtpCallsAre' /\ call[c].op = "save"
             /\ Changes(c, "save", "served", call[c].arg, None)
  BY <1>0, <1>3, ServeChanges DEF S!SaveRow, S!Sent
<1>4. ASSUME S!TestRead(c)
      PROVE  /\ SmtpCallsAre' /\ call[c].op = "test"
             /\ \E at \in {"sent", "refused"} : \E arg, got :
                  Changes(c, "test", at, arg, got)
  <2>1. call[c].op = "test" /\ call[c].at = "sent"
    BY <1>4 DEF S!TestRead, S!Sent
  <2>2. CASE server.row = None
    BY <1>0, <1>4, <2>1, <2>2, RefuseChanges DEF S!TestRead
  <2>3. CASE server.row # None
    <3> DEFINE arg == [row |-> server.row, verified |-> server.verified]
               r == [call[c] EXCEPT !.arg = arg]
               R == [op : {"load", "save", "test"} \cup {"none"},
                     at : {"idle", "sent", "served", "refused"},
                     arg : SmtpArgs \cup {None}, got : SmtpReads \cup {None}]
    <3>1. SetCall(c, r)
      BY <1>4, <2>3 DEF S!TestRead
    <3>2. arg \in SmtpArgs
      BY <1>0, <2>3 DEF SmtpArgs, S!Stores
    <3> HIDE DEF arg
    <3>3. call[c] \in R
      BY <1>0 DEF CallsTyped, CallsOf
    <3>4. r \in R /\ r.op = "test" /\ r.at = "sent" /\ r.arg = arg /\ r.got = call[c].got
      BY <2>1, <3>2, <3>3
    <3> HIDE DEF r
    <3>5. SmtpCallsAre' /\ Changes(c, r.op, r.at, r.arg, r.got)
      BY <1>0, <3>1, <3>4, CallChanges
    <3> QED
      BY <2>1, <3>4, <3>5
  <2> QED
    BY <2>2, <2>3
<1>5. ASSUME NEW passes \in BOOLEAN, S!TestWrite(c, passes)
      PROVE  /\ SmtpCallsAre' /\ call[c].op = "test"
             /\ passes => \E arg, got : Changes(c, "test", "served", arg, got)
             /\ ~passes => \E arg, got : Changes(c, "test", "refused", arg, got)
  BY <1>0, <1>5, ServeChanges, RefuseChanges DEF S!TestWrite, S!Sent
<1>6. ASSUME S!ReadRow(c)
      PROVE  /\ SmtpCallsAre' /\ call[c].op = "load"
             /\ \E got \in SmtpReads :
                  /\ Changes(c, "load", "served", call[c].arg, got)
                  /\ got.verified = server.verified
  <2> DEFINE got == [row |-> server.row, verified |-> server.verified]
  <2>1. got \in SmtpReads /\ got.verified = server.verified
    BY <1>0 DEF SmtpReads, S!Stores
  <2>2. Serve(c, got) /\ call[c].op = "load"
    BY <1>6 DEF S!ReadRow, S!Sent
  <2> HIDE DEF got
  <2> QED
    BY <1>0, <2>1, <2>2, ServeChanges
<1>7. ASSUME S!CallFails(c) \/ S!Loaded(c) \/ S!Done(c)
      PROVE  /\ SmtpCallsAre' /\ call[c].op # "none"
             /\ Changes(c, "none", "idle", None, None)
  BY <1>0, <1>7, EndChanges DEF S!CallFails, S!Loaded, S!Done, S!Served
<1> QED
  BY <1>1, <1>2, <1>3, <1>4, <1>5, <1>6, <1>7

LEMMA SmtpStepTyped ==
  ASSUME SmtpTyped, S!Next
  PROVE  SmtpTyped'
<1> USE SmtpIsVisit
<1>0. /\ SmtpCallsAre /\ page \in SmtpPageIs /\ server \in S!Stores
      /\ disturbed \in BOOLEAN /\ left \in 0..MaxInputs
      /\ \A c \in Calls : /\ call[c].op = "save" => call[c].arg \in SmtpArgs
                          /\ S!Served(c, "load") => call[c].got \in SmtpReads
  BY DEF SmtpTyped
<1>1. left' \in 0..MaxInputs
  <2>1. UNCHANGED left \/ Spend
    BY DEF S!Next, S!OthersWrite, S!Type, S!onSave, S!onTest, S!Progress, S!SaveRow,
      S!TestRead, S!TestWrite, S!ReadRow, S!CallFails, S!Loaded, S!Done, S!Send, S!Fails
  <2> QED
    BY <1>0, <2>1, InputSpent
<1>2. disturbed' \in BOOLEAN
  BY <1>0, Zenon DEF S!Next, S!OthersWrite, S!Type, S!onSave, S!onTest, S!Progress,
    S!SaveRow, S!TestRead, S!TestWrite, S!ReadRow, S!CallFails, S!Loaded, S!Done, S!Send
<1>3. server' \in S!Stores
  <2>1. ASSUME NEW s \in Settings, S!SaveAsync(s) PROVE server' \in S!Stores
    BY <1>0, <2>1 DEF S!SaveAsync, S!Stores
  <2>2. ASSUME NEW c \in Calls, S!SaveRow(c) PROVE server' \in S!Stores
    <3>1. call[c].arg.row \in Settings
      BY <1>0, <2>2 DEF S!SaveRow, S!Sent, SmtpArgs
    <3> QED
      BY <2>1, <2>2, <3>1 DEF S!SaveRow
  <2>3. ASSUME NEW c \in Calls, NEW passes \in BOOLEAN, S!TestWrite(c, passes)
        PROVE  server' \in S!Stores
    <3>1. call[c].arg \in SmtpArgs
      BY <1>0, <2>3 DEF S!TestWrite, SmtpCallsAre, CallsTyped, CallsOf
    <3> DEFINE verified == IF passes # call[c].arg.verified THEN passes ELSE server.verified
               passed == IF passes THEN call[c].arg.row ELSE server.passed
    <3>2. verified \in BOOLEAN /\ passed \in Settings \cup {None}
      BY <1>0, <3>1 DEF SmtpArgs, S!Stores
    <3>3. server' = [server EXCEPT !.verified = verified, !.passed = passed]
      BY <2>3 DEF S!TestWrite
    <3> HIDE DEF verified, passed
    <3> QED
      BY <1>0, <3>2, <3>3 DEF S!Stores
  <2>4. CASE UNCHANGED server
    BY <1>0, <2>4
  <2> QED
    BY <2>1, <2>2, <2>3, <2>4 DEF S!Next, S!OthersWrite, S!Type, S!onSave, S!onTest,
      S!Progress, S!TestRead, S!ReadRow, S!CallFails, S!Loaded, S!Done
<1>4. page' \in SmtpPageIs
  <2>1. ASSUME NEW s \in Settings, S!Type(s) PROVE page' \in SmtpPageIs
    BY <1>0, <2>1 DEF S!Type, SmtpPageIs
  <2>2. ASSUME NEW c \in Calls, S!onSave(c) \/ S!onTest(c) PROVE page' \in SmtpPageIs
    BY <1>0, <2>2 DEF S!onSave, S!onTest, SmtpPageIs
  <2>3. ASSUME NEW c \in Calls, S!CallFails(c) PROVE page' \in SmtpPageIs
    <3> DEFINE x == page.loading /\ call[c].op # "load"
               y == page.saving /\ call[c].op # "save"
               z == page.testing /\ call[c].op # "test"
    <3>1. x \in BOOLEAN /\ y \in BOOLEAN /\ z \in BOOLEAN
      OBVIOUS
    <3>2. page' = [page EXCEPT !.error = TRUE, !.loading = x, !.saving = y, !.testing = z]
      BY <2>3 DEF S!CallFails
    <3> HIDE DEF x, y, z
    <3> QED
      BY <1>0, <3>1, <3>2 DEF SmtpPageIs
  <2>4. ASSUME NEW c \in Calls, S!Loaded(c) PROVE page' \in SmtpPageIs
    <3>1. call[c].got \in SmtpReads
      BY <1>0, <2>4 DEF S!Loaded
    <3> DEFINE form == IF call[c].got.row = None THEN page.form ELSE call[c].got.row
    <3>2. form \in Settings /\ call[c].got.verified \in BOOLEAN
      BY <1>0, <3>1 DEF SmtpReads, SmtpPageIs
    <3>3. page' = [page EXCEPT !.loading = FALSE, !.otpReady = call[c].got.verified,
                               !.form = form]
      BY <2>4 DEF S!Loaded
    <3> HIDE DEF form
    <3> QED
      BY <1>0, <3>2, <3>3 DEF SmtpPageIs
  <2>5. ASSUME NEW c \in Calls, S!Done(c) PROVE page' \in SmtpPageIs
    BY <1>0, <2>5 DEF S!Done, SmtpPageIs
  <2>6. CASE UNCHANGED page
    BY <1>0, <2>6
  <2> QED
    BY <2>1, <2>2, <2>3, <2>4, <2>5, <2>6 DEF S!Next, S!OthersWrite, S!Progress, S!SaveRow,
      S!TestRead, S!TestWrite, S!ReadRow
<1>5. /\ SmtpCallsAre'
      /\ \A c \in Calls : /\ call'[c].op = "save" => call'[c].arg \in SmtpArgs
                          /\ S!Served(c, "load")' => call'[c].got \in SmtpReads
  <2>1. CASE UNCHANGED call
    BY <1>0, <2>1 DEF SmtpCallsAre, CallsTyped, S!Served
  <2>2. ASSUME NEW c \in Calls, NEW op, NEW at, NEW arg, NEW got,
               SmtpCallsAre', Changes(c, op, at, arg, got),
               op = "save" => arg \in SmtpArgs,
               op = "load" /\ at = "served" => got \in SmtpReads
        PROVE  <1>5!:
    BY <1>0, <2>2 DEF Changes, S!Served
  <2>3. ASSUME NEW c \in Calls,
               S!onSave(c) \/ S!onTest(c) \/ S!Progress(c)
        PROVE  <1>5!:
    BY <1>0, <2>2, <2>3, SmtpCallSteps DEF S!Progress
  <2> QED
    BY <2>1, <2>3 DEF S!Next, S!OthersWrite, S!Type
<1> QED
  BY <1>0, <1>1, <1>2, <1>3, <1>4, <1>5 DEF SmtpTyped

LEMMA SmtpStepBusy ==
  ASSUME SmtpTyped, SmtpBusy, S!Next
  PROVE  SmtpBusy'
<1>0. page \in SmtpPageIs
  BY DEF SmtpTyped
<1>1. ASSUME UNCHANGED call, page'.saving = page.saving, page'.testing = page.testing
      PROVE  SmtpBusy'
  BY <1>1 DEF SmtpBusy
<1>2. ASSUME S!OthersWrite \/ \E s \in Settings : S!Type(s)
      PROVE  SmtpBusy'
  BY <1>0, <1>1, <1>2 DEF S!OthersWrite, S!Type, SmtpPageIs
<1>3. ASSUME NEW c \in Calls, S!onSave(c) PROVE SmtpBusy'
  <2>1. ~page.saving /\ page'.saving /\ page'.testing = page.testing
    BY <1>0, <1>3 DEF S!onSave, SmtpPageIs
  <2>2. \E arg : Changes(c, "save", "sent", arg, None)
    BY <1>3, SmtpCallSteps
  <2> QED
    BY <2>1, <2>2 DEF SmtpBusy, Changes
<1>4. ASSUME NEW c \in Calls, S!onTest(c) PROVE SmtpBusy'
  <2>1. ~page.testing /\ page'.testing /\ page'.saving = page.saving
    BY <1>0, <1>4 DEF S!onTest, SmtpPageIs
  <2>2. Changes(c, "test", "sent", None, None)
    BY <1>4, SmtpCallSteps
  <2> QED
    BY <2>1, <2>2 DEF SmtpBusy, Changes
<1>5. ASSUME NEW c \in Calls,
             \/ S!SaveRow(c) \/ S!TestRead(c) \/ S!ReadRow(c)
             \/ \E passes \in BOOLEAN : S!TestWrite(c, passes)
      PROVE  SmtpBusy'
  <2>1. UNCHANGED page
    BY <1>5 DEF S!SaveRow, S!TestRead, S!ReadRow, S!TestWrite
  <2>2. \E at, arg, got : Changes(c, call[c].op, at, arg, got)
    BY <1>5, SmtpCallSteps
  <2> QED
    BY <2>1, <2>2 DEF SmtpBusy, Changes
<1>6. ASSUME NEW c \in Calls, S!CallFails(c) \/ S!Loaded(c) \/ S!Done(c)
      PROVE  SmtpBusy'
  <2>1. Changes(c, "none", "idle", None, None)
    BY <1>6, SmtpCallSteps
  <2>2. /\ page.saving /\ call[c].op # "save" => page'.saving
        /\ page.testing /\ call[c].op # "test" => page'.testing
    <3>1. CASE S!CallFails(c)
      BY <1>0, <3>1 DEF S!CallFails, SmtpPageIs
    <3>2. CASE S!Loaded(c)
      BY <1>0, <3>2 DEF S!Loaded, SmtpPageIs
    <3>3. CASE S!Done(c)
      BY <1>0, <3>3 DEF S!Done, SmtpPageIs, S!Served
    <3> QED
      BY <1>6, <3>1, <3>2, <3>3
  <2> QED
    BY <2>1, <2>2 DEF SmtpBusy, Changes
<1> QED
  BY <1>2, <1>3, <1>4, <1>5, <1>6 DEF S!Next, S!Progress

LEMMA SmtpStepShows ==
  ASSUME SmtpTyped, SmtpInv, SmtpShows, S!Next
  PROVE  SmtpShows'
<1> USE SmtpIsVisit
<1>0. page \in SmtpPageIs /\ server \in S!Stores
  BY DEF SmtpTyped
<1>a. \A c \in Calls : call[c].op = "none" => call[c] = Idle
  BY DEF SmtpTyped, SmtpCallsAre, CallsTyped
<1>1. ASSUME UNCHANGED <<server, call, disturbed>>,
             page'.otpReady = page.otpReady /\ page'.error = page.error
      PROVE  SmtpShows'
  BY <1>1 DEF SmtpShows, SmtpFits, S!Served, Quiet
<1>2. CASE S!OthersWrite
  BY <1>2 DEF S!OthersWrite, SmtpShows
<1>3. ASSUME NEW s \in Settings, S!Type(s) PROVE SmtpShows'
  BY <1>0, <1>1, <1>3 DEF S!Type, SmtpPageIs
(* The one call there is has been sent, has been answered or ends.          *)
<1>4. ASSUME NEW c \in Calls, NEW op, NEW at, NEW arg, NEW got,
             Changes(c, op, at, arg, got), op # "none",
             ~disturbed' => \A d \in Calls : d # c => call'[d].op = "none",
             ~disturbed' => SmtpFits(c)'
      PROVE  SmtpShows'
  <2>1. ~Quiet'
    BY <1>4 DEF Quiet, Changes, Idle
  <2> QED
    BY <1>4, <2>1 DEF SmtpShows, SmtpFits, S!Served
<1>5. ASSUME NEW c \in Calls, S!onSave(c) \/ S!onTest(c) PROVE SmtpShows'
  <2>1. PICK op, arg :
          /\ op \in {"save", "test"}
          /\ Changes(c, op, "sent", arg, None) /\ call[c].op = "none"
    BY <1>5, SmtpCallSteps
  <2>2. \E o, a : Send(c, o, a)
    BY <1>5 DEF S!onSave, S!onTest
  <2>3. ~disturbed' => \A d \in Calls : d # c => call'[d].op = "none"
    BY <2>1, <2>2, AloneBegins DEF Changes
  <2> QED
    BY <1>4, <2>1, <2>3 DEF SmtpFits, S!Served, Changes
<1>6. ASSUME NEW c \in Calls, S!Progress(c), UNCHANGED disturbed, ~disturbed,
             NEW op, NEW at, NEW arg, NEW got, Changes(c, op, at, arg, got),
             call[c].op # "none"
      PROVE  \A d \in Calls : d # c => call'[d].op = "none"
  BY <1>6, AloneGoesOn DEF SmtpInv
<1>7. ASSUME NEW c \in Calls, S!SaveRow(c) PROVE SmtpShows'
  <2>1. Changes(c, "save", "served", call[c].arg, None) /\ call[c].op = "save"
    BY <1>7, SmtpCallSteps
  <2>2. ~server'.verified /\ UNCHANGED disturbed
    BY <1>0, <1>7 DEF S!SaveRow, S!SaveAsync, S!Stores
  <2> QED
    BY <1>4, <1>6, <1>7, <2>1, <2>2 DEF SmtpFits, S!Served, Changes, S!Progress
<1>8. ASSUME NEW c \in Calls, S!TestRead(c) PROVE SmtpShows'
  <2>1. PICK at, arg, got :
          /\ at \in {"sent", "refused"}
          /\ Changes(c, "test", at, arg, got) /\ call[c].op = "test"
    BY <1>8, SmtpCallSteps
  <2>2. UNCHANGED disturbed
    BY <1>8 DEF S!TestRead
  <2> QED
    BY <1>4, <1>6, <1>8, <2>1, <2>2 DEF SmtpFits, S!Served, Changes, S!Progress
<1>9. ASSUME NEW c \in Calls, NEW passes \in BOOLEAN, S!TestWrite(c, passes)
      PROVE  SmtpShows'
  <2>1. UNCHANGED disturbed /\ call[c].op = "test"
    BY <1>9 DEF S!TestWrite, S!Sent
  <2>2. CASE ~passes
    <3>1. \E arg, got : Changes(c, "test", "refused", arg, got)
      BY <1>9, <2>2, SmtpCallSteps
    <3> QED
      BY <1>4, <1>6, <1>9, <2>1, <3>1 DEF SmtpFits, S!Served, Changes, S!Progress
  <2>3. CASE passes
    <3>1. \E arg, got : Changes(c, "test", "served", arg, got)
      BY <1>9, <2>3, SmtpCallSteps
    <3>2. ~disturbed => call[c].arg.verified = server.verified
      BY <1>9 DEF S!TestWrite, S!Sent, SmtpInv, TestsTheRow
    <3> DEFINE verified == IF passes # call[c].arg.verified THEN passes ELSE server.verified
               passed == IF passes THEN call[c].arg.row ELSE server.passed
    <3>3. server' = [server EXCEPT !.verified = verified, !.passed = passed]
      BY <1>9 DEF S!TestWrite
    <3>4. ~disturbed => verified
      BY <1>0, <2>3, <3>2 DEF S!Stores
    <3> HIDE DEF verified, passed
    <3>5. ~disturbed => server'.verified
      BY <1>0, <3>3, <3>4 DEF S!Stores
    <3> QED
      BY <1>4, <1>6, <1>9, <2>1, <3>1, <3>5 DEF SmtpFits, S!Served, Changes, S!Progress
  <2> QED
    BY <2>2, <2>3
<1>10. ASSUME NEW c \in Calls, S!ReadRow(c) PROVE SmtpShows'
  <2>1. PICK got \in SmtpReads :
          /\ Changes(c, "load", "served", call[c].arg, got) /\ call[c].op = "load"
          /\ got.verified = server.verified
    BY <1>10, SmtpCallSteps
  <2>2. UNCHANGED <<server, disturbed>>
    BY <1>10 DEF S!ReadRow
  <2> QED
    BY <1>4, <1>6, <1>10, <2>1, <2>2 DEF SmtpFits, S!Served, Changes, S!Progress
<1>11. ASSUME NEW c \in Calls, S!CallFails(c) \/ S!Loaded(c) \/ S!Done(c)
       PROVE  SmtpShows'
  <2>1. Changes(c, "none", "idle", None, None) /\ call[c].op # "none"
    BY <1>11, SmtpCallSteps
  <2>a. disturbed => disturbed'
    <3>1. CASE S!CallFails(c)
      BY <3>1, Zenon DEF S!CallFails
    <3>2. CASE S!Loaded(c) \/ S!Done(c)
      BY <3>2 DEF S!Loaded, S!Done
    <3> QED
      BY <1>11, <3>1, <3>2
  <2>b. ~disturbed => \A d \in Calls : d # c => call'[d].op = "none"
    BY <2>1, AloneGoesOn DEF SmtpInv
  <2>2. SUFFICES ASSUME ~disturbed', ~disturbed
                 PROVE  page'.error \/ page'.otpReady = server'.verified
    BY <2>1, <2>a, <2>b DEF SmtpShows, SmtpFits, S!Served, Changes
  <2>3. CASE S!CallFails(c)
    BY <1>0, <2>3 DEF S!CallFails, SmtpPageIs
  <2>4. CASE S!Loaded(c)
    <3>1. SmtpFits(c) /\ S!Served(c, "load")
      BY <2>2, <2>4 DEF S!Loaded, SmtpShows
    <3>2. page'.otpReady = call[c].got.verified /\ UNCHANGED server
      BY <1>0, <2>4 DEF S!Loaded, SmtpPageIs
    <3> QED
      BY <3>1, <3>2 DEF SmtpFits
  <2>5. CASE S!Done(c)
    <3>1. SmtpFits(c) /\ UNCHANGED server
      BY <2>2, <2>5 DEF S!Done, SmtpShows
    <3>2. \/ S!Served(c, "save") /\ page'.otpReady = FALSE
          \/ S!Served(c, "test") /\ page'.otpReady = TRUE
      BY <1>0, <2>5 DEF S!Done, SmtpPageIs
    <3>3. server.verified \in BOOLEAN
      BY <1>0 DEF S!Stores
    <3> QED
      BY <3>1, <3>2, <3>3 DEF SmtpFits
  <2> QED
    BY <1>11, <2>3, <2>4, <2>5
<1> QED
  BY <1>2, <1>3, <1>5, <1>7, <1>8, <1>9, <1>10, <1>11 DEF S!Next, S!Progress

LEMMA SmtpBeginsTyped == S!Init => SmtpTyped /\ SmtpBusy /\ SmtpShows
<1> SUFFICES ASSUME S!Init PROVE SmtpTyped /\ SmtpBusy /\ SmtpShows
  OBVIOUS
<1>1. /\ SmtpCallsAre
      /\ \A c \in Calls : call[c].op \in {"none", "load"} /\ call[c].at # "served"
      /\ disturbed = FALSE /\ left = MaxInputs
  <2>1. VisitInit
    BY SmtpIsVisit DEF S!Init
  <2> QED
    BY <2>1, VisitBegins, VisitCalls DEF SmtpCallsAre
<1>2. server \in S!Stores /\ page \in SmtpPageIs
  BY DEF S!Init, S!Stores, SmtpPageIs
<1>3. SmtpTyped
  <2>1. left \in 0..MaxInputs
    BY <1>1, InputsAreNat
  <2> QED
    BY <1>1, <1>2, <2>1 DEF SmtpTyped, S!Served
<1>4. SmtpBusy
  BY <1>1 DEF SmtpBusy
<1>5. SmtpShows
  BY SmtpIsVisit, VisitBegins DEF S!Init, SmtpShows, SmtpFits, S!Served
<1> QED
  BY <1>3, <1>4, <1>5

LEMMA SmtpCounts == \A X : S!Cardinality(X) = Cardinality(X)
  BY DEF S!Cardinality, Cardinality

LEMMA SmtpHolds ==
  ASSUME SmtpTyped, SmtpBusy, SmtpShows
  PROVE  S!TypeOK /\ S!OneAtATime /\ S!ShowsOwnWork
<1>1. S!TypeOK
  BY DEF SmtpTyped, SmtpCallsAre, CallsTyped, S!TypeOK, SmtpPageIs, SmtpArgs, SmtpReads,
    S!CallsOf, CallsOf
<1>2. S!OneAtATime
  <2> SUFFICES ASSUME NEW op \in {"save", "test"}
               PROVE  S!Cardinality({c \in Calls : call[c].op = op}) <= 1
    BY DEF S!OneAtATime
  <2>1. \A x, y \in {c \in Calls : call[c].op = op} : x = y
    BY DEF SmtpBusy
  <2> QED
    BY <2>1, AtMostOne, SmtpCounts
<1>3. S!ShowsOwnWork
  BY SmtpIsVisit DEF SmtpShows, S!ShowsOwnWork
<1> QED
  BY <1>1, <1>2, <1>3

-----------------------------------------------------------------------------
(* The password: a call that sets one has an argument that the pages took;  *)
(* the others have none.                                                    *)
PasswordArgs ==
  [code : Codes \cup {None}, old : Passwords \cup {P!Nothing}, new : Passwords]

PasswordCallsAre == CallsTyped({"request", "confirm", "change"}, PasswordArgs, {})

Taken(arg) ==
  arg \in PasswordArgs /\ P!meetsAdminMinimum(arg.new) /\ P!Differs(arg.new, arg.old)

PasswordTyped ==
  /\ server \in P!Accounts /\ page \in P!PasswordPage
  /\ PasswordCallsAre
  /\ disturbed \in BOOLEAN /\ left \in 0..MaxInputs
  /\ \A c \in Calls :
       IF call[c].op \in {"confirm", "change"} THEN Taken(call[c].arg)
       ELSE call[c].arg = None

(* The page waits for one call.                                             *)
PasswordBusy == Alone /\ page.loading = ~Quiet

PasswordShows ==
  /\ ~Quiet => page.success = P!Nothing
  /\ page.success # P!Nothing => page.success = server.password
  /\ \A c \in Calls : call[c].op \in {"confirm", "change"} /\ call[c].at = "served" =>
       server.password = call[c].arg.new

LEMMA PasswordIsVisit ==
  /\ \A c, r : P!SetCall(c, r) <=> SetCall(c, r)
  /\ \A c, op, arg : P!Send(c, op, arg) <=> Send(c, op, arg)
  /\ \A c, got : P!Serve(c, got) <=> Serve(c, got)
  /\ \A c : P!Refuse(c) <=> Refuse(c)
  /\ P!Idle = Idle
  /\ P!Quiet <=> Quiet
  /\ P!Spend <=> Spend
  BY DEF P!SetCall, SetCall, P!Send, Send, P!Serve, Serve, P!Refuse, Refuse,
    P!Idle, Idle, P!Spend, Spend, P!Quiet, Quiet

(* What each step makes of its call.                                        *)
LEMMA PasswordSends ==
  ASSUME PasswordTyped, NEW c \in Calls, NEW op \in {"confirm", "change"},
         NEW code \in Codes \cup {None}, NEW old \in Passwords \cup {P!Nothing},
         P!meetsAdminMinimum(page.new), P!Differs(page.new, old), page.new # P!Nothing,
         Send(c, op, [code |-> code, old |-> old, new |-> page.new])
  PROVE  /\ PasswordCallsAre' /\ call[c].op = "none"
         /\ \E arg : Taken(arg) /\ Changes(c, op, "sent", arg, None)
<1> DEFINE arg == [code |-> code, old |-> old, new |-> page.new]
<1>1. Taken(arg)
  BY DEF PasswordTyped, Taken, PasswordArgs, P!PasswordPage
<1>2. arg \in PasswordArgs /\ Send(c, op, arg) /\ PasswordCallsAre
  BY <1>1 DEF Taken, PasswordTyped
<1> HIDE DEF arg
<1> QED
  BY <1>1, <1>2, SendChanges DEF PasswordCallsAre

LEMMA NothingIsShort ==
  ASSUME NEW p, P!meetsAdminMinimum(p)
  PROVE  p # P!Nothing /\ P!Differs(p, P!Nothing)
  BY DEF P!meetsAdminMinimum, P!Nothing, P!Differs

LEMMA UseCodeChanges ==
  ASSUME PasswordTyped, NEW c \in Calls, P!UseCode(c)
  PROVE  /\ PasswordCallsAre' /\ call[c].op = "confirm"
         /\ \E at \in {"sent", "refused"} : \E arg, got :
              Taken(arg) /\ Changes(c, "confirm", at, arg, got)
<1> USE PasswordIsVisit DEF PasswordCallsAre
<1>0. /\ PasswordCallsAre /\ call[c].op = "confirm" /\ call[c].at = "sent"
      /\ Taken(call[c].arg)
  BY DEF P!UseCode, P!Sent, PasswordTyped
<1>1. CASE Refuse(c)
  BY <1>0, <1>1, RefuseChanges
<1>2. CASE ~Refuse(c)
  <2> DEFINE r == [call[c] EXCEPT !.arg.code = None]
             arg == [call[c].arg EXCEPT !.code = None]
             R == [op : {"request", "confirm", "change"} \cup {"none"},
                   at : {"idle", "sent", "served", "refused"},
                   arg : PasswordArgs \cup {None}, got : {} \cup {None}]
  <2>1. SetCall(c, r)
    BY <1>2 DEF P!UseCode
  <2>2. arg \in PasswordArgs /\ arg.new = call[c].arg.new /\ arg.old = call[c].arg.old
    BY <1>0 DEF Taken, PasswordArgs
  <2>3. call[c] \in R
    BY <1>0 DEF CallsTyped, CallsOf
  <2>4. r = [call[c] EXCEPT !.arg = arg]
    OBVIOUS
  <2>5. Taken(arg)
    BY <1>0, <2>2 DEF Taken
  <2> HIDE DEF arg, r
  <2>6. r \in R /\ r.op = "confirm" /\ r.at = "sent" /\ r.arg = arg /\ r.got = call[c].got
    BY <1>0, <2>2, <2>3, <2>4
  <2>7. PasswordCallsAre' /\ Changes(c, r.op, r.at, r.arg, r.got)
    BY <1>0, <2>1, <2>6, CallChanges
  <2> QED
    BY <1>0, <2>5, <2>6, <2>7
<1> QED
  BY <1>1, <1>2

LEMMA PasswordCallSteps ==
  ASSUME PasswordTyped, NEW c \in Calls
  PROVE  /\ P!handleRequest(c) => /\ PasswordCallsAre' /\ call[c].op = "none"
                                  /\ Changes(c, "request", "sent", None, None)
         /\ P!handleConfirm(c) =>
              \/ page' = P!Waiting(TRUE) /\ UNCHANGED call
              \/ /\ page' = P!Waiting(FALSE)
                 /\ PasswordCallsAre' /\ call[c].op = "none"
                 /\ \E arg : Taken(arg) /\ Changes(c, "confirm", "sent", arg, None)
         /\ P!handleSubmit(c) =>
              /\ PasswordCallsAre' /\ call[c].op = "none"
              /\ \E arg : Taken(arg) /\ Changes(c, "change", "sent", arg, None)
         /\ P!RequestReset(c) =>
              /\ PasswordCallsAre' /\ call[c].op = "request"
              /\ \E at, got : Changes(c, "request", at, call[c].arg, got)
         /\ P!UseCode(c) =>
              /\ PasswordCallsAre' /\ call[c].op = "confirm"
              /\ \E at \in {"sent", "refused"} : \E arg, got :
                   Taken(arg) /\ Changes(c, "confirm", at, arg, got)
         /\ P!SavePassword(c) =>
              /\ PasswordCallsAre' /\ call[c].op = "confirm"
              /\ Changes(c, "confirm", "served", call[c].arg, None)
         /\ P!ChangePassword(c) =>
              /\ PasswordCallsAre' /\ call[c].op = "change"
              /\ \/ /\ server' = [server EXCEPT !.password = call[c].arg.new]
                    /\ Changes(c, "change", "served", call[c].arg, None)
                 \/ /\ UNCHANGED server
                    /\ Changes(c, "change", "refused", call[c].arg, call[c].got)
         /\ P!CallFails(c) \/ P!Answered(c) =>
              /\ PasswordCallsAre' /\ call[c].op # "none"
              /\ Changes(c, "none", "idle", None, None)
<1> USE PasswordIsVisit DEF PasswordCallsAre
<1>0. /\ PasswordCallsAre /\ page \in P!PasswordPage
      /\ call[c].op = "none" => call[c] = Idle
  BY DEF PasswordTyped, CallsTyped
<1>1. ASSUME P!handleRequest(c)
      PROVE  /\ PasswordCallsAre' /\ call[c].op = "none"
             /\ Changes(c, "request", "sent", None, None)
  BY <1>0, <1>1, SendChanges DEF P!handleRequest
<1>2. ASSUME P!handleConfirm(c), ~(page' = P!Waiting(TRUE) /\ UNCHANGED call)
      PROVE  /\ page' = P!Waiting(FALSE)
             /\ PasswordCallsAre' /\ call[c].op = "none"
             /\ \E arg : Taken(arg) /\ Changes(c, "confirm", "sent", arg, None)
  <2>1. /\ page' = P!Waiting(FALSE)
        /\ P!meetsAdminMinimum(page.new) /\ page.code \in Codes \cup {None}
        /\ Send(c, "confirm", [code |-> page.code, old |-> P!Nothing, new |-> page.new])
    BY <1>0, <1>2 DEF P!handleConfirm, P!PasswordPage
  <2> QED
    BY <2>1, NothingIsShort, PasswordSends
<1>3. ASSUME P!handleSubmit(c)
      PROVE  /\ PasswordCallsAre' /\ call[c].op = "none"
             /\ \E arg : Taken(arg) /\ Changes(c, "change", "sent", arg, None)
  <2>1. /\ P!meetsAdminMinimum(page.new) /\ page.old \in Passwords \cup {P!Nothing}
        /\ P!Differs(page.new, page.old)
        /\ Send(c, "change", [code |-> None, old |-> page.old, new |-> page.new])
    BY <1>0, <1>3 DEF P!handleSubmit, P!PasswordPage
  <2> QED
    BY <2>1, NothingIsShort, PasswordSends
<1>4. ASSUME P!RequestReset(c)
      PROVE  /\ PasswordCallsAre' /\ call[c].op = "request"
             /\ \E at, got : Changes(c, "request", at, call[c].arg, got)
  BY <1>0, <1>4, ServeChanges, RefuseChanges DEF P!RequestReset, P!Sent
<1>5. ASSUME P!SavePassword(c)
      PROVE  /\ PasswordCallsAre' /\ call[c].op = "confirm"
             /\ Changes(c, "confirm", "served", call[c].arg, None)
  BY <1>0, <1>5, ServeChanges DEF P!SavePassword, P!Sent
<1>6. ASSUME P!ChangePassword(c)
      PROVE  /\ PasswordCallsAre' /\ call[c].op = "change"
             /\ \/ /\ server' = [server EXCEPT !.password = call[c].arg.new]
                   /\ Changes(c, "change", "served", call[c].arg, None)
                \/ /\ UNCHANGED server
                   /\ Changes(c, "change", "refused", call[c].arg, call[c].got)
  <2>1. call[c].op = "change"
    BY <1>6 DEF P!ChangePassword, P!Sent
  <2>2. CASE Serve(c, None) /\ server' = [server EXCEPT !.password = call[c].arg.new]
    BY <1>0, <2>1, <2>2, ServeChanges
  <2>3. CASE Refuse(c) /\ UNCHANGED server
    BY <1>0, <2>1, <2>3, RefuseChanges
  <2> QED
    BY <1>6, <2>2, <2>3 DEF P!ChangePassword
<1>7. ASSUME P!CallFails(c) \/ P!Answered(c)
      PROVE  /\ PasswordCallsAre' /\ call[c].op # "none"
             /\ Changes(c, "none", "idle", None, None)
  BY <1>0, <1>7, EndChanges DEF P!CallFails, P!Answered, Idle
<1> QED
  BY <1>1, <1>2, <1>3, <1>4, <1>5, <1>6, <1>7, UseCodeChanges

LEMMA PasswordStepTyped ==
  ASSUME PasswordTyped, P!Next
  PROVE  PasswordTyped'
<1> USE PasswordIsVisit
<1>0. /\ PasswordCallsAre /\ page \in P!PasswordPage /\ server \in P!Accounts
      /\ disturbed \in BOOLEAN /\ left \in 0..MaxInputs
      /\ \A c \in Calls :
           IF call[c].op \in {"confirm", "change"} THEN Taken(call[c].arg)
           ELSE call[c].arg = None
  BY DEF PasswordTyped
<1>1. left' \in 0..MaxInputs
  <2>1. UNCHANGED left \/ Spend
    BY DEF P!Next, P!RequestAnother, P!AlreadyHaveCode, P!TypeNew, P!TypeCode, P!Typed,
      P!handleRequest, P!handleConfirm, P!handleSubmit, P!Progress, P!RequestReset,
      P!UseCode, P!SavePassword, P!ChangePassword, P!CallFails, P!Answered, P!Send, P!Fails
  <2> QED
    BY <1>0, <2>1, InputSpent
<1>2. disturbed' \in BOOLEAN
  BY <1>0, Zenon DEF P!Next, P!RequestAnother, P!AlreadyHaveCode, P!TypeNew, P!TypeCode,
    P!Typed, P!handleRequest, P!handleConfirm, P!handleSubmit, P!Progress, P!RequestReset,
    P!UseCode, P!SavePassword, P!ChangePassword, P!CallFails, P!Answered, P!Send
<1>3. server' \in P!Accounts
  <2>1. ASSUME NEW c \in Calls, P!RequestReset(c) PROVE server' \in P!Accounts
    BY <1>0, <2>1 DEF P!RequestReset, P!Accounts
  <2>2. ASSUME NEW c \in Calls, P!UseCode(c) PROVE server' \in P!Accounts
    BY <1>0, <2>2 DEF P!UseCode, P!Accounts
  <2>3. ASSUME NEW c \in Calls, P!SavePassword(c) PROVE server' \in P!Accounts
    <3>1. call[c].arg.new \in Passwords
      BY <1>0, <2>3 DEF P!SavePassword, P!Sent, Taken, PasswordArgs
    <3> QED
      BY <1>0, <2>3, <3>1 DEF P!SavePassword, P!Accounts
  <2>4. ASSUME NEW c \in Calls, P!ChangePassword(c) PROVE server' \in P!Accounts
    <3>1. call[c].arg.new \in Passwords
      BY <1>0, <2>4 DEF P!ChangePassword, P!Sent, Taken, PasswordArgs
    <3> QED
      BY <1>0, <2>4, <3>1 DEF P!ChangePassword, P!Accounts
  <2>5. CASE UNCHANGED server
    BY <1>0, <2>5
  <2> QED
    BY <2>1, <2>2, <2>3, <2>4, <2>5 DEF P!Next, P!RequestAnother, P!AlreadyHaveCode,
      P!TypeNew, P!TypeCode, P!Typed, P!handleRequest, P!handleConfirm, P!handleSubmit,
      P!Progress, P!CallFails, P!Answered
<1>4. page' \in P!PasswordPage
  <2>1. ASSUME NEW p \in Passwords, P!TypeNew(p) PROVE page' \in P!PasswordPage
    BY <1>0, <2>1 DEF P!TypeNew, P!Typed, P!PasswordPage
  <2>2. ASSUME NEW k \in Codes, P!TypeCode(k) PROVE page' \in P!PasswordPage
    BY <1>0, <2>2 DEF P!TypeCode, P!Typed, P!PasswordPage
  <2>3. ASSUME NEW c \in Calls, P!handleRequest(c) \/ P!handleConfirm(c) \/ P!handleSubmit(c)
        PROVE  page' \in P!PasswordPage
    <3>1. page' = P!Waiting(TRUE) \/ page' = P!Waiting(FALSE)
      BY <2>3 DEF P!handleRequest, P!handleConfirm, P!handleSubmit
    <3> QED
      BY <1>0, <3>1 DEF P!Waiting, P!PasswordPage
  <2>4. CASE P!RequestAnother \/ P!AlreadyHaveCode
    BY <1>0, <2>4 DEF P!RequestAnother, P!AlreadyHaveCode, P!PasswordPage
  <2>5. ASSUME NEW c \in Calls, P!CallFails(c) PROVE page' \in P!PasswordPage
    BY <1>0, <2>5 DEF P!CallFails, P!PasswordPage
  <2>6. ASSUME NEW c \in Calls, P!Answered(c) PROVE page' \in P!PasswordPage
    <3>1. CASE call[c].op = "request"
      BY <1>0, <2>6, <3>1 DEF P!Answered, P!PasswordPage
    <3>2. CASE call[c].op # "request"
      <4>1. call[c].op \in {"confirm", "change"}
        BY <1>0, <2>6, <3>2 DEF P!Answered, PasswordCallsAre, CallsTyped, CallsOf, Idle
      <4>2. call[c].arg.new \in Passwords
        BY <1>0, <4>1 DEF Taken, PasswordArgs
      <4> QED
        BY <1>0, <2>6, <3>2, <4>2 DEF P!Answered, P!PasswordPage
    <3> QED
      BY <3>1, <3>2
  <2>7. CASE UNCHANGED page
    BY <1>0, <2>7
  <2> QED
    BY <2>1, <2>2, <2>3, <2>4, <2>5, <2>6, <2>7 DEF P!Next, P!Progress, P!RequestReset,
      P!UseCode, P!SavePassword, P!ChangePassword
<1>5. /\ PasswordCallsAre'
      /\ \A c \in Calls :
           IF call'[c].op \in {"confirm", "change"} THEN Taken(call'[c].arg)
           ELSE call'[c].arg = None
  <2>1. CASE UNCHANGED call
    BY <1>0, <2>1 DEF PasswordCallsAre, CallsTyped
  <2>2. ASSUME NEW c \in Calls, NEW op, NEW at, NEW arg, NEW got,
               PasswordCallsAre', Changes(c, op, at, arg, got),
               IF op \in {"confirm", "change"} THEN Taken(arg) ELSE arg = None
        PROVE  <1>5!:
    BY <1>0, <2>2 DEF Changes
  <2>3. ASSUME NEW c \in Calls,
               P!handleRequest(c) \/ P!handleConfirm(c) \/ P!handleSubmit(c)
        PROVE  <1>5!:
    BY <2>1, <2>2, <2>3, PasswordCallSteps
  <2>4. ASSUME NEW c \in Calls, P!RequestReset(c) \/ P!UseCode(c) PROVE <1>5!:
    BY <1>0, <2>2, <2>4, PasswordCallSteps
  <2>5. ASSUME NEW c \in Calls, P!SavePassword(c) \/ P!ChangePassword(c) PROVE <1>5!:
    BY <1>0, <2>2, <2>5, PasswordCallSteps
  <2>6. ASSUME NEW c \in Calls, P!CallFails(c) \/ P!Answered(c) PROVE <1>5!:
    BY <1>0, <2>2, <2>6, PasswordCallSteps
  <2> QED
    BY <2>1, <2>3, <2>4, <2>5, <2>6 DEF P!Next, P!RequestAnother, P!AlreadyHaveCode,
      P!TypeNew, P!TypeCode, P!Typed, P!Progress
<1> QED
  BY <1>1, <1>2, <1>3, <1>4, <1>5 DEF PasswordTyped

LEMMA PasswordStepBusy ==
  ASSUME PasswordTyped, PasswordBusy, P!Next
  PROVE  PasswordBusy'
<1> USE PasswordIsVisit
<1>0. /\ page \in P!PasswordPage /\ page.loading \in BOOLEAN
      /\ PasswordCallsAre /\ \A c \in Calls : call[c].op = "none" => call[c] = Idle
  BY DEF PasswordTyped, P!PasswordPage, PasswordCallsAre, CallsTyped
<1>1. ASSUME UNCHANGED call, page'.loading = page.loading
      PROVE  PasswordBusy'
  BY <1>1 DEF PasswordBusy, Alone, Quiet
<1>2. ASSUME P!RequestAnother \/ P!AlreadyHaveCode \/ (\E p \in Passwords : P!TypeNew(p))
               \/ \E k \in Codes : P!TypeCode(k)
      PROVE  PasswordBusy'
  <2>1. UNCHANGED call /\ page'.loading = page.loading
    BY <1>0, <1>2 DEF P!RequestAnother, P!AlreadyHaveCode, P!TypeNew, P!TypeCode, P!Typed,
      P!PasswordPage
  <2> QED
    BY <1>1, <2>1
(* A page that waits for nothing sends the one call there is.               *)
<1>3. ASSUME NEW c \in Calls,
             P!handleRequest(c) \/ P!handleConfirm(c) \/ P!handleSubmit(c)
      PROVE  PasswordBusy'
  <2>1. Quiet
    BY <1>0, <1>3 DEF PasswordBusy, P!handleRequest, P!handleConfirm, P!handleSubmit
  <2>2. CASE page' = P!Waiting(TRUE) /\ UNCHANGED call
    <3>1. page'.loading = FALSE
      BY <1>0, <2>2 DEF P!Waiting, P!PasswordPage
    <3> QED
      BY <1>1, <2>1, <2>2, <3>1, <1>0 DEF PasswordBusy
  <2>3. CASE ~(page' = P!Waiting(TRUE) /\ UNCHANGED call)
    <3>1. page' = P!Waiting(FALSE)
      BY <1>3, <2>3 DEF P!handleRequest, P!handleConfirm, P!handleSubmit
    <3>2. page'.loading = TRUE
      BY <1>0, <3>1 DEF P!Waiting, P!PasswordPage
    <3>3. \E op \in {"request", "confirm", "change"} : \E at, arg, got : Changes(c, op, at, arg, got)
      BY <1>3, <2>3, PasswordCallSteps
    <3>4. /\ \A d \in Calls : d # c => call'[d].op = "none"
          /\ call'[c].op # "none"
      BY <2>1, <3>3 DEF Quiet, Changes, Idle
    <3>5. Alone' /\ ~Quiet'
      BY <3>4 DEF Alone, Quiet, Idle
    <3> QED
      BY <3>2, <3>5 DEF PasswordBusy
  <2> QED
    BY <2>2, <2>3
<1>4. ASSUME NEW c \in Calls,
             P!RequestReset(c) \/ P!UseCode(c) \/ P!SavePassword(c) \/ P!ChangePassword(c)
      PROVE  PasswordBusy'
  <2>1. UNCHANGED page
    BY <1>4 DEF P!RequestReset, P!UseCode, P!SavePassword, P!ChangePassword
  <2>2. call[c].op # "none" /\ \E at, arg, got : Changes(c, call[c].op, at, arg, got)
    BY <1>4, PasswordCallSteps
  <2>3. /\ ~Quiet /\ ~Quiet' /\ Alone'
    BY <2>2 DEF Quiet, Changes, Idle, Alone, PasswordBusy
  <2> QED
    BY <2>1, <2>3 DEF PasswordBusy
<1>5. ASSUME NEW c \in Calls, P!CallFails(c) \/ P!Answered(c)
      PROVE  PasswordBusy'
  <2>1. page'.loading = FALSE
    BY <1>0, <1>5 DEF P!CallFails, P!Answered, P!PasswordPage
  <2>2. call[c].op # "none" /\ Changes(c, "none", "idle", None, None) /\ PasswordCallsAre'
    BY <1>5, PasswordCallSteps
  <2>3. \A d \in Calls : call'[d].op = "none"
    BY <2>2, AloneGoesOn DEF PasswordBusy, Changes
  <2>4. \A d \in Calls : call'[d] = Idle
    BY <2>2, <2>3 DEF PasswordCallsAre, CallsTyped
  <2> QED
    BY <2>1, <2>3, <2>4 DEF PasswordBusy, Alone, Quiet
<1> QED
  BY <1>2, <1>3, <1>4, <1>5 DEF P!Next, P!Progress

LEMMA PasswordStepShows ==
  ASSUME PasswordTyped, PasswordBusy, PasswordShows, P!Next
  PROVE  PasswordShows'
<1> USE PasswordIsVisit
<1>0. page \in P!PasswordPage /\ page.loading \in BOOLEAN /\ server \in P!Accounts
  BY DEF PasswordTyped, P!PasswordPage
<1>1. ASSUME UNCHANGED <<server, call>>,
             page'.success = page.success \/ page'.success = P!Nothing
      PROVE  PasswordShows'
  BY <1>1 DEF PasswordShows, Quiet
<1>2. ASSUME P!RequestAnother \/ P!AlreadyHaveCode \/ (\E p \in Passwords : P!TypeNew(p))
               \/ \E k \in Codes : P!TypeCode(k)
      PROVE  PasswordShows'
  <2>1. UNCHANGED <<server, call>>
        /\ (page'.success = page.success \/ page'.success = P!Nothing)
    BY <1>0, <1>2 DEF P!RequestAnother, P!AlreadyHaveCode, P!TypeNew, P!TypeCode, P!Typed,
      P!PasswordPage
  <2> QED
    BY <1>1, <2>1
<1>3. ASSUME NEW c \in Calls,
             P!handleRequest(c) \/ P!handleConfirm(c) \/ P!handleSubmit(c)
      PROVE  PasswordShows'
  <2>1. page'.success = P!Nothing /\ UNCHANGED server
    BY <1>0, <1>3 DEF P!handleRequest, P!handleConfirm, P!handleSubmit, P!Waiting,
      P!PasswordPage
  <2>2. CASE UNCHANGED call
    BY <1>1, <2>1, <2>2
  <2>3. CASE ~UNCHANGED call
    <3>1. \E op, arg : Changes(c, op, "sent", arg, None)
      BY <1>3, <2>3, PasswordCallSteps
    <3> QED
      BY <2>1, <3>1 DEF PasswordShows, Changes
  <2> QED
    BY <2>2, <2>3
(* While the page waits, nothing is said to be in force, and no other call  *)
(* has been served.                                                         *)
<1>4. ASSUME NEW c \in Calls, call[c].op # "none", UNCHANGED page,
             NEW at, NEW arg, NEW got, Changes(c, call[c].op, at, arg, got),
             call[c].op \in {"confirm", "change"} /\ at = "served" =>
               server'.password = arg.new
      PROVE  PasswordShows'
  <2>1. page.success = P!Nothing
    BY <1>4 DEF PasswordShows, Quiet, Idle
  <2>2. \A d \in Calls : d # c => call'[d].op = "none"
    BY <1>4, AloneGoesOn DEF PasswordBusy
  <2> QED
    BY <1>4, <2>1, <2>2 DEF PasswordShows, Changes
<1>5. ASSUME NEW c \in Calls, P!RequestReset(c) PROVE PasswordShows'
  <2>1. call[c].op = "request" /\ \E at, got : Changes(c, "request", at, call[c].arg, got)
    BY <1>5, PasswordCallSteps
  <2>2. PICK at, got : Changes(c, call[c].op, at, call[c].arg, got)
    BY <2>1
  <2>3. UNCHANGED page
    BY <1>5 DEF P!RequestReset
  <2> QED
    BY <1>4, <2>1, <2>2, <2>3
<1>6. ASSUME NEW c \in Calls, P!UseCode(c) PROVE PasswordShows'
  <2>1. call[c].op = "confirm" /\ \E at \in {"sent", "refused"} : \E arg, got :
          Changes(c, "confirm", at, arg, got)
    BY <1>6, PasswordCallSteps
  <2> QED
    BY <1>4, <1>6, <2>1 DEF P!UseCode
<1>7. ASSUME NEW c \in Calls, P!SavePassword(c) PROVE PasswordShows'
  BY <1>4, <1>7, PasswordCallSteps DEF P!SavePassword
<1>8. ASSUME NEW c \in Calls, P!ChangePassword(c) PROVE PasswordShows'
  <2>1. /\ call[c].op = "change" /\ UNCHANGED page
        /\ \/ /\ server' = [server EXCEPT !.password = call[c].arg.new]
              /\ Changes(c, "change", "served", call[c].arg, None)
           \/ Changes(c, "change", "refused", call[c].arg, call[c].got)
    BY <1>8, PasswordCallSteps DEF P!ChangePassword
  <2>2. CASE server' = [server EXCEPT !.password = call[c].arg.new]
             /\ Changes(c, "change", "served", call[c].arg, None)
    <3>1. server'.password = call[c].arg.new
      BY <1>0, <2>2 DEF P!Accounts
    <3> QED
      BY <1>4, <2>1, <2>2, <3>1
  <2> QED
    BY <1>4, <2>1, <2>2
<1>9. ASSUME NEW c \in Calls, P!CallFails(c) \/ P!Answered(c) PROVE PasswordShows'
  <2>1. call[c].op # "none" /\ Changes(c, "none", "idle", None, None) /\ UNCHANGED server
    BY <1>9, PasswordCallSteps DEF P!CallFails, P!Answered
  <2>2. \A d \in Calls : call'[d].op = "none"
    BY <2>1, AloneGoesOn DEF PasswordBusy, Changes
  <2>3. Quiet'
    BY <1>9, PasswordCallSteps, <2>2 DEF PasswordCallsAre, CallsTyped, Quiet
  <2>4. page.success = P!Nothing
    BY <2>1 DEF PasswordShows, Quiet, Idle
  <2>5. page'.success # P!Nothing => page'.success = server.password
    <3>1. CASE P!CallFails(c)
      BY <1>0, <2>4, <3>1 DEF P!CallFails, P!PasswordPage
    <3>2. CASE P!Answered(c) /\ call[c].op = "request"
      BY <1>0, <2>4, <3>2 DEF P!Answered, P!PasswordPage
    <3>3. CASE P!Answered(c) /\ call[c].op # "request"
      <4>1. call[c].op \in {"confirm", "change"} /\ call[c].at = "served"
        BY <2>1, <3>3 DEF P!Answered, PasswordTyped, PasswordCallsAre, CallsTyped, CallsOf
      <4>2. page'.success = call[c].arg.new
        BY <1>0, <3>3 DEF P!Answered, P!PasswordPage
      <4> QED
        BY <4>1, <4>2 DEF PasswordShows
    <3> QED
      BY <1>9, <3>1, <3>2, <3>3
  <2> QED
    BY <2>1, <2>2, <2>3, <2>5 DEF PasswordShows
<1> QED
  BY <1>2, <1>3, <1>5, <1>6, <1>7, <1>8, <1>9 DEF P!Next, P!Progress

LEMMA PasswordBegins == P!Init => PasswordTyped /\ PasswordBusy /\ PasswordShows
<1> SUFFICES ASSUME P!Init PROVE PasswordTyped /\ PasswordBusy /\ PasswordShows
  OBVIOUS
<1>1. Idle = [op |-> "none", at |-> "idle", arg |-> None, got |-> None]
  BY DEF Idle
<1>2. call = [c \in Calls |-> Idle]
  BY PasswordIsVisit DEF P!Init
<1>3. PasswordCallsAre /\ Alone /\ Quiet
      /\ \A c \in Calls : call[c].op = "none" /\ call[c].arg = None
  BY <1>1, <1>2 DEF PasswordCallsAre, CallsTyped, CallsOf, Alone, Quiet
<1>4. left \in 0..MaxInputs /\ disturbed = FALSE
  BY InputsAreNat DEF P!Init
<1>5. server \in P!Accounts
  BY DEF P!Init, P!Accounts
<1>6. page \in P!PasswordPage /\ page.loading = FALSE /\ page.success = P!Nothing
  <2>1. server.code \in Codes \cup {None}
    BY <1>5 DEF P!Accounts
  <2>2. page \in [about : {"reset", "change"}, step : {"request", "confirm"},
                  old : {P!Nothing}, new : {P!Nothing}, again : {P!Nothing},
                  code : {None, server.code}, loading : {FALSE}, error : {FALSE},
                  success : {P!Nothing}]
    BY DEF P!Init
  <2> QED
    BY <2>1, <2>2 DEF P!PasswordPage
<1> QED
  BY <1>3, <1>4, <1>5, <1>6 DEF PasswordTyped, PasswordBusy, PasswordShows

(* The rules: without accents the server counts what the web app counts.    *)
LEMMA SameCategories ==
  ASSUME NEW p \in Passwords, "accented" \notin p.kinds
  PROVE  P!Seen(p) = P!Categories(p)
<1>1. p.kinds \subseteq {"lower", "upper", "digit", "symbol"}
  BY PasswordsHaveFeatures DEF P!AllPasswords, P!Kinds
<1> QED
  BY <1>1 DEF P!Seen, P!Categories

LEMMA FourCategories ==
  ASSUME NEW p
  PROVE  P!Cardinality(P!Seen(p)) \in 0..4
<1> DEFINE K == {"lower", "upper", "digit", "symbol"}
<1>1. P!Seen(p) \subseteq K
  BY DEF P!Seen
<1>2. IsFiniteSet(K) /\ Cardinality(K) = 4
  <2>1. IsFiniteSet({"lower"}) /\ Cardinality({"lower"}) = 1
    BY FS_Singleton
  <2>2. IsFiniteSet({"lower"} \cup {"upper"}) /\ Cardinality({"lower"} \cup {"upper"}) = 2
    BY <2>1, FS_AddElement
  <2>3. /\ IsFiniteSet({"lower"} \cup {"upper"} \cup {"digit"})
        /\ Cardinality({"lower"} \cup {"upper"} \cup {"digit"}) = 3
    BY <2>2, FS_AddElement
  <2>4. /\ IsFiniteSet({"lower"} \cup {"upper"} \cup {"digit"} \cup {"symbol"})
        /\ Cardinality({"lower"} \cup {"upper"} \cup {"digit"} \cup {"symbol"}) = 4
    BY <2>3, FS_AddElement
  <2>5. K = {"lower"} \cup {"upper"} \cup {"digit"} \cup {"symbol"}
    OBVIOUS
  <2> QED
    BY <2>4, <2>5
<1>3. Cardinality(P!Seen(p)) \in 0..4
  <2>1. IsFiniteSet(P!Seen(p)) /\ Cardinality(P!Seen(p)) <= 4
    BY <1>1, <1>2, FS_Subset
  <2>2. Cardinality(P!Seen(p)) \in Nat
    BY <2>1, FS_CardinalityType
  <2> QED
    BY <2>1, <2>2
<1>4. P!Cardinality(P!Seen(p)) = Cardinality(P!Seen(p))
  BY DEF P!Cardinality, Cardinality
<1> QED
  BY <1>3, <1>4

(* Both sides take the same passwords.                                      *)
LEMMA SameRules ==
  ASSUME NEW p \in Passwords, "accented" \notin p.kinds, NEW old
  PROVE  P!Validate(p, old) <=> P!meetsAdminMinimum(p) /\ P!Differs(p, old)
  BY SameCategories DEF P!Validate, P!meetsAdminMinimum

(* The score of a password that is not the old one: what the server takes   *)
(* has at least seven points, and without spaces nothing else has eight.    *)
LEMMA ScoreFollowsRules ==
  ASSUME NEW p \in Passwords, NEW old, P!Differs(p, old)
  PROVE  /\ P!Score(p, old) \in Nat
         /\ P!meetsAdminMinimum(p) => P!Score(p, old) >= 7
         /\ P!Score(p, old) >= 8 /\ ~p.spaces => P!meetsAdminMinimum(p)
<1> DEFINE n == P!Cardinality(P!Seen(p))
<1>1. n \in 0..4
  BY FourCategories
<1>2. p.size \in Nat /\ p.spaces \in BOOLEAN
  BY PasswordsHaveFeatures DEF P!AllPasswords
<1>3. P!Score(p, old) = P!Points(p.size >= 12, 2) + n + P!Points(~p.spaces, 1)
                          + 1 + P!Points(p.size >= 16, 1)
  BY DEF P!Score, P!Points
<1>4. P!meetsAdminMinimum(p) <=> p.size >= 12 /\ ~p.spaces /\ n >= 3
  BY DEF P!meetsAdminMinimum
<1> HIDE DEF n
<1> QED
  BY <1>1, <1>2, <1>3, <1>4 DEF P!Points

LEMMA ToneIs ==
  ASSUME NEW p, NEW old, p # P!Nothing, P!Score(p, old) \in Nat
  PROVE  /\ P!Score(p, old) \in 6..7 => P!tone(p, old) = "good"
         /\ P!Score(p, old) >= 8 => P!tone(p, old) = "strong"
         /\ P!Score(p, old) < 8 => P!tone(p, old) # "strong"
<1> DEFINE s == P!Score(p, old)
<1>1. P!tone(p, old) =
        CASE p = P!Nothing -> "empty"
          [] p # P!Nothing /\ s <= 3 -> "weak"
          [] p # P!Nothing /\ s \in 4..5 -> "fair"
          [] p # P!Nothing /\ s \in 6..7 -> "good"
          [] OTHER -> "strong"
  BY DEF P!tone
<1>2. s \in Nat
  OBVIOUS
<1> HIDE DEF s
<1>3. /\ s \in 6..7 => P!tone(p, old) = "good"
      /\ s >= 8 => P!tone(p, old) = "strong"
      /\ s < 8 => P!tone(p, old) # "strong"
  BY <1>1, <1>2
<1> QED
  BY <1>3 DEF s

LEMMA PasswordHolds ==
  ASSUME PasswordTyped, PasswordBusy, PasswordShows
  PROVE  /\ P!TypeOK /\ P!OneAtATime /\ P!ShowsOwnWork
         /\ P!RulesAgree /\ P!MeterFollowsPolicy
<1>1. P!TypeOK
  BY DEF PasswordTyped, PasswordCallsAre, CallsTyped, P!TypeOK, PasswordArgs,
    P!CallsOf, CallsOf
<1>2. P!OneAtATime
  <2>1. \A x, y \in {c \in Calls : call[c] # Idle} : x = y
    BY DEF PasswordBusy, Alone, PasswordTyped, PasswordCallsAre, CallsTyped
  <2>2. \A X : P!Cardinality(X) = Cardinality(X)
    BY DEF P!Cardinality, Cardinality
  <2> QED
    BY <2>1, <2>2, AtMostOne, PasswordIsVisit DEF P!OneAtATime, PasswordBusy
<1>3. P!ShowsOwnWork
  BY DEF PasswordShows, P!ShowsOwnWork
<1>4. page.new \in Passwords \cup {P!Nothing}
  BY DEF PasswordTyped, P!PasswordPage
<1>5. P!RulesAgree
  <2>1. ASSUME NEW c \in Calls, call[c].arg # None, "accented" \notin call[c].arg.new.kinds
        PROVE  P!Validate(call[c].arg.new, call[c].arg.old)
    <3>1. Taken(call[c].arg)
      BY <2>1 DEF PasswordTyped
    <3>2. call[c].arg.new \in Passwords
      BY <3>1 DEF Taken, PasswordArgs
    <3> QED
      BY <2>1, <3>1, <3>2, SameRules DEF Taken
  <2>2. ASSUME page.new # P!Nothing, "accented" \notin page.new.kinds,
               P!Validate(page.new, P!Nothing)
        PROVE  P!meetsAdminMinimum(page.new)
    BY <1>4, <2>2, SameRules
  <2> QED
    BY <2>1, <2>2 DEF P!RulesAgree
<1>6. P!MeterFollowsPolicy
  <2>1. SUFFICES ASSUME page.new # P!Nothing, "accented" \notin page.new.kinds,
                        P!Differs(page.new, page.old)
                 PROVE  /\ P!Validate(page.new, page.old) =>
                             P!tone(page.new, page.old) \in {"good", "strong"}
                        /\ P!tone(page.new, page.old) = "strong" /\ ~page.new.spaces =>
                             P!Validate(page.new, page.old)
    BY DEF P!MeterFollowsPolicy
  <2>2. page.new \in Passwords
    BY <1>4, <2>1
  <2>3. /\ P!Score(page.new, page.old) \in Nat
        /\ P!meetsAdminMinimum(page.new) => P!Score(page.new, page.old) >= 7
        /\ P!Score(page.new, page.old) >= 8 /\ ~page.new.spaces =>
             P!meetsAdminMinimum(page.new)
    BY <2>1, <2>2, ScoreFollowsRules
  <2>4. P!Validate(page.new, page.old) <=> P!meetsAdminMinimum(page.new)
    BY <2>1, <2>2, SameRules
  <2>5. /\ P!Score(page.new, page.old) \in 6..7 => P!tone(page.new, page.old) = "good"
        /\ P!Score(page.new, page.old) >= 8 => P!tone(page.new, page.old) = "strong"
        /\ P!Score(page.new, page.old) < 8 => P!tone(page.new, page.old) # "strong"
    BY <2>1, <2>3, ToneIs
  <2> QED
    BY <2>3, <2>4, <2>5
<1> QED
  BY <1>1, <1>2, <1>3, <1>5, <1>6

-----------------------------------------------------------------------------
(* The console: what there is of a key pair while one call is in flight.    *)
ConsoleArgs == [key : Keys \cup {None}]

ConsoleCallsAre == CallsTyped(B!Commands \cup {"load"}, ConsoleArgs, B!Statuses)

(* The types of a visit: a command has an argument, and an answer what was  *)
(* read.                                                                    *)
ConsoleTyped ==
  /\ server \in B!Statuses
  /\ page \in [status : B!Statuses \cup {None}, pending : Keys \cup {None}]
  /\ ConsoleCallsAre
  /\ disturbed \in BOOLEAN /\ left \in 0..MaxInputs
  /\ \A c \in Calls :
       /\ call[c].op \in B!Commands => call[c].arg \in ConsoleArgs
       /\ call[c].op = "import" => call[c].arg.key = None
       /\ B!Served(c, "load") => call[c].got \in B!Statuses

(* The key of the form is not that of the booth.                            *)
KeyFree == page.pending # None => page.pending # server.key

ConsoleFits(c) ==
  /\ call[c].op \notin {"none", "register"} => KeyFree
  /\ call[c].op = "generate" => page.status = server
  /\ B!Served(c, "generate") => call[c].arg.key # server.key
  /\ B!Served(c, "load") => call[c].got = server

ConsoleShows ==
  ~disturbed => /\ Alone
                /\ \A c \in Calls : ConsoleFits(c)
                /\ Quiet => KeyFree /\ page.status = server

LEMMA ConsoleIsVisit ==
  /\ \A c, r : B!SetCall(c, r) <=> SetCall(c, r)
  /\ \A c, op, arg : B!Send(c, op, arg) <=> Send(c, op, arg)
  /\ \A c, got : B!Serve(c, got) <=> Serve(c, got)
  /\ \A c : B!Refuse(c) <=> Refuse(c)
  /\ B!Idle = Idle /\ B!Loading = Loading
  /\ B!VisitInit <=> VisitInit
  /\ B!Quiet <=> Quiet
  /\ B!Spend <=> Spend
  BY DEF B!SetCall, SetCall, B!Send, Send, B!Serve, Serve, B!Refuse, Refuse,
    B!Idle, Idle, B!Loading, Loading, B!VisitInit, VisitInit, B!Spend, Spend,
    B!Quiet, Quiet

(* What each step makes of its call.                                        *)
LEMMA ConsoleCallSteps ==
  ASSUME ConsoleTyped, NEW c \in Calls
  PROVE  /\ B!Poll(c) => /\ ConsoleCallsAre' /\ call[c].op = "none"
                         /\ Changes(c, "load", "sent", None, None)
         /\ B!Click(c) =>
              /\ ConsoleCallsAre' /\ call[c].op = "none"
              /\ \E op \in B!Commands, arg \in ConsoleArgs :
                   /\ Changes(c, op, "sent", arg, None)
                   /\ op = "import" => arg.key = None
         /\ B!StopBegins(c) => UNCHANGED <<call, page, disturbed>> /\ call[c].op = "stop"
         /\ B!Obey(c) =>
              /\ ConsoleCallsAre' /\ call[c].op \in B!Commands
              /\ \E at \in {"served", "refused"}, arg \in ConsoleArgs : \E got :
                   /\ Changes(c, call[c].op, at, arg, got)
                   /\ call[c].op = "import" => arg.key = None
                   /\ call[c].op = "generate" /\ at = "served" => arg.key \in B!FreshKeys
         /\ B!GetStatus(c) => /\ ConsoleCallsAre' /\ call[c].op = "load"
                              /\ Changes(c, "load", "served", call[c].arg, server)
         /\ B!Obeyed(c) => /\ ConsoleCallsAre' /\ call[c].op \in B!Commands \ {"generate"}
                           /\ Changes(c, "load", "sent", None, None)
         /\ B!CallFails(c) \/ B!Generated(c) \/ B!updateStatus(c) =>
              /\ ConsoleCallsAre' /\ call[c].op # "none"
              /\ Changes(c, "none", "idle", None, None)
<1> USE ConsoleIsVisit DEF ConsoleCallsAre
<1>0. /\ ConsoleCallsAre /\ server \in B!Statuses
      /\ page.pending \in Keys \cup {None}
      /\ call[c].op \in B!Commands => call[c].arg \in ConsoleArgs
      /\ call[c].op = "import" => call[c].arg.key = None
      /\ "none" \notin B!Commands
      /\ call[c].op = "none" => call[c] = Idle
  BY DEF ConsoleTyped, B!Commands, CallsTyped
<1>1. ASSUME B!Poll(c)
      PROVE  /\ ConsoleCallsAre' /\ call[c].op = "none"
             /\ Changes(c, "load", "sent", None, None)
  <2>1. SetCall(c, Loading) /\ call[c].op = "none"
    BY <1>1 DEF B!Poll, Idle
  <2> QED
    BY <1>0, <2>1, ReloadChanges
<1>2. ASSUME B!Click(c)
      PROVE  /\ ConsoleCallsAre' /\ call[c].op = "none"
             /\ \E op \in B!Commands, arg \in ConsoleArgs :
                  /\ Changes(c, op, "sent", arg, None)
                  /\ op = "import" => arg.key = None
  <2>1. PICK op \in B!Commands, key \in Keys \cup {None} :
          B!Command(c, op, key) /\ (op = "import" => key = None)
    BY <1>0, <1>2 DEF B!Click, B!GenerateKey, B!Register, B!ImportConfig, B!StartRunner,
      B!StopRunner, B!Commands
  <2> DEFINE arg == [key |-> key]
  <2>2. Send(c, op, arg)
    BY <2>1 DEF B!Command
  <2>3. arg \in ConsoleArgs /\ arg.key = key
    BY DEF ConsoleArgs
  <2> HIDE DEF arg
  <2>4. CallsTyped(B!Commands \cup {"load"}, ConsoleArgs, B!Statuses)'
        /\ Changes(c, op, "sent", arg, None) /\ call[c].op = "none"
    BY <1>0, <2>2, <2>3, SendChanges
  <2> QED
    BY <2>1, <2>3, <2>4
<1>3. ASSUME B!Obey(c)
      PROVE  /\ ConsoleCallsAre' /\ call[c].op \in B!Commands
             /\ \E at \in {"served", "refused"}, arg \in ConsoleArgs : \E got :
                  /\ Changes(c, call[c].op, at, arg, got)
                  /\ call[c].op = "import" => arg.key = None
                  /\ call[c].op = "generate" /\ at = "served" => arg.key \in B!FreshKeys
  <2>1. call[c].op \in B!Commands
    BY <1>3 DEF B!Obey
  <2>2. CASE call[c].op # "generate" /\ Serve(c, None)
    BY <1>0, <2>1, <2>2, ServeChanges
  <2>3. CASE Refuse(c)
    BY <1>0, <2>1, <2>3, RefuseChanges
  <2>4. ASSUME call[c].op = "generate", NEW k \in B!FreshKeys,
               SetCall(c, [call[c] EXCEPT !.at = "served", !.arg.key = k])
        PROVE  /\ ConsoleCallsAre'
               /\ \E arg \in ConsoleArgs : \E got :
                    Changes(c, "generate", "served", arg, got) /\ arg.key = k
    <3> DEFINE arg == [call[c].arg EXCEPT !.key = k]
               r == [call[c] EXCEPT !.at = "served", !.arg = arg]
               R == [op : (B!Commands \cup {"load"}) \cup {"none"},
                     at : {"idle", "sent", "served", "refused"},
                     arg : ConsoleArgs \cup {None}, got : B!Statuses \cup {None}]
    <3>1. arg \in ConsoleArgs /\ arg.key = k
      BY <1>0, <2>1 DEF ConsoleArgs, B!FreshKeys
    <3>2. SetCall(c, r)
      BY <2>4
    <3> HIDE DEF arg
    <3>3. call[c] \in R
      BY <1>0 DEF CallsTyped, CallsOf
    <3>4. r \in R /\ r.op = call[c].op /\ r.at = "served" /\ r.arg = arg
          /\ r.got = call[c].got
      BY <3>1, <3>3
    <3> HIDE DEF r
    <3>5. CallsTyped(B!Commands \cup {"load"}, ConsoleArgs, B!Statuses)'
          /\ Changes(c, r.op, r.at, r.arg, r.got)
      BY <1>0, <2>1, <3>2, <3>4, CallChanges
    <3> QED
      BY <2>1, <2>4, <3>1, <3>4, <3>5
  <2> QED
    BY <1>3, <2>1, <2>2, <2>3, <2>4 DEF B!Obey
<1>4. ASSUME B!GetStatus(c)
      PROVE  /\ ConsoleCallsAre' /\ call[c].op = "load"
             /\ Changes(c, "load", "served", call[c].arg, server)
  BY <1>0, <1>4, ServeChanges DEF B!GetStatus, B!Sent
<1>5. ASSUME B!Obeyed(c)
      PROVE  /\ ConsoleCallsAre' /\ call[c].op \in B!Commands \ {"generate"}
             /\ Changes(c, "load", "sent", None, None)
  BY <1>0, <1>5, ReloadChanges DEF B!Obeyed
<1>6. ASSUME B!CallFails(c) \/ B!Generated(c) \/ B!updateStatus(c)
      PROVE  /\ ConsoleCallsAre' /\ call[c].op # "none"
             /\ Changes(c, "none", "idle", None, None)
  BY <1>0, <1>6, EndChanges DEF B!CallFails, B!Generated, B!updateStatus, B!Served
<1>7. B!StopBegins(c) => UNCHANGED <<call, page, disturbed>> /\ call[c].op = "stop"
  BY DEF B!StopBegins, B!Sent
<1> QED
  BY <1>1, <1>2, <1>3, <1>4, <1>5, <1>6, <1>7

LEMMA ConsoleStepTyped ==
  ASSUME ConsoleTyped, B!Next
  PROVE  ConsoleTyped'
<1> USE ConsoleIsVisit
<1>0. /\ ConsoleCallsAre /\ server \in B!Statuses
      /\ page \in [status : B!Statuses \cup {None}, pending : Keys \cup {None}]
      /\ disturbed \in BOOLEAN /\ left \in 0..MaxInputs
      /\ \A c \in Calls :
           /\ call[c].op \in B!Commands => call[c].arg \in ConsoleArgs
           /\ call[c].op = "import" => call[c].arg.key = None
           /\ B!Served(c, "load") => call[c].got \in B!Statuses
  BY DEF ConsoleTyped
<1>1. left' \in 0..MaxInputs
  <2>1. UNCHANGED left \/ Spend
    BY DEF B!Next, B!RunnerMoves, B!Poll, B!Click, B!GenerateKey, B!Register,
      B!ImportConfig, B!StartRunner, B!StopRunner, B!Command, B!Send, B!Progress,
      B!StopBegins, B!Obey, B!GetStatus, B!CallFails, B!Fails, B!Generated, B!Obeyed, B!updateStatus
  <2> QED
    BY <1>0, <2>1, InputSpent
<1>2. disturbed' \in BOOLEAN
  BY <1>0, Zenon DEF B!Next, B!RunnerMoves, B!Poll, B!Click, B!GenerateKey, B!Register,
    B!ImportConfig, B!StartRunner, B!StopRunner, B!Command, B!Send, B!Progress,
    B!StopBegins, B!Obey, B!GetStatus, B!CallFails, B!Generated, B!Obeyed, B!updateStatus
<1>3. server' \in B!Statuses
  <2>1. ASSUME NEW l \in B!Lifecycles, server' = [server EXCEPT !.lifecycle = l]
        PROVE  server' \in B!Statuses
    BY <1>0, <2>1 DEF B!Statuses
  <2>2. CASE B!RunnerMoves
    BY <2>1, <2>2 DEF B!RunnerMoves, B!Lifecycles
  <2>3. ASSUME NEW c \in Calls, B!Obey(c) PROVE server' \in B!Statuses
    <3>1. CASE UNCHANGED server
      BY <1>0, <3>1
    <3>2. CASE \E l \in B!Lifecycles : server' = [server EXCEPT !.lifecycle = l]
      BY <2>1, <3>2
    <3>3. CASE server' = [key |-> IF call[c].arg.key = None THEN B!Elsewhere
                                  ELSE call[c].arg.key,
                          lifecycle |-> "starting"]
      <4>1. call[c].arg.key \in Keys \cup {None}
        BY <1>0, <2>3 DEF B!Obey, ConsoleArgs
      <4> QED
        BY <3>3, <4>1 DEF B!Statuses, B!Lifecycles
    <3>4. server.lifecycle \in B!Lifecycles
      BY <1>0 DEF B!Statuses
    <3>5. ASSUME server' = [server EXCEPT !.lifecycle =
                              IF @ \in B!AtWork THEN @ ELSE "starting"]
          PROVE  \E l \in B!Lifecycles : server' = [server EXCEPT !.lifecycle = l]
      BY <3>4, <3>5 DEF B!Lifecycles
    <3>6. ASSUME server' = [server EXCEPT !.lifecycle = "stopped"]
          PROVE  \E l \in B!Lifecycles : server' = [server EXCEPT !.lifecycle = l]
      BY <3>6 DEF B!Lifecycles
    <3> QED
      BY <2>3, <3>1, <3>2, <3>3, <3>5, <3>6 DEF B!Obey
  <2>4. CASE UNCHANGED server
    BY <1>0, <2>4
  <2>5. ASSUME NEW c \in Calls, B!StopBegins(c) PROVE server' \in B!Statuses
    BY <2>1, <2>5 DEF B!StopBegins, B!Lifecycles
  <2> QED
    BY <2>2, <2>3, <2>4, <2>5 DEF B!Next, B!Poll, B!Click, B!GenerateKey, B!Register,
      B!ImportConfig, B!StartRunner, B!StopRunner, B!Command, B!Progress, B!GetStatus,
      B!CallFails, B!Generated, B!Obeyed, B!updateStatus
<1>4. page' \in [status : B!Statuses \cup {None}, pending : Keys \cup {None}]
  <2>1. ASSUME NEW c \in Calls, B!Generated(c) PROVE <1>4!:
    <3>1. call[c].arg.key \in Keys \cup {None}
      BY <1>0, <2>1 DEF B!Generated, B!Served, B!Commands, ConsoleArgs
    <3> QED
      BY <1>0, <2>1, <3>1 DEF B!Generated
  <2>2. ASSUME NEW c \in Calls, B!Obeyed(c) PROVE <1>4!:
    BY <1>0, <2>2 DEF B!Obeyed
  <2>3. ASSUME NEW c \in Calls, B!updateStatus(c) PROVE <1>4!:
    <3>1. call[c].got \in B!Statuses
      BY <1>0, <2>3 DEF B!updateStatus
    <3> QED
      BY <1>0, <2>3, <3>1 DEF B!updateStatus
  <2>4. CASE UNCHANGED page
    BY <1>0, <2>4
  <2> QED
    BY <2>1, <2>2, <2>3, <2>4 DEF B!Next, B!RunnerMoves, B!Poll, B!Click, B!GenerateKey,
      B!Register, B!ImportConfig, B!StartRunner, B!StopRunner, B!Command, B!Progress,
      B!StopBegins, B!Obey, B!GetStatus, B!CallFails
<1>5. /\ ConsoleCallsAre'
      /\ \A c \in Calls :
           /\ call'[c].op \in B!Commands => call'[c].arg \in ConsoleArgs
           /\ call'[c].op = "import" => call'[c].arg.key = None
           /\ B!Served(c, "load")' => call'[c].got \in B!Statuses
  <2>1. CASE UNCHANGED call
    BY <1>0, <2>1 DEF ConsoleCallsAre, CallsTyped, B!Served
  <2>2. ASSUME NEW c \in Calls, NEW op, NEW at, NEW arg, NEW got,
               ConsoleCallsAre', Changes(c, op, at, arg, got),
               op \in B!Commands => arg \in ConsoleArgs,
               op = "import" => arg.key = None,
               op = "load" /\ at = "served" => got \in B!Statuses
        PROVE  <1>5!:
    BY <1>0, <2>2 DEF Changes, B!Served
  <2>3. "load" \notin B!Commands /\ "none" \notin B!Commands
    BY DEF B!Commands
  <2>4. ASSUME NEW c \in Calls, B!Poll(c) \/ B!Click(c) PROVE <1>5!:
    BY <2>2, <2>3, <2>4, ConsoleCallSteps
  <2>5. ASSUME NEW c \in Calls, B!Progress(c) PROVE <1>5!:
    BY <1>0, <2>1, <2>2, <2>3, <2>5, ConsoleCallSteps DEF B!Progress
  <2> QED
    BY <2>1, <2>4, <2>5 DEF B!Next, B!RunnerMoves
<1> QED
  BY <1>0, <1>1, <1>2, <1>3, <1>4, <1>5 DEF ConsoleTyped

LEMMA ConsoleStepShows ==
  ASSUME ConsoleTyped, ConsoleShows, B!Next
  PROVE  ConsoleShows'
<1> USE ConsoleIsVisit
<1>0. /\ page \in [status : B!Statuses \cup {None}, pending : Keys \cup {None}]
      /\ server \in B!Statuses
      /\ \A c \in Calls : call[c].op = "none" => call[c] = Idle
  BY DEF ConsoleTyped, ConsoleCallsAre, CallsTyped
<1>1. CASE B!RunnerMoves
  BY <1>1 DEF B!RunnerMoves, ConsoleShows
(* The one call there is has been sent or answered, ...                     *)
<1>2. ASSUME NEW c \in Calls, NEW op, NEW at, NEW arg, NEW got,
             Changes(c, op, at, arg, got), op # "none",
             ~disturbed' => \A d \in Calls : d # c => call'[d].op = "none",
             ~disturbed' => ConsoleFits(c)'
      PROVE  ConsoleShows'
  <2>1. ~Quiet'
    BY <1>2 DEF Quiet, Changes, Idle
  <2> QED
    BY <1>2, <2>1 DEF ConsoleShows, ConsoleFits, B!Served, Alone
(* ... or has ended.                                                        *)
<1>3. ASSUME NEW c \in Calls, Changes(c, "none", "idle", None, None),
             ~disturbed' => \A d \in Calls : d # c => call'[d].op = "none",
             ~disturbed' => KeyFree' /\ page'.status = server'
      PROVE  ConsoleShows'
  BY <1>3 DEF ConsoleShows, ConsoleFits, B!Served, Changes, Alone
<1>4. ASSUME NEW c \in Calls, B!Poll(c) \/ B!Click(c) PROVE ConsoleShows'
  <2>1. UNCHANGED <<server, page>> /\ (~disturbed' => ~disturbed /\ Quiet)
    BY <1>4 DEF B!Poll, B!Click, B!GenerateKey, B!Register, B!ImportConfig,
      B!StartRunner, B!StopRunner, B!Command, B!Send
  <2>2. \E op, arg : op # "none" /\ Changes(c, op, "sent", arg, None)
    BY <1>4, ConsoleCallSteps DEF B!Commands
  <2>3. ~disturbed' => \A d \in Calls : d # c => call'[d].op = "none"
    BY <2>1, <2>2 DEF Quiet, Changes, Idle
  <2>4. ~disturbed' => KeyFree' /\ page'.status = server'
    BY <2>1 DEF ConsoleShows, KeyFree
  <2> QED
    BY <1>2, <2>2, <2>3, <2>4 DEF ConsoleFits, B!Served, Changes
<1>5. ASSUME NEW c \in Calls, ~disturbed, call[c].op # "none", NEW op, NEW at, NEW arg,
             NEW got, Changes(c, op, at, arg, got)
      PROVE  \A d \in Calls : d # c => call'[d].op = "none"
  BY <1>5, AloneGoesOn DEF ConsoleShows
<1>6. ASSUME NEW c \in Calls, B!Obey(c) PROVE ConsoleShows'
  <2>1. PICK at \in {"served", "refused"}, arg \in ConsoleArgs : \E got :
          /\ Changes(c, call[c].op, at, arg, got)
          /\ call[c].op \in B!Commands
          /\ call[c].op = "import" => arg.key = None
          /\ call[c].op = "generate" /\ at = "served" => arg.key \in B!FreshKeys
    BY <1>6, ConsoleCallSteps
  <2>2. UNCHANGED <<page, disturbed>> /\ call[c].op # "none" /\ call[c].op # "load"
    BY <1>6, <2>1 DEF B!Obey, B!Commands
  <2>3. ASSUME ~disturbed PROVE ConsoleFits(c)'
    <3>1. ConsoleFits(c)
      BY <2>3 DEF ConsoleShows
    <3>2. CASE call[c].op = "generate"
      <4>1. UNCHANGED server
        BY <1>6, <3>2 DEF B!Obey
      <4> QED
        BY <2>1, <2>2, <3>1, <3>2, <4>1 DEF ConsoleFits, KeyFree, B!Served, Changes,
          B!FreshKeys
    <3>3. CASE call[c].op = "import"
      <4>1. call[c].arg.key = None
        BY <3>3 DEF ConsoleTyped
      <4>2. UNCHANGED server \/ server'.key = B!Elsewhere
        BY <1>6, <3>3, <4>1 DEF B!Obey
      <4> QED
        BY <1>0, <2>1, <2>2, <3>1, <3>3, <4>2, KeysAreGenerated
          DEF ConsoleFits, KeyFree, B!Served, Changes
    <3>4. CASE call[c].op \in {"start", "stop"}
      <4>1. server'.key = server.key
        BY <1>0, <1>6, <3>4 DEF B!Obey, B!Statuses
      <4> QED
        BY <2>1, <2>2, <3>1, <3>4, <4>1 DEF ConsoleFits, KeyFree, B!Served, Changes
    <3>5. CASE call[c].op = "register"
      BY <2>1, <3>5 DEF ConsoleFits, B!Served, Changes
    <3> QED
      BY <2>1, <3>2, <3>3, <3>4, <3>5 DEF B!Commands
  <2> QED
    BY <1>2, <1>5, <2>1, <2>2, <2>3
<1>7. ASSUME NEW c \in Calls, B!GetStatus(c) PROVE ConsoleShows'
  <2>1. Changes(c, "load", "served", call[c].arg, server) /\ call[c].op = "load"
    BY <1>7, ConsoleCallSteps
  <2>2. UNCHANGED <<server, page, disturbed>>
    BY <1>7 DEF B!GetStatus
  <2>3. ~disturbed => KeyFree
    BY <2>1 DEF ConsoleShows, ConsoleFits
  <2> QED
    BY <1>2, <1>5, <2>1, <2>2, <2>3 DEF ConsoleFits, KeyFree, B!Served, Changes
<1>8. ASSUME NEW c \in Calls, B!Obeyed(c) PROVE ConsoleShows'
  <2>1. Changes(c, "load", "sent", None, None) /\ call[c].op \in B!Commands \ {"generate"}
    BY <1>8, ConsoleCallSteps
  <2>2. UNCHANGED <<server, disturbed>> /\ call[c].op # "none"
    BY <1>8, <2>1 DEF B!Obeyed, B!Commands
  <2>3. ~disturbed => KeyFree'
    <3>1. CASE call[c].op = "register"
      BY <1>0, <1>8, <3>1 DEF B!Obeyed, KeyFree
    <3>2. CASE call[c].op # "register"
      BY <1>8, <2>2, <3>2 DEF B!Obeyed, ConsoleShows, ConsoleFits, KeyFree
    <3> QED
      BY <3>1, <3>2
  <2> QED
    BY <1>2, <1>5, <2>1, <2>2, <2>3 DEF ConsoleFits, B!Served, Changes
<1>9. ASSUME NEW c \in Calls, B!CallFails(c) PROVE ConsoleShows'
  BY <1>9 DEF B!CallFails, ConsoleShows
<1>10. ASSUME NEW c \in Calls, B!Generated(c) PROVE ConsoleShows'
  <2>1. Changes(c, "none", "idle", None, None) /\ call[c].op # "none"
    BY <1>10, ConsoleCallSteps
  <2>2. /\ UNCHANGED <<server, disturbed>> /\ B!Served(c, "generate")
        /\ page'.pending = call[c].arg.key /\ page'.status = page.status
    BY <1>0, <1>10 DEF B!Generated
  <2>3. ~disturbed => KeyFree' /\ page'.status = server'
    BY <2>2 DEF ConsoleShows, ConsoleFits, KeyFree, B!Served
  <2> QED
    BY <1>3, <1>5, <2>1, <2>2, <2>3
<1>11. ASSUME NEW c \in Calls, B!updateStatus(c) PROVE ConsoleShows'
  <2>1. Changes(c, "none", "idle", None, None) /\ call[c].op # "none"
    BY <1>11, ConsoleCallSteps
  <2>2. /\ UNCHANGED <<server, disturbed>> /\ B!Served(c, "load")
        /\ page'.pending = page.pending /\ page'.status = call[c].got
    BY <1>0, <1>11 DEF B!updateStatus
  <2>3. ~disturbed => KeyFree' /\ page'.status = server'
    BY <2>2 DEF ConsoleShows, ConsoleFits, KeyFree, B!Served
  <2> QED
    BY <1>3, <1>5, <2>1, <2>2, <2>3
(* The key stays while a stop waits for the runner to end.                  *)
<1>12. ASSUME NEW c \in Calls, B!StopBegins(c) PROVE ConsoleShows'
  <2>1. UNCHANGED <<call, page, disturbed>> /\ call[c].op = "stop"
    BY <1>12, ConsoleCallSteps
  <2>2. server'.key = server.key
    BY <1>0, <1>12 DEF B!StopBegins, B!Statuses
  <2>3. ASSUME ~disturbed PROVE \A d \in Calls : d # c => call[d].op = "none"
    BY <2>1, <2>3 DEF ConsoleShows, Alone
  <2>4. ~Quiet /\ ~Quiet'
    BY <2>1 DEF Quiet, Idle
  <2> QED
    BY <2>1, <2>2, <2>3, <2>4 DEF ConsoleShows, ConsoleFits, KeyFree, B!Served, Alone
<1> QED
  BY <1>1, <1>4, <1>6, <1>7, <1>8, <1>9, <1>10, <1>11, <1>12 DEF B!Next, B!Progress

LEMMA ConsoleBegins == B!Init => ConsoleTyped /\ ConsoleShows
<1> SUFFICES ASSUME B!Init PROVE ConsoleTyped /\ ConsoleShows
  OBVIOUS
<1>1. VisitInit
  BY ConsoleIsVisit DEF B!Init
<1>2. /\ ConsoleCallsAre
      /\ \A c \in Calls : call[c].op \in {"none", "load"} /\ call[c].at # "served"
      /\ disturbed = FALSE /\ left = MaxInputs /\ Alone /\ ~Quiet
  BY <1>1, VisitBegins, VisitCalls DEF ConsoleCallsAre
<1>3. /\ server \in B!Statuses
      /\ page \in [status : B!Statuses \cup {None}, pending : Keys \cup {None}]
      /\ page.pending = None
  BY DEF B!Init, B!Statuses, B!Lifecycles
<1>4. ConsoleTyped
  <2>1. left \in 0..MaxInputs
    BY <1>2, InputsAreNat
  <2> QED
    BY <1>2, <1>3, <2>1 DEF ConsoleTyped, B!Served, B!Commands
<1>5. ConsoleShows
  BY <1>2, <1>3 DEF ConsoleShows, ConsoleFits, KeyFree, B!Served
<1> QED
  BY <1>4, <1>5

LEMMA ConsoleHolds ==
  ASSUME ConsoleTyped, ConsoleShows
  PROVE  B!TypeOK /\ B!KeyUsedOnce /\ B!ShowsOwnWork
<1>1. B!TypeOK
  BY DEF ConsoleTyped, ConsoleCallsAre, CallsTyped, B!TypeOK, ConsoleArgs, B!CallsOf, CallsOf
<1>2. B!KeyUsedOnce /\ B!ShowsOwnWork
  BY ConsoleIsVisit DEF ConsoleShows, KeyFree, B!KeyUsedOnce, B!ShowsOwnWork
<1> QED
  BY <1>1, <1>2

-----------------------------------------------------------------------------
(* Each page with its invariant, and what a step or none makes of it.       *)
DevicePageInv == DeviceTyped /\ DeviceBusy /\ DeviceShows
EventPageInv == EventTyped /\ EventBusy /\ EventKnown /\ EventShows /\ EventDays
CouplePageInv == CoupleTyped /\ CoupleBusy /\ CoupleShows
SmtpPageInv == SmtpTyped /\ SmtpBusy /\ SmtpShows /\ SmtpInv
PasswordPageInv == PasswordTyped /\ PasswordBusy /\ PasswordShows
ConsolePageInv == ConsoleTyped /\ ConsoleShows

LEMMA DevicePageKeeps ==
  ASSUME DevicePageInv, D!Next \/ UNCHANGED vars
  PROVE  DevicePageInv'
<1>1. CASE D!Next
  BY <1>1, DeviceStepTyped, DeviceStepBusy, DeviceStepShows DEF DevicePageInv
<1>2. CASE UNCHANGED vars
  BY <1>2 DEF vars, DevicePageInv, DeviceTyped, DraftsAssign, DeviceCallsAre, CallsTyped,
    DeviceBusy, DeviceShows, RegistryShown, RegistryFits, Agrees, Alone, Quiet
<1> QED
  BY <1>1, <1>2

LEMMA EventPageKeeps ==
  ASSUME EventPageInv, E!Next \/ UNCHANGED vars
  PROVE  EventPageInv'
<1>1. CASE E!Next
  BY <1>1, EventStepTyped, EventStepBusy, EventStepKnown, EventStepShows, EventStepDays
     DEF EventPageInv
<1>2. CASE UNCHANGED vars
  <2>1. EventTyped' /\ EventBusy' /\ EventKnown'
    BY <1>2 DEF vars, EventPageInv, EventTyped, FormBounded, EventCallsAre, CallsTyped,
      EventBusy, EventKnown, Once
  <2>2. EventShows' /\ EventDays'
    BY <1>2 DEF vars, EventPageInv, EventShows, EventsShown, EventFits, ListsEvents,
      ListsContacts, Alone, Quiet, EventDays, NoUpdate, DaysKept, DaysOrDefault
  <2> QED
    BY <2>1, <2>2 DEF EventPageInv
<1> QED
  BY <1>1, <1>2

LEMMA CouplePageKeeps ==
  ASSUME CouplePageInv, C!Next \/ UNCHANGED vars
  PROVE  CouplePageInv'
<1>1. CASE C!Next
  BY <1>1, CoupleStepTyped, CoupleStepBusy, CoupleStepShows DEF CouplePageInv
<1>2. CASE UNCHANGED vars
  BY <1>2 DEF vars, CouplePageInv, CoupleTyped, CoupleCallsAre, CallsTyped, CoupleGot,
    CoupleBusy, CoupleShows, GalleryShown, GalleryFits, C!Served, ListsAll, ListsOthers,
    Alone, Quiet
<1> QED
  BY <1>1, <1>2

LEMMA SmtpPageKeeps ==
  ASSUME SmtpPageInv, S!Next \/ UNCHANGED vars
  PROVE  SmtpPageInv'
<1>1. CASE S!Next
  BY <1>1, SmtpStepTyped, SmtpStepBusy, SmtpStepShows, SmtpStepKeeps DEF SmtpPageInv
<1>2. CASE UNCHANGED vars
  <2>1. SmtpTyped' /\ SmtpBusy' /\ SmtpShows'
    BY <1>2 DEF vars, SmtpPageInv, SmtpTyped, SmtpCallsAre, CallsTyped, S!Served,
      SmtpBusy, SmtpShows, SmtpFits, Quiet
  <2>2. SmtpInv'
    BY <1>2 DEF vars, SmtpPageInv, SmtpInv, CallsAre, MailIs, Alone, TestsTheRow
  <2> QED
    BY <2>1, <2>2 DEF SmtpPageInv
<1> QED
  BY <1>1, <1>2

LEMMA PasswordPageKeeps ==
  ASSUME PasswordPageInv, P!Next \/ UNCHANGED vars
  PROVE  PasswordPageInv'
<1>1. CASE P!Next
  BY <1>1, PasswordStepTyped, PasswordStepBusy, PasswordStepShows DEF PasswordPageInv
<1>2. CASE UNCHANGED vars
  BY <1>2 DEF vars, PasswordPageInv, PasswordTyped, PasswordCallsAre, CallsTyped,
    PasswordBusy, PasswordShows, Alone, Quiet
<1> QED
  BY <1>1, <1>2

LEMMA ConsolePageKeeps ==
  ASSUME ConsolePageInv, B!Next \/ UNCHANGED vars
  PROVE  ConsolePageInv'
<1>1. CASE B!Next
  BY <1>1, ConsoleStepTyped, ConsoleStepShows DEF ConsolePageInv
<1>2. CASE UNCHANGED vars
  BY <1>2 DEF vars, ConsolePageInv, ConsoleTyped, ConsoleCallsAre, CallsTyped, B!Served,
    ConsoleShows, KeyFree, ConsoleFits, Alone, Quiet
<1> QED
  BY <1>1, <1>2

(* A visit is to one page, whose invariant holds.                           *)
VisitInv ==
  \/ visit = "devices" /\ DevicePageInv
  \/ visit = "events" /\ EventPageInv
  \/ visit = "couple" /\ CouplePageInv
  \/ visit = "smtp" /\ SmtpPageInv
  \/ visit = "password" /\ PasswordPageInv
  \/ visit = "console" /\ ConsolePageInv

LEMMA VisitKeeps == Spec => []VisitInv
<1>1. Init => VisitInv
  BY DeviceBegins, EventBegins, CoupleBegins, SmtpBeginsTyped, SmtpBegins, PasswordBegins,
     ConsoleBegins
     DEF Init, VisitInv, DevicePageInv, EventPageInv, CouplePageInv, SmtpPageInv,
         PasswordPageInv, ConsolePageInv
<1>2. VisitInv /\ [Next]_<<visit, vars>> => VisitInv'
  <2> SUFFICES ASSUME VisitInv, [Next]_<<visit, vars>> PROVE VisitInv'
    OBVIOUS
  <2>1. visit' = visit
    BY DEF Next, DeviceStep, EventStep, CoupleStep, SmtpStep, PasswordStep, ConsoleStep
  <2>2. /\ visit = "devices" => D!Next \/ UNCHANGED vars
        /\ visit = "events" => E!Next \/ UNCHANGED vars
        /\ visit = "couple" => C!Next \/ UNCHANGED vars
        /\ visit = "smtp" => S!Next \/ UNCHANGED vars
        /\ visit = "password" => P!Next \/ UNCHANGED vars
        /\ visit = "console" => B!Next \/ UNCHANGED vars
    BY DEF Next, DeviceStep, EventStep, CoupleStep, SmtpStep, PasswordStep, ConsoleStep
  <2> QED
    BY <2>1, <2>2, DevicePageKeeps, EventPageKeeps, CouplePageKeeps, SmtpPageKeeps,
       PasswordPageKeeps, ConsolePageKeeps DEF VisitInv
<1> QED
  BY <1>1, <1>2, PTL DEF Spec

(* What the invariants of the pages say, by the kind of the visit.          *)
LEMMA VisitHolds ==
  ASSUME VisitInv
  PROVE  /\ visit \in {"devices", "events", "couple", "smtp", "password", "console"}
         /\ visit = "devices" => D!TypeOK /\ D!OneProvisioning /\ D!ShowsOwnWork
         /\ visit = "events" => E!TypeOK /\ E!OneAtATime /\ E!ShowsOwnWork
                                /\ E!UntouchedDaysOrDefault
         /\ visit = "couple" => C!TypeOK /\ C!OneAtATime /\ C!ShowsOwnWork
         /\ visit = "smtp" => S!TypeOK /\ S!OneAtATime /\ S!ShowsOwnWork
         /\ visit = "password" => /\ P!TypeOK /\ P!OneAtATime /\ P!ShowsOwnWork
                                  /\ P!RulesAgree /\ P!MeterFollowsPolicy
         /\ visit = "console" => B!TypeOK /\ B!KeyUsedOnce /\ B!ShowsOwnWork
  BY DeviceHolds, EventHolds, CoupleHolds, SmtpHolds, PasswordHolds, ConsoleHolds
     DEF VisitInv, DevicePageInv, EventPageInv, CouplePageInv, SmtpPageInv,
         PasswordPageInv, ConsolePageInv

(* Whatever page is visited, its state, its calls and what the server has   *)
(* stay what the code can make of them: no answer is taken for that of      *)
(* another operation, and an event always has an album to show.             *)
THEOREM PagesTypeCorrect == Spec => []TypeOK
<1>1. VisitInv => TypeOK
  BY VisitHolds DEF TypeOK
<1> QED
  BY <1>1, VisitKeeps, PTL

(* One click is one device, event, set of invitations, caption, save, test  *)
(* or password, whatever else is clicked until the answer comes, and        *)
(* whether it comes or not.                                                 *)
THEOREM OneClickOneCall == Spec => []OneAtATime
<1>1. VisitInv => OneAtATime
  BY VisitHolds DEF OneAtATime
<1> QED
  BY <1>1, VisitKeeps, PTL

(* A page that did one thing at a time, beside nobody else, shows the data  *)
(* as they are, once its calls are answered: what a page merges into its    *)
(* list is what the server made of the operation.                           *)
THEOREM OwnWorkShown == Spec => []ShowsOwnWork
<1>1. VisitInv => ShowsOwnWork
  BY VisitHolds DEF ShowsOwnWork
<1> QED
  BY <1>1, VisitKeeps, PTL

(* A form whose days were not touched sends the days that its event has, and*)
(* the default for an event of no days: an edit of something else leaves    *)
(* alone how long photos are kept, except that it lengthens 0 days.         *)
THEOREM DaysUntouched == Spec => []UntouchedDaysOrDefault
<1>1. VisitInv => UntouchedDaysOrDefault
  BY VisitHolds DEF UntouchedDaysOrDefault
<1> QED
  BY <1>1, VisitKeeps, PTL

(* The rules of a password that the web app checks are those of the server  *)
(* for what is written in ASCII. Of its meter only so much holds: what the  *)
(* server takes is rated good or strong, and what is rated strong and has   *)
(* no space is taken. For every password, not the ones a run tries.         *)
THEOREM RulesOfBothAgree == Spec => []RulesAgree
<1>1. VisitInv => RulesAgree
  BY VisitHolds DEF RulesAgree
<1> QED
  BY <1>1, VisitKeeps, PTL

(* A key pair that the console generated is offered for one registration:   *)
(* what is pending is not what the booth already has, as far as anybody can *)
(* tell (nobody else wrote, and no calls overlapped).                       *)
THEOREM KeyRegisteredOnce == Spec => []KeyUsedOnce
<1>1. VisitInv => KeyUsedOnce
  BY VisitHolds DEF KeyUsedOnce
<1> QED
  BY <1>1, VisitKeeps, PTL

=============================================================================
