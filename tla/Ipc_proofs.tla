------------------------------ MODULE Ipc_proofs ------------------------------
(***************************************************************************)
(* Proofs about the IPC layer, for any number of pages, calls, listeners   *)
(* and messages: a header is followed by its bytes, a reply settles its    *)
(* call, the subscriptions of a socket follow the listeners of its page,   *)
(* and a page shows the device list of the server.                         *)
(***************************************************************************)
EXTENDS Ipc, TLAPS, FiniteSetTheorems, SequenceTheorems

LEMMA BoundsAreNat ==
    /\ MaxCalls \in Nat /\ MaxLag \in Nat /\ MaxToggles \in Nat
    /\ MaxChanges \in Nat /\ MaxFrames \in Nat
BY IpcAssumption

\* A count of a page and a name changes.
LEMMA Update ==
    ASSUME NEW f \in [Pages -> [Names -> Nat]], NEW p \in Pages, NEW n \in Names,
           NEW k \in Nat
    PROVE  [f EXCEPT ![p][n] = k] \in [Pages -> [Names -> Nat]]
<1>1. [f[p] EXCEPT ![n] = k] \in [Names -> Nat]
  OBVIOUS
<1>2. QED
  BY <1>1

ServerType ==
    /\ devices \in 0 .. MaxChanges /\ frames \in 0 .. MaxFrames
    /\ serverEnd \in [Pages -> Ends]
    /\ count \in [Pages -> [Names -> Nat]]
    /\ serving \in [Pages -> SUBSET [call : Calls, result : 0 .. MaxChanges]]

PageType ==
    /\ clientEnd \in [Pages -> Ends]
    /\ nextId \in [Pages -> [Handles -> 0 .. MaxCalls]]
    /\ callbacks \in [Pages -> SUBSET Calls]
    /\ listeners \in [Pages -> [Names -> Nat]]
    /\ rawEvent \in [Pages -> {None} \cup 1 .. MaxFrames]
    /\ store \in [Pages -> [initialized : BOOLEAN, devices : 0 .. MaxChanges]]

WayType ==
    /\ toServer \in [Pages -> Seq(Requests)]
    /\ toClient \in [Pages -> Seq(Notifications)]
    /\ missed \in [Pages -> BOOLEAN]

Types == ServerType /\ PageType /\ WayType

-----------------------------------------------------------------------------
(***************************************************************************)
(* Messages                                                                *)
(***************************************************************************)
LEMMA RequestTypes ==
    /\ \A n \in Names, on \in BOOLEAN : Subscribe(n, on) \in Requests
    /\ \A c \in Calls : Request(c) \in Requests
    /\ \A m \in Requests : m.kind = "call" => m.call \in Calls
    /\ \A m \in Requests :
          m.kind = "subscribe" => m.name \in Names /\ m.subscribe \in BOOLEAN
BY DEF Requests, Subscribe, Request

LEMMA NotificationTypes ==
    /\ \A c \in Calls, r \in 0 .. MaxChanges : Reply(c, r) \in Notifications
    /\ \A v \in 0 .. MaxChanges : Devices(v) \in Notifications
    /\ \A f \in 1 .. MaxFrames : Header(f) \in Notifications /\ Bytes(f) \in Notifications
    /\ \A m \in Notifications :
          /\ m.kind = "reply" => m.call \in Calls /\ m.result \in 0 .. MaxChanges
          /\ m.kind = "devices" => m.version \in 0 .. MaxChanges
          /\ m.kind = "header" => m.frame \in 1 .. MaxFrames
BY DEF Notifications, Reply, Devices, Header, Bytes

LEMMA PostType ==
    ASSUME NEW p \in Pages, NEW m \in Requests,
           toServer \in [Pages -> Seq(Requests)], Post(p, <<m>>)
    PROVE  toServer' \in [Pages -> Seq(Requests)]
<1>1. toServer[p] \o <<m>> \in Seq(Requests)
  OBVIOUS
<1>2. QED
  BY <1>1 DEF Post

LEMMA DeliverType ==
    ASSUME NEW what, \A p \in Pages : what[p] \in Seq(Notifications),
           toClient \in [Pages -> Seq(Notifications)], Deliver(what)
    PROVE  toClient' \in [Pages -> Seq(Notifications)]
<1>1. \A p \in Pages : toClient[p] \o what[p] \in Seq(Notifications)
  OBVIOUS
<1>2. QED
  BY <1>1 DEF Deliver

LEMMA DeliverToType ==
    ASSUME NEW p \in Pages, NEW m \in Notifications,
           toClient \in [Pages -> Seq(Notifications)], DeliverTo(p, <<m>>)
    PROVE  toClient' \in [Pages -> Seq(Notifications)]
<1> DEFINE what == [q \in Pages |-> IF q = p THEN <<m>> ELSE <<>>]
<1>1. <<m>> \in Seq(Notifications)
  OBVIOUS
<1>2. <<>> \in Seq(Notifications)
  OBVIOUS
<1>3. \A q \in Pages : what[q] \in Seq(Notifications)
  BY <1>1, <1>2
<1>4. Deliver(what)
  BY DEF DeliverTo
<1> HIDE DEF what
<1>5. QED
  BY <1>3, <1>4, DeliverType

-----------------------------------------------------------------------------
(***************************************************************************)
(* The types, one step per action                                          *)
(***************************************************************************)
LEMMA TypesInit == Init => Types
<1> SUFFICES ASSUME Init PROVE Types
  OBVIOUS
<1>1. ServerType /\ PageType
  BY BoundsAreNat DEF Init, ServerType, PageType, Ends, NewStore
<1>2. toServer \in [Pages -> Seq(Requests)]
  BY DEF Init
<1>3. toClient \in [Pages -> Seq(Notifications)]
  BY DEF Init
<1>4. QED
  BY <1>1, <1>2, <1>3 DEF Init, WayType, Types

LEMMA SocketTypes ==
    ASSUME Types, NEW p \in Pages, Open(p) \/ ClientCloses(p) \/ ServerCloses(p)
    PROVE  Types'
<1>1. CASE Open(p)
  BY <1>1 DEF Open, Types, ServerType, PageType, WayType, Ends
<1>2. CASE ClientCloses(p)
  <2>1. <<>> \in Seq(Notifications)
    OBVIOUS
  <2>2. QED
    BY <1>2, <2>1
    DEF ClientCloses, server, Types, ServerType, PageType, WayType, Ends
<1>3. CASE ServerCloses(p)
  <2>1. <<>> \in Seq(Requests)
    OBVIOUS
  <2>2. count' \in [Pages -> [Names -> Nat]]
    BY <1>3 DEF ServerCloses, Unsubscribed, Types, ServerType
  <2>3. QED
    BY <1>3, <2>1, <2>2
    DEF ServerCloses, page, Types, ServerType, PageType, WayType, Ends
<1>4. QED
  BY <1>1, <1>2, <1>3

LEMMA SendType ==
    ASSUME Types, NEW p \in Pages, NEW h \in Handles,
           NEW name \in {"getDevices", "act"}, Send(p, h, name)
    PROVE  /\ nextId' \in [Pages -> [Handles -> 0 .. MaxCalls]]
           /\ callbacks' \in [Pages -> SUBSET Calls]
           /\ toServer' \in [Pages -> Seq(Requests)]
<1> DEFINE c == [handle |-> h, id |-> nextId[p][h], name |-> name]
<1>1. nextId[p] \in [Handles -> 0 .. MaxCalls]
  BY DEF Types, PageType
<1>2. nextId[p][h] \in 0 .. MaxCalls - 1
  BY <1>1, BoundsAreNat, SMTT(30) DEF Send, Made, Handles
<1>3. c \in Calls
  BY <1>2 DEF Calls
<1>4. nextId[p][h] + 1 \in 0 .. MaxCalls
  BY <1>2, BoundsAreNat
<1>5. nextId' \in [Pages -> [Handles -> 0 .. MaxCalls]]
  BY <1>1, <1>4 DEF Send, Types, PageType
<1>6. /\ callbacks' = [callbacks EXCEPT ![p] = @ \cup {c}]
      /\ Post(p, <<Request(c)>>)
  BY DEF Send
<1> HIDE DEF c
<1>7. callbacks' \in [Pages -> SUBSET Calls]
  BY <1>3, <1>6 DEF Types, PageType
<1>8. toServer' \in [Pages -> Seq(Requests)]
  BY <1>3, <1>6, PostType, RequestTypes DEF Types, WayType
<1>9. QED
  BY <1>5, <1>7, <1>8

LEMMA PageTypes ==
    ASSUME Types, NEW p \in Pages,
           \/ Initialize(p) \/ On(p) \/ Off(p)
           \/ \E h \in Handles : Act(p, h)
    PROVE  Types'
<1>1. CASE Initialize(p) \/ \E h \in Handles : Act(p, h)
  <2>1. PICK h \in Handles, name \in {"getDevices", "act"} :
          /\ Send(p, h, name)
          /\ UNCHANGED <<server, toClient, clientEnd, listeners, rawEvent, store, missed>>
    BY <1>1 DEF Initialize, Act, Handles
  <2>2. /\ nextId' \in [Pages -> [Handles -> 0 .. MaxCalls]]
        /\ callbacks' \in [Pages -> SUBSET Calls]
        /\ toServer' \in [Pages -> Seq(Requests)]
    BY <2>1, SendType
  <2>3. store' = store
    BY <1>1 DEF Initialize, Act
  <2>4. ServerType' /\ PageType'
    BY <2>1, <2>2, <2>3 DEF server, Types, ServerType, PageType
  <2>5. QED
    BY <2>1, <2>2, <2>4 DEF Types, WayType
<1>2. CASE On(p) \/ Off(p)
  <2>1. PICK on \in BOOLEAN : Post(p, <<Subscribe("data", on)>>)
    BY <1>2 DEF On, Off
  <2>2. toServer' \in [Pages -> Seq(Requests)]
    BY <2>1, PostType, RequestTypes DEF Types, WayType, Names
  <2>3. listeners' \in [Pages -> [Names -> Nat]]
    <3>1. listeners[p] \in [Names -> Nat] /\ "data" \in Names
      BY DEF Types, PageType, Names
    <3>2. listeners[p]["data"] \in Nat
      BY <3>1
    <3>3. PICK k \in Nat : listeners' = [listeners EXCEPT ![p]["data"] = k]
      <4>1. CASE On(p)
        <5>1. listeners[p]["data"] + 1 \in Nat
          BY <3>2
        <5>2. QED
          BY <4>1, <5>1 DEF On
      <4>2. CASE Off(p)
        <5>1. listeners[p]["data"] - 1 \in Nat
          BY <3>2, <4>2 DEF Off
        <5>2. QED
          BY <4>2, <5>1 DEF Off
      <4>3. QED
        BY <1>2, <4>1, <4>2
    <3>4. QED
      BY <3>1, <3>3, Update DEF Types, PageType
  <2>4. QED
    BY <1>2, <2>2, <2>3 DEF On, Off, server, Types, ServerType, PageType, WayType
<1>3. QED
  BY <1>1, <1>2

LEMMA ClientTypes ==
    ASSUME Types, NEW p \in Pages, ClientStep(p)
    PROVE  Types'
<1> DEFINE m == Head(toClient[p])
<1>1. /\ toClient[p] # <<>> /\ toClient' = [toClient EXCEPT ![p] = Tail(@)]
      /\ UNCHANGED <<server, clientEnd, nextId, missed>>
  BY DEF ClientStep, TakeBytes, TakeHeader, TakeDevices, TakeReply, Take
<1>2. toClient[p] \in Seq(Notifications)
  BY DEF Types, WayType
<1>3. m \in Notifications /\ Tail(toClient[p]) \in Seq(Notifications)
  BY <1>1, <1>2
<1>4. toClient' \in [Pages -> Seq(Notifications)]
  BY <1>1, <1>3 DEF Types, WayType
<1>5. ServerType' /\ missed' \in [Pages -> BOOLEAN]
  BY <1>1 DEF server, Types, ServerType, WayType
<1> SUFFICES PageType' /\ toServer' \in [Pages -> Seq(Requests)]
  BY <1>4, <1>5 DEF Types, WayType
<1>6. CASE TakeBytes(p) \/ TakeHeader(p)
  <2>1. rawEvent' \in [Pages -> {None} \cup 1 .. MaxFrames]
    BY <1>3, <1>6, NotificationTypes DEF TakeBytes, TakeHeader, Types, PageType
  <2>2. QED
    BY <1>1, <1>6, <2>1 DEF TakeBytes, TakeHeader, Types, PageType, WayType
<1>7. CASE TakeDevices(p)
  <2>1. m.version \in 0 .. MaxChanges
    BY <1>3, <1>7, NotificationTypes DEF TakeDevices
  <2>2. QED
    BY <1>1, <1>7, <2>1 DEF TakeDevices, Types, PageType, WayType
<1>8. CASE TakeReply(p)
  <2>1. m.result \in 0 .. MaxChanges
    BY <1>3, <1>8, NotificationTypes DEF TakeReply
  <2>2. PICK c \in Settles(p, m) :
          /\ callbacks' = [callbacks EXCEPT ![p] = @ \ {c}]
          /\ IF c.name = "getDevices"
             THEN /\ store' = [store EXCEPT ![p] =
                         [initialized |-> TRUE, devices |-> m.result]]
                  /\ listeners' = [listeners EXCEPT ![p]["devices"] = @ + 1]
                  /\ Post(p, <<Subscribe("devices", TRUE)>>)
             ELSE UNCHANGED <<store, listeners, toServer>>
    BY <1>8 DEF TakeReply
  <2>3. callbacks' \in [Pages -> SUBSET Calls]
    BY <2>2 DEF Types, PageType
  <2>4. toServer' \in [Pages -> Seq(Requests)]
    BY <2>2, PostType, RequestTypes DEF Types, WayType, Names
  <2>5. /\ store' \in [Pages -> [initialized : BOOLEAN, devices : 0 .. MaxChanges]]
        /\ listeners' \in [Pages -> [Names -> Nat]]
    <3>1. listeners[p] \in [Names -> Nat] /\ "devices" \in Names
      BY DEF Types, PageType, Names
    <3>2. listeners[p]["devices"] + 1 \in Nat
      BY <3>1
    <3>3. [initialized |-> TRUE, devices |-> m.result]
            \in [initialized : BOOLEAN, devices : 0 .. MaxChanges]
      BY <2>1
    <3> HIDE DEF m
    <3>4. CASE c.name = "getDevices"
      <4>1. store' \in [Pages -> [initialized : BOOLEAN, devices : 0 .. MaxChanges]]
        BY <2>2, <3>3, <3>4 DEF Types, PageType
      <4>2. listeners' \in [Pages -> [Names -> Nat]]
        <5>1. listeners' = [listeners EXCEPT ![p]["devices"] = listeners[p]["devices"] + 1]
          BY <2>2, <3>4
        <5>2. QED
          BY <3>1, <3>2, <5>1, Update DEF Types, PageType
      <4>3. QED
        BY <4>1, <4>2
    <3>5. CASE c.name # "getDevices"
      BY <2>2, <3>5 DEF Types, PageType
    <3>6. QED
      BY <3>4, <3>5
  <2>6. QED
    BY <1>1, <1>8, <2>3, <2>4, <2>5 DEF TakeReply, Types, PageType
<1>9. QED
  BY <1>6, <1>7, <1>8 DEF ClientStep

LEMMA ServerTypes ==
    ASSUME Types, NEW p \in Pages, ServerStep(p)
    PROVE  Types'
<1> DEFINE m == Head(toServer[p])
<1>1. /\ toServer[p] # <<>> /\ toServer' = [toServer EXCEPT ![p] = Tail(@)]
      /\ UNCHANGED <<page, devices, frames, serverEnd>>
  BY DEF ServerStep, HandleSubscribe, HandleCall, HandleAbsent, Handled
<1>2. toServer[p] \in Seq(Requests)
  BY DEF Types, WayType
<1>3. m \in Requests /\ Tail(toServer[p]) \in Seq(Requests)
  BY <1>1, <1>2
<1>4. toServer' \in [Pages -> Seq(Requests)]
  BY <1>1, <1>3 DEF Types, WayType
<1>5. PageType'
  BY <1>1 DEF page, Types, PageType
<1>6. CASE HandleSubscribe(p)
  <2>1. m.name \in Names
    BY <1>3, <1>6, RequestTypes DEF HandleSubscribe
  <2>2. PICK k \in Nat : count' = [count EXCEPT ![p][m.name] = k]
    <3>1. count[p][m.name] \in Nat
      BY <2>1 DEF Types, ServerType
    <3>2. count[p][m.name] + 1 \in Nat
      BY <3>1
    <3>3. (IF count[p][m.name] = 0 THEN 0 ELSE count[p][m.name] - 1) \in Nat
      BY <3>1
    <3>4. QED
      BY <1>6, <3>2, <3>3 DEF HandleSubscribe
  <2>3. count' \in [Pages -> [Names -> Nat]]
    BY <2>1, <2>2, Update DEF Types, ServerType
  <2>4. QED
    BY <1>1, <1>4, <1>5, <1>6, <2>3
    DEF HandleSubscribe, Types, ServerType, WayType
<1>7. CASE HandleCall(p)
  <2>1. [call |-> m.call, result |-> devices]
          \in [call : Calls, result : 0 .. MaxChanges]
    <3>1. m.call \in Calls
      BY <1>3, <1>7, RequestTypes DEF HandleCall
    <3>2. devices \in 0 .. MaxChanges
      BY DEF Types, ServerType
    <3> HIDE DEF m
    <3>3. QED
      BY <3>1, <3>2
  <2>2. serving' \in [Pages -> SUBSET [call : Calls, result : 0 .. MaxChanges]]
    BY <1>7, <2>1 DEF HandleCall, Types, ServerType
  <2>3. missed' \in [Pages -> BOOLEAN]
    BY <1>7 DEF HandleCall, Types, WayType
  <2>4. QED
    BY <1>1, <1>4, <1>5, <1>7, <2>2, <2>3
    DEF HandleCall, Types, ServerType, WayType
<1>8. CASE HandleAbsent(p)
  <2>1. Reply(m.call, 0) \in Notifications
    BY <1>3, <1>8, RequestTypes, NotificationTypes, BoundsAreNat DEF HandleAbsent
  <2>2. toClient' \in [Pages -> Seq(Notifications)]
    BY <1>8, <2>1, DeliverToType DEF HandleAbsent, AnswerAbsent, Types, WayType
  <2>3. QED
    BY <1>1, <1>4, <1>5, <1>8, <2>2
    DEF HandleAbsent, Types, ServerType, WayType
<1>9. QED
  BY <1>6, <1>7, <1>8 DEF ServerStep

LEMMA HandlerTypes ==
    ASSUME Types, NEW p \in Pages, NEW s \in serving[p], HandlerSettles(p, s)
    PROVE  Types'
<1>1. s.call \in Calls /\ s.result \in 0 .. MaxChanges
  BY DEF Types, ServerType
<1>2. toClient' \in [Pages -> Seq(Notifications)]
  BY <1>1, NotificationTypes, DeliverToType
  DEF HandlerSettles, ReplyTo, Types, WayType
<1>3. serving' \in [Pages -> SUBSET [call : Calls, result : 0 .. MaxChanges]]
  BY DEF HandlerSettles, Types, ServerType
<1>4. QED
  BY <1>2, <1>3 DEF HandlerSettles, page, Types, ServerType, PageType, WayType

LEMMA NotifyTypes ==
    ASSUME Types, DevicesUpdated \/ SendRaw
    PROVE  Types'
<1>1. <<>> \in Seq(Notifications)
  OBVIOUS
<1>2. CASE DevicesUpdated
  <2> DEFINE what == [p \in Pages |-> IF p \in Notified("devices")
                                      THEN <<Devices(devices + 1)>> ELSE <<>>]
  <2>1. devices + 1 \in 0 .. MaxChanges
    BY <1>2, BoundsAreNat DEF DevicesUpdated, Types, ServerType
  <2>2. Devices(devices + 1) \in Notifications
    BY <2>1, NotificationTypes
  <2>3. <<Devices(devices + 1)>> \in Seq(Notifications)
    BY <2>2
  <2>4. \A p \in Pages : what[p] \in Seq(Notifications)
    BY <1>1, <2>3
  <2>5. Deliver(what)
    BY <1>2 DEF DevicesUpdated
  <2> HIDE DEF what
  <2>6. toClient' \in [Pages -> Seq(Notifications)]
    BY <2>4, <2>5, DeliverType DEF Types, WayType
  <2>7. missed' \in [Pages -> BOOLEAN]
    BY <1>2 DEF DevicesUpdated, Fetched
  <2>8. QED
    BY <1>2, <2>1, <2>6, <2>7
    DEF DevicesUpdated, page, Types, ServerType, PageType, WayType
<1>3. CASE SendRaw
  <2> DEFINE what == [p \in Pages |-> IF p \in Notified("data")
                                      THEN RawMessages(frames + 1) ELSE <<>>]
  <2>1. frames + 1 \in 1 .. MaxFrames
    BY <1>3, BoundsAreNat DEF SendRaw, Types, ServerType
  <2>2. Header(frames + 1) \in Notifications /\ Bytes(frames + 1) \in Notifications
    BY <2>1, NotificationTypes
  <2>3. RawMessages(frames + 1) \in Seq(Notifications)
    BY <2>2 DEF RawMessages
  <2>4. \A p \in Pages : what[p] \in Seq(Notifications)
    BY <1>1, <2>3
  <2>5. Deliver(what)
    BY <1>3 DEF SendRaw
  <2> HIDE DEF what
  <2>6. toClient' \in [Pages -> Seq(Notifications)]
    BY <2>4, <2>5, DeliverType DEF Types, WayType
  <2>7. frames' \in 0 .. MaxFrames
    BY <1>3, <2>1, BoundsAreNat DEF SendRaw
  <2>8. QED
    BY <1>3, <2>6, <2>7 DEF SendRaw, page, Types, ServerType, PageType, WayType
<1>4. QED
  BY <1>2, <1>3

LEMMA TypesNext == Types /\ [Next]_vars => Types'
<1> SUFFICES ASSUME Types, [Next]_vars PROVE Types'
  OBVIOUS
<1>1. CASE UNCHANGED vars
  BY <1>1 DEF vars, server, page, Types, ServerType, PageType, WayType
<1>2. QED
  BY <1>1, SocketTypes, PageTypes, ClientTypes, ServerTypes, HandlerTypes, NotifyTypes
  DEF Next

\* Sockets, maps and messages of the IPC layer are of the types the model gives
\* them, and no page has made more calls than it may.
THEOREM TypeCorrect == Spec => []TypeOK
<1>1. Types => TypeOK
  BY DEF Types, ServerType, PageType, WayType, TypeOK
<1>2. QED
  BY <1>1, TypesInit, TypesNext, PTL DEF Spec

-----------------------------------------------------------------------------
(***************************************************************************)
(* The inductive invariants                                                *)
(*                                                                         *)
(* EndsInv says what the two ends of a socket keep before it is opened and *)
(* after it is closed: nothing is under way to an end that is not open.    *)
(***************************************************************************)
EndsInv == \A p \in Pages :
    /\ clientEnd[p] = "new" <=> serverEnd[p] = "new"
    /\ clientEnd[p] = "new" => /\ missed[p] /\ rawEvent[p] = None
                               /\ \A n \in Names : listeners[p][n] = 0
    /\ serverEnd[p] # "open" => /\ toServer[p] = <<>>
                                /\ \A n \in Names : count[p][n] = 0
    /\ clientEnd[p] # "open" => toClient[p] = <<>>

\* A header is followed by its bytes, and bytes follow their header.
Paired(q) == \A i \in 1 .. Len(q) :
    /\ q[i].kind = "header" => i < Len(q) /\ q[i + 1] = Bytes(q[i].frame)
    /\ q[i].kind = "bytes" => i = 1 \/ q[i - 1] = Header(q[i].frame)

\* The bytes of a header that was taken are the next message.
RawOf(p) ==
    /\ Paired(toClient[p])
    /\ rawEvent[p] = None => toClient[p] = <<>> \/ toClient[p][1].kind # "bytes"
    /\ rawEvent[p] # None =>
          /\ toClient[p] = <<>> => clientEnd[p] = "closed"
          /\ toClient[p] # <<>> => toClient[p][1] = Bytes(rawEvent[p])
RawInv == \A p \in Pages : RawOf(p)

\* The calls in the messages of a kind, and that no two of them are the same.
CallsIn(q, kind) == {q[i].call : i \in {k \in 1 .. Len(q) : q[k].kind = kind}}
Once(q, kind) == \A i, j \in 1 .. Len(q) :
    q[i].kind = kind /\ q[j].kind = kind /\ q[i].call = q[j].call => i = j

Asked(p) == CallsIn(toServer[p], "call")
Served(p) == {s.call : s \in serving[p]}
Answered(p) == CallsIn(toClient[p], "reply")

\* A call is in one place at a time on its way to the handler and back, and
\* its id is below the next one of its helper.
CallOf(p) ==
    /\ \A c \in callbacks[p] : c.id < nextId[p][c.handle]
    /\ \A c, d \in callbacks[p] : c.handle = d.handle /\ c.id = d.id => c = d
    /\ Asked(p) \cup Served(p) \cup Answered(p) \subseteq callbacks[p]
    /\ Asked(p) \cap Served(p) = {} /\ Asked(p) \cap Answered(p) = {}
    /\ Served(p) \cap Answered(p) = {}
    /\ Once(toServer[p], "call") /\ Once(toClient[p], "reply")
    /\ \A s, t \in serving[p] : s.call = t.call => s = t
CallInv == \A p \in Pages : CallOf(p)

\* How often m is among the first k messages.
Times(q, m, k) == Cardinality({i \in 1 .. k : q[i] = m})

\* The server has counted c subscriptions, q is on its way to it and the page
\* has l listeners: nothing in q withdraws more than there is, and all of it
\* together adds up.
Balance(q, n, c, l) ==
    /\ \A k \in 0 .. Len(q) : Times(q, Subscribe(n, FALSE), k)
                                  <= c + Times(q, Subscribe(n, TRUE), k)
    /\ c + Times(q, Subscribe(n, TRUE), Len(q)) = l + Times(q, Subscribe(n, FALSE), Len(q))
CountOf(p, n) == Linked(p) => Balance(toServer[p], n, count[p][n], listeners[p][n])
CountInv == \A p \in Pages, n \in Names : CountOf(p, n)

\* Messages that bring the device list, and the list they bring.
Brings(m) == m.kind = "devices" \/ (m.kind = "reply" /\ m.call.name = "getDevices")
Brought(m) == IF m.kind = "devices" THEN m.version ELSE m.result
LastBrings(q, v) == \A i \in 1 .. Len(q) :
    Brings(q[i]) /\ (\A j \in i + 1 .. Len(q) : ~Brings(q[j])) => Brought(q[i]) = v
Bringing(q) == \E i \in 1 .. Len(q) : Brings(q[i])
RepliesBring(q, v) == \A i \in 1 .. Len(q) :
    q[i].kind = "reply" /\ q[i].call.name = "getDevices" => q[i].result = v

\* S are the handlers that run, q is on its way to a page whose store is st:
\* each reply brings the list v, and v is the last the page is told, unless it
\* has not asked yet or knows v already.
Fetch(s) == s.call.name = "getDevices"
Lists(S, q, st, v) ==
    /\ \A s \in S : Fetch(s) => s.result = v
    /\ RepliesBring(q, v)
    /\ \/ \E s \in S : Fetch(s)
       \/ /\ LastBrings(q, v)
          /\ ~st.initialized \/ Bringing(q) \/ st.devices = v
ListOf(p) ==
    /\ store[p].initialized => listeners[p]["devices"] > 0
    /\ \A c \in callbacks[p] : c.name = "getDevices" => c.handle = "server"
    /\ Linked(p) /\ ~missed[p] => Lists(serving[p], toClient[p], store[p], devices)
ListInv == \A p \in Pages : ListOf(p)

-----------------------------------------------------------------------------
(***************************************************************************)
(* Queues                                                                  *)
(***************************************************************************)
LEMMA FirstAndRest ==
    ASSUME NEW S, NEW q \in Seq(S), q # <<>>
    PROVE  /\ Len(q) \in Nat /\ 1 <= Len(q) /\ Head(q) = q[1] /\ q[1] \in S
           /\ Tail(q) \in Seq(S) /\ Len(Tail(q)) = Len(q) - 1
           /\ \A i \in 1 .. Len(q) - 1 : Tail(q)[i] = q[i + 1]
<1>1. Len(q) \in Nat /\ Len(q) # 0
  BY EmptySeq
<1>2. /\ Tail(q) \in Seq(S) /\ Len(Tail(q)) = Len(q) - 1
      /\ \A i \in 1 .. Len(q) - 1 : Tail(q)[i] = q[i + 1]
  BY HeadTailProperties
<1>3. Head(q) = q[1] /\ q[1] \in S
  BY <1>1
<1>4. QED
  BY <1>1, <1>2, <1>3

\* A message is put at the end.
LEMMA OneMore ==
    ASSUME NEW S, NEW q \in Seq(S), NEW m \in S
    PROVE  /\ Len(q) \in Nat /\ Len(q \o <<m>>) = Len(q) + 1
           /\ \A i \in 1 .. Len(q) : (q \o <<m>>)[i] = q[i]
           /\ (q \o <<m>>)[Len(q) + 1] = m
OBVIOUS

LEMMA PairedRest ==
    ASSUME NEW q \in Seq(Notifications), q # <<>>, Paired(q)
    PROVE  Paired(Tail(q))
<1> DEFINE r == Tail(q)
<1>1. /\ Len(q) \in Nat /\ 1 <= Len(q) /\ Len(r) = Len(q) - 1
      /\ \A i \in 1 .. Len(r) : r[i] = q[i + 1]
  BY FirstAndRest
<1> HIDE DEF r
<1>2. ASSUME NEW i \in 1 .. Len(r)
      PROVE  /\ r[i].kind = "header" => i < Len(r) /\ r[i + 1] = Bytes(r[i].frame)
             /\ r[i].kind = "bytes" => i = 1 \/ r[i - 1] = Header(r[i].frame)
  <2>1. i + 1 \in 1 .. Len(q) /\ r[i] = q[i + 1]
    BY <1>1
  <2>2. r[i].kind = "header" => i < Len(r) /\ r[i + 1] = Bytes(r[i].frame)
    <3>1. i < Len(r) => r[i + 1] = q[i + 1 + 1]
      BY <1>1
    <3>2. QED
      BY <1>1, <2>1, <3>1 DEF Paired
  <2>3. i # 1 => i - 1 \in 1 .. Len(r) /\ r[i - 1] = q[i + 1 - 1]
    BY <1>1
  <2>4. r[i].kind = "bytes" => i = 1 \/ r[i - 1] = Header(r[i].frame)
    BY <1>1, <2>1, <2>3 DEF Paired
  <2>5. QED
    BY <2>2, <2>4
<1>3. Paired(r)
  BY <1>2 DEF Paired
<1>4. QED
  BY <1>3 DEF r

\* What the server delivers in one piece: nothing, one message that is no part
\* of a raw notification, or a whole raw notification.
Piece(t) == \/ t = <<>>
            \/ \E m \in Notifications : m.kind \in {"reply", "devices"} /\ t = <<m>>
            \/ \E f \in 1 .. MaxFrames : t = RawMessages(f)

LEMMA PieceShape ==
    ASSUME NEW t, Piece(t)
    PROVE  /\ t \in Seq(Notifications) /\ Len(t) \in {0, 1, 2}
           /\ Len(t) = 0 <=> t = <<>>
           /\ Len(t) = 1 => t[1].kind \in {"reply", "devices"}
           /\ Len(t) = 2 => \E f \in 1 .. MaxFrames : t[1] = Header(f) /\ t[2] = Bytes(f)
<1>1. CASE t = <<>>
  BY <1>1
<1>2. CASE \E m \in Notifications : m.kind \in {"reply", "devices"} /\ t = <<m>>
  BY <1>2
<1>3. CASE \E f \in 1 .. MaxFrames : t = RawMessages(f)
  <2>1. PICK f \in 1 .. MaxFrames : t = <<Header(f), Bytes(f)>>
    BY <1>3 DEF RawMessages
  <2>2. Header(f) \in Notifications /\ Bytes(f) \in Notifications
    BY NotificationTypes
  <2>3. QED
    BY <2>1, <2>2
<1>4. QED
  BY <1>1, <1>2, <1>3 DEF Piece

LEMMA PairedMore ==
    ASSUME NEW q \in Seq(Notifications), Paired(q), NEW t, Piece(t)
    PROVE  /\ Paired(q \o t)
           /\ q # <<>> => q \o t # <<>> /\ (q \o t)[1] = q[1]
           /\ q = <<>> => q \o t = t
<1>1. /\ t \in Seq(Notifications) /\ Len(t) \in {0, 1, 2}
      /\ Len(t) = 1 => t[1].kind \in {"reply", "devices"}
      /\ Len(t) = 2 => \E f \in 1 .. MaxFrames : t[1] = Header(f) /\ t[2] = Bytes(f)
  BY PieceShape
<1> DEFINE r == q \o t
<1>2. /\ r \in Seq(Notifications) /\ Len(r) = Len(q) + Len(t) /\ Len(q) \in Nat
      /\ \A i \in 1 .. Len(q) : r[i] = q[i]
      /\ \A i \in 1 .. Len(t) : r[Len(q) + i] = t[i]
  BY <1>1, ConcatProperties, LenProperties
<1>3. q # <<>> => r # <<>> /\ r[1] = q[1]
  <2>1. q # <<>> => Len(q) >= 1
    BY FirstAndRest
  <2>2. Len(q) >= 1 => Len(r) # 0 /\ r[1] = q[1]
    BY <1>1, <1>2
  <2>3. QED
    BY <2>1, <2>2
<1>4. q = <<>> => r = t
  BY <1>1, ConcatEmptySeq
<1> HIDE DEF r
<1>5. ASSUME NEW i \in 1 .. Len(r)
      PROVE  /\ r[i].kind = "header" => i < Len(r) /\ r[i + 1] = Bytes(r[i].frame)
             /\ r[i].kind = "bytes" => i = 1 \/ r[i - 1] = Header(r[i].frame)
  <2>1. CASE i \in 1 .. Len(q)
    <3>1. r[i] = q[i]
      BY <1>2, <2>1
    <3>2. i < Len(q) => i + 1 \in 1 .. Len(q) /\ r[i + 1] = q[i + 1]
      BY <1>2, <2>1
    <3>3. i # 1 => i - 1 \in 1 .. Len(q) /\ r[i - 1] = q[i - 1]
      BY <1>2, <2>1
    <3>4. Len(q) <= Len(r)
      BY <1>1, <1>2
    <3>5. QED
      BY <1>2, <2>1, <3>1, <3>2, <3>3, <3>4 DEF Paired
  <2>2. CASE i = Len(q) + 1
    <3>1. Len(t) # 0 /\ r[i] = t[1]
      BY <1>1, <1>2, <2>2
    <3>2. CASE Len(t) = 1
      BY <1>1, <3>1, <3>2
    <3>3. CASE Len(t) = 2
      <4>1. i < Len(r) /\ r[i + 1] = t[2]
        BY <1>2, <2>2, <3>3
      <4>2. PICK f \in 1 .. MaxFrames : t[1] = Header(f) /\ t[2] = Bytes(f)
        BY <1>1, <3>3
      <4>3. QED
        BY <3>1, <4>1, <4>2 DEF Header, Bytes
    <3>4. QED
      BY <1>1, <3>1, <3>2, <3>3
  <2>3. CASE i = Len(q) + 2
    <3>1. Len(t) = 2 /\ r[i] = t[2]
      BY <1>1, <1>2, <2>3
    <3>2. r[i - 1] = t[1]
      BY <1>2, <2>3, <3>1
    <3>3. PICK f \in 1 .. MaxFrames : t[1] = Header(f) /\ t[2] = Bytes(f)
      BY <1>1, <3>1
    <3>4. QED
      BY <3>1, <3>2, <3>3 DEF Header, Bytes
  <2>4. i \in 1 .. Len(q) \/ i = Len(q) + 1 \/ i = Len(q) + 2
    <3>1. Len(r) = Len(q) + Len(t) /\ Len(q) \in Nat /\ Len(t) \in {0, 1, 2}
      BY <1>1, <1>2
    <3>2. \A m \in Nat, n \in {0, 1, 2} : \A k \in 1 .. m + n :
             k \in 1 .. m \/ k = m + 1 \/ k = m + 2
      OBVIOUS
    <3>3. i \in 1 .. Len(q) + Len(t)
      BY <3>1
    <3>4. QED
      BY <3>1, <3>2, <3>3
  <2>5. QED
    BY <2>1, <2>2, <2>3, <2>4
<1>6. Paired(r)
  BY <1>5 DEF Paired
<1>7. QED
  BY <1>3, <1>4, <1>6 DEF r

-----------------------------------------------------------------------------
(***************************************************************************)
(* How a step changes the messages to a page: not at all, all are lost,    *)
(* the first is taken, or a piece is put behind them.                      *)
(***************************************************************************)
Kept(p) == /\ toClient'[p] = toClient[p] /\ rawEvent'[p] = rawEvent[p]
           /\ \/ clientEnd'[p] = clientEnd[p]
              \/ clientEnd[p] = "new" /\ clientEnd'[p] = "open"
Lost(p) == /\ toClient'[p] = <<>> /\ rawEvent'[p] = rawEvent[p]
           /\ clientEnd'[p] = "closed"
Taken(p) == /\ toClient[p] # <<>> /\ toClient'[p] = Tail(toClient[p])
            /\ clientEnd'[p] = clientEnd[p]
            /\ rawEvent'[p] = IF rawEvent[p] = None /\ Head(toClient[p]).kind = "header"
                              THEN Head(toClient[p]).frame ELSE None
Added(p) == /\ Linked(p) /\ UNCHANGED clientEnd /\ rawEvent'[p] = rawEvent[p]
            /\ \E t : Piece(t) /\ toClient'[p] = toClient[p] \o t

LEMMA DeliverAdds ==
    ASSUME NEW p \in Pages, NEW what, Deliver(what), Piece(what[p]),
           UNCHANGED <<clientEnd, rawEvent>>
    PROVE  Kept(p) \/ Added(p)
<1>1. toClient'[p] = IF Linked(p) THEN toClient[p] \o what[p] ELSE toClient[p]
  BY DEF Deliver
<1>2. CASE Linked(p)
  BY <1>1, <1>2 DEF Added
<1>3. CASE ~Linked(p)
  BY <1>1, <1>3 DEF Kept
<1>4. QED
  BY <1>2, <1>3

LEMMA ReplyAdds ==
    ASSUME NEW p \in Pages, NEW q \in Pages, NEW c \in Calls, NEW r \in 0 .. MaxChanges,
           DeliverTo(q, <<Reply(c, r)>>), UNCHANGED <<clientEnd, rawEvent>>
    PROVE  Kept(p) \/ Added(p)
<1> DEFINE what == [o \in Pages |-> IF o = q THEN <<Reply(c, r)>> ELSE <<>>]
<1>1. Reply(c, r) \in Notifications /\ Reply(c, r).kind = "reply"
  BY NotificationTypes DEF Reply
<1>2. Piece(what[p])
  BY <1>1 DEF Piece
<1>3. Deliver(what)
  BY DEF DeliverTo
<1> HIDE DEF what
<1>4. QED
  BY <1>2, <1>3, DeliverAdds

LEMMA ClientQueue ==
    ASSUME Types, [Next]_vars, NEW p \in Pages
    PROVE  Kept(p) \/ Lost(p) \/ Taken(p) \/ Added(p)
<1>1. CASE UNCHANGED vars
  BY <1>1 DEF vars, page, Kept
<1>2. CASE DevicesUpdated
  <2> DEFINE what == [o \in Pages |-> IF o \in Notified("devices")
                                      THEN <<Devices(devices + 1)>> ELSE <<>>]
  <2>1. devices + 1 \in 0 .. MaxChanges
    BY <1>2, BoundsAreNat DEF DevicesUpdated, Types, ServerType
  <2>2. Devices(devices + 1) \in Notifications /\ Devices(devices + 1).kind = "devices"
    BY <2>1, NotificationTypes DEF Devices
  <2>3. Piece(what[p])
    BY <2>2 DEF Piece
  <2>4. Deliver(what) /\ UNCHANGED <<clientEnd, rawEvent>>
    BY <1>2 DEF DevicesUpdated, page
  <2> HIDE DEF what
  <2>5. QED
    BY <2>3, <2>4, DeliverAdds
<1>3. CASE SendRaw
  <2> DEFINE what == [o \in Pages |-> IF o \in Notified("data")
                                      THEN RawMessages(frames + 1) ELSE <<>>]
  <2>1. frames + 1 \in 1 .. MaxFrames
    BY <1>3, BoundsAreNat DEF SendRaw, Types, ServerType
  <2>2. Piece(what[p])
    BY <2>1 DEF Piece
  <2>3. Deliver(what) /\ UNCHANGED <<clientEnd, rawEvent>>
    BY <1>3 DEF SendRaw, page
  <2> HIDE DEF what
  <2>4. QED
    BY <2>2, <2>3, DeliverAdds
<1>4. ASSUME NEW q \in Pages, Open(q) \/ ClientCloses(q) \/ ServerCloses(q)
      PROVE  Kept(p) \/ Lost(p)
  BY <1>4 DEF Open, ClientCloses, ServerCloses, page, Kept, Lost, Types, PageType, WayType
<1>5. ASSUME NEW q \in Pages,
             \/ Initialize(q) \/ On(q) \/ Off(q)
             \/ \E h \in Handles : Act(q, h)
      PROVE  Kept(p)
  BY <1>5 DEF Initialize, On, Off, Act, Kept
<1>6. ASSUME NEW q \in Pages, toClient[q] # <<>>, ClientStep(q)
      PROVE  Kept(p) \/ Taken(p)
  <2>1. /\ toClient' = [toClient EXCEPT ![q] = Tail(@)]
        /\ clientEnd' = clientEnd
    BY <1>6 DEF ClientStep, TakeBytes, TakeHeader, TakeDevices, TakeReply, Take
  <2>2. rawEvent' = [rawEvent EXCEPT ![q] =
                        IF @ = None /\ Head(toClient[q]).kind = "header"
                        THEN Head(toClient[q]).frame ELSE None]
    BY <1>6 DEF ClientStep, TakeBytes, TakeHeader, TakeDevices, TakeReply, Types, PageType
  <2>3. QED
    BY <1>6, <2>1, <2>2 DEF Kept, Taken, Types, PageType, WayType
<1>7. ASSUME NEW q \in Pages, toServer[q] # <<>>, ServerStep(q)
      PROVE  Kept(p) \/ Added(p)
  <2>1. UNCHANGED <<clientEnd, rawEvent>>
    BY <1>7 DEF ServerStep, HandleSubscribe, HandleCall, HandleAbsent, Handled, page
  <2>2. CASE HandleSubscribe(q) \/ HandleCall(q)
    BY <2>1, <2>2 DEF HandleSubscribe, HandleCall, Kept
  <2>3. CASE HandleAbsent(q)
    <3> DEFINE c == Head(toServer[q]).call
    <3>1. toServer[q] \in Seq(Requests)
      BY DEF Types, WayType
    <3>2. Head(toServer[q]) \in Requests
      BY <1>7, <3>1
    <3>3. c \in Calls
      BY <2>3, <3>2, RequestTypes DEF HandleAbsent
    <3>4. DeliverTo(q, <<Reply(c, 0)>>) /\ 0 \in 0 .. MaxChanges
      BY <2>3, BoundsAreNat DEF HandleAbsent, AnswerAbsent
    <3> HIDE DEF c
    <3>5. QED
      BY <2>1, <3>3, <3>4, ReplyAdds
  <2>4. QED
    BY <1>7, <2>2, <2>3 DEF ServerStep
<1>8. ASSUME NEW q \in Pages, NEW s \in serving[q], HandlerSettles(q, s)
      PROVE  Kept(p) \/ Added(p)
  <2>1. s.call \in Calls /\ s.result \in 0 .. MaxChanges
    BY DEF Types, ServerType
  <2>2. DeliverTo(q, <<Reply(s.call, s.result)>>) /\ UNCHANGED <<clientEnd, rawEvent>>
    BY <1>8 DEF HandlerSettles, ReplyTo, page
  <2>3. QED
    BY <2>1, <2>2, ReplyAdds
<1>9. QED
  BY <1>1, <1>2, <1>3, <1>4, <1>5, <1>6, <1>7, <1>8 DEF Next

-----------------------------------------------------------------------------
(***************************************************************************)
(* A header and its bytes                                                  *)
(***************************************************************************)
LEMMA RawTaken ==
    ASSUME Types, NEW p \in Pages, RawOf(p), Taken(p)
    PROVE  RawOf(p)'
<1> DEFINE q == toClient[p]
<1>1. q \in Seq(Notifications) /\ q # <<>>
  BY DEF Taken, Types, WayType
<1>2. /\ Len(q) \in Nat /\ 1 <= Len(q) /\ Head(q) = q[1] /\ q[1] \in Notifications
      /\ Len(Tail(q)) = Len(q) - 1 /\ Tail(q) \in Seq(Notifications)
      /\ \A i \in 1 .. Len(q) - 1 : Tail(q)[i] = q[i + 1]
  BY <1>1, FirstAndRest
<1>3. Paired(q) /\ Paired(Tail(q))
  BY <1>1, PairedRest DEF RawOf
<1>4. Tail(q) # <<>> => 2 \in 1 .. Len(q) /\ Tail(q)[1] = q[2]
  BY <1>2, FirstAndRest
<1>5. Len(q) > 1 => Tail(q) # <<>>
  <2>1. Len(<<>>) = 0
    BY EmptySeq
  <2>2. Len(q) > 1 => Len(Tail(q)) # 0
    <3> DEFINE r == Tail(q)
    <3>1. Len(q) \in Nat /\ Len(r) = Len(q) - 1
      BY <1>2
    <3> HIDE DEF q, r
    <3>2. Len(q) > 1 => Len(r) # 0
      BY <3>1
    <3>3. QED
      BY <3>2 DEF r
  <2>3. QED
    BY <2>1, <2>2
<1>6. toClient'[p] = Tail(q) /\ clientEnd'[p] = clientEnd[p]
  BY DEF Taken
<1>7. CASE rawEvent[p] = None /\ q[1].kind = "header"
  <2>1. 1 < Len(q) /\ q[2] = Bytes(q[1].frame)
    BY <1>2, <1>3, <1>7 DEF Paired
  <2>2. q[1].frame \in 1 .. MaxFrames
    BY <1>2, <1>7, NotificationTypes
  <2>3. rawEvent'[p] = q[1].frame /\ rawEvent'[p] # None
    BY <1>2, <1>7, <2>2, IpcAssumption DEF Taken
  <2>4. QED
    BY <1>3, <1>4, <1>5, <1>6, <2>1, <2>3 DEF RawOf
<1>8. CASE ~(rawEvent[p] = None /\ q[1].kind = "header")
  <2>1. rawEvent'[p] = None
    BY <1>2, <1>8 DEF Taken
  <2>2. q[1].kind # "header"
    BY <1>1, <1>8 DEF RawOf, Bytes
  <2>3. Tail(q) # <<>> => q[2].kind # "bytes"
    <3>1. \A f : Header(f).kind = "header"
      BY DEF Header
    <3>2. QED
      BY <1>3, <1>4, <2>2, <3>1 DEF Paired
  <2>4. QED
    BY <1>3, <1>4, <1>6, <2>1, <2>3 DEF RawOf
<1>9. QED
  BY <1>7, <1>8

LEMMA RawNext ==
    ASSUME Types, EndsInv, RawInv, [Next]_vars
    PROVE  RawInv'
<1> SUFFICES ASSUME NEW p \in Pages PROVE RawOf(p)'
  BY DEF RawInv
<1>1. RawOf(p) /\ toClient[p] \in Seq(Notifications)
  BY DEF RawInv, Types, WayType
<1>2. CASE Kept(p)
  <2>1. clientEnd[p] = "new" => rawEvent[p] = None
    BY DEF EndsInv
  <2>2. QED
    BY <1>1, <1>2, <2>1 DEF Kept, RawOf
<1>3. CASE Lost(p)
  BY <1>3 DEF Lost, RawOf, Paired
<1>4. CASE Taken(p)
  BY <1>1, <1>4, RawTaken
<1>5. CASE Added(p)
  <2>1. PICK t : Piece(t) /\ toClient'[p] = toClient[p] \o t
    BY <1>5 DEF Added
  <2>2. /\ Paired(toClient'[p])
        /\ toClient[p] # <<>> => toClient'[p] # <<>> /\ toClient'[p][1] = toClient[p][1]
        /\ toClient[p] = <<>> => toClient'[p] = t
    BY <1>1, <2>1, PairedMore DEF RawOf
  <2>3. clientEnd[p] = "open" /\ rawEvent'[p] = rawEvent[p]
    BY <1>5 DEF Added, Linked
  <2>4. t # <<>> => t[1].kind # "bytes"
    <3>1. \A f : Header(f).kind = "header"
      BY DEF Header
    <3>2. QED
      BY <2>1, <3>1, PieceShape
  <2>5. QED
    BY <1>1, <2>2, <2>3, <2>4 DEF RawOf
<1>6. QED
  BY <1>2, <1>3, <1>4, <1>5, ClientQueue

-----------------------------------------------------------------------------
(***************************************************************************)
(* The ends of the sockets, one step per action                            *)
(***************************************************************************)
LEMMA PostLinked ==
    ASSUME Types, EndsInv, NEW q \in Pages, NEW ms, Post(q, ms),
           UNCHANGED serverEnd, NEW p \in Pages, serverEnd'[p] # "open"
    PROVE  toServer'[p] = <<>>
BY DEF Post, Linked, EndsInv, Types, WayType

LEMMA EndsPage ==
    ASSUME Types, EndsInv, NEW q \in Pages,
           \/ Initialize(q) \/ On(q) \/ Off(q)
           \/ \E h \in Handles : Act(q, h)
    PROVE  EndsInv'
<1>1. PICK ms : Post(q, ms)
  BY DEF Initialize, Act, On, Off, Send
<1>2. UNCHANGED <<serverEnd, clientEnd, toClient, count, missed, rawEvent>>
  BY DEF Initialize, Act, On, Off, server
<1>3. \A p \in Pages, n \in Names : clientEnd[p] = "new" => listeners'[p][n] = 0
  <2>1. CASE Initialize(q) \/ \E h \in Handles : Act(q, h)
    BY <2>1 DEF Initialize, Act, EndsInv
  <2>2. CASE On(q) \/ Off(q)
    <3>1. clientEnd[q] # "new"
      BY <2>2 DEF On, Off, EndsInv, Names
    <3>2. \A p \in Pages : p # q => listeners'[p] = listeners[p]
      BY <2>2 DEF On, Off, Types, PageType
    <3>3. QED
      BY <3>1, <3>2 DEF EndsInv
  <2>3. QED
    BY <2>1, <2>2
<1>4. \A p \in Pages : serverEnd'[p] # "open" => toServer'[p] = <<>>
  BY <1>1, <1>2, PostLinked
<1>5. QED
  BY <1>2, <1>3, <1>4 DEF EndsInv

LEMMA EndsClient ==
    ASSUME Types, EndsInv, NEW q \in Pages, toClient[q] # <<>>, ClientStep(q)
    PROVE  EndsInv'
<1>1. /\ toClient' = [toClient EXCEPT ![q] = Tail(@)]
      /\ UNCHANGED <<server, clientEnd, missed>>
  BY DEF ClientStep, TakeBytes, TakeHeader, TakeDevices, TakeReply, Take
<1>2. clientEnd[q] = "open"
  BY DEF EndsInv
<1>3. \A p \in Pages : p # q => rawEvent'[p] = rawEvent[p] /\ listeners'[p] = listeners[p]
  BY DEF ClientStep, TakeBytes, TakeHeader, TakeDevices, TakeReply, Types, PageType
<1>4. (\E ms : Post(q, ms)) \/ UNCHANGED toServer
  BY DEF ClientStep, TakeBytes, TakeHeader, TakeDevices, TakeReply
<1>5. UNCHANGED <<serverEnd, count>>
  BY <1>1 DEF server
<1>6. \A p \in Pages : serverEnd'[p] # "open" => toServer'[p] = <<>>
  BY <1>4, <1>5, PostLinked DEF EndsInv
<1>7. \A p \in Pages : clientEnd[p] # "open" => toClient'[p] = <<>>
  BY <1>1, <1>2 DEF EndsInv, Types, WayType
<1>8. \A p \in Pages : clientEnd[p] = "new" =>
          /\ missed'[p] /\ rawEvent'[p] = None
          /\ \A n \in Names : listeners'[p][n] = 0
  BY <1>1, <1>2, <1>3 DEF EndsInv
<1>9. QED
  BY <1>1, <1>5, <1>6, <1>7, <1>8 DEF EndsInv

LEMMA DeliverOpen ==
    ASSUME Types, EndsInv, NEW what, Deliver(what), NEW p \in Pages,
           clientEnd[p] # "open"
    PROVE  toClient'[p] = <<>>
BY DEF Deliver, Linked, EndsInv

LEMMA EndsServer ==
    ASSUME Types, EndsInv, NEW q \in Pages, toServer[q] # <<>>, ServerStep(q)
    PROVE  EndsInv'
<1>1. /\ toServer' = [toServer EXCEPT ![q] = Tail(@)]
      /\ UNCHANGED <<page, serverEnd>>
  BY DEF ServerStep, HandleSubscribe, HandleCall, HandleAbsent, Handled
<1>2. serverEnd[q] = "open" /\ clientEnd[q] # "new"
  BY DEF EndsInv
<1>3. \A p \in Pages : p # q => count'[p] = count[p] /\ missed'[p] = missed[p]
  BY DEF ServerStep, HandleSubscribe, HandleCall, HandleAbsent, Types, ServerType, WayType
<1>4. (\E what : Deliver(what)) \/ UNCHANGED toClient
  BY DEF ServerStep, HandleSubscribe, HandleCall, HandleAbsent, AnswerAbsent, DeliverTo
<1>5. \A p \in Pages : clientEnd[p] # "open" => toClient'[p] = <<>>
  BY <1>4, DeliverOpen DEF EndsInv
<1>6. UNCHANGED <<clientEnd, serverEnd, rawEvent, listeners>>
  BY <1>1 DEF page
<1>7. \A p \in Pages : serverEnd[p] # "open" =>
          /\ toServer'[p] = <<>>
          /\ \A n \in Names : count'[p][n] = 0
  <2>1. \A p \in Pages : p # q => toServer'[p] = toServer[p]
    BY <1>1 DEF Types, WayType
  <2>2. QED
    BY <1>2, <1>3, <2>1 DEF EndsInv
<1>8. \A p \in Pages : clientEnd[p] = "new" => missed'[p]
  BY <1>2, <1>3 DEF EndsInv
<1>9. QED
  BY <1>5, <1>6, <1>7, <1>8 DEF EndsInv

LEMMA EndsNext ==
    ASSUME Types, EndsInv, [Next]_vars
    PROVE  EndsInv'
<1>1. CASE UNCHANGED vars
  BY <1>1 DEF vars, server, page, EndsInv
<1>2. CASE DevicesUpdated \/ SendRaw
  <2>1. PICK what : Deliver(what)
    BY <1>2 DEF DevicesUpdated, SendRaw
  <2>2. \A p \in Pages : clientEnd[p] # "open" => toClient'[p] = <<>>
    BY <2>1, DeliverOpen
  <2>3. UNCHANGED <<serverEnd, count, toServer, page>>
    BY <1>2 DEF DevicesUpdated, SendRaw
  <2>4. \A p \in Pages : clientEnd[p] = "new" => missed'[p]
    BY <1>2 DEF DevicesUpdated, SendRaw, EndsInv, Names
  <2>5. QED
    BY <2>2, <2>3, <2>4 DEF EndsInv, page
<1>3. ASSUME NEW q \in Pages, Open(q)
      PROVE  EndsInv'
  BY <1>3 DEF Open, EndsInv, Types, ServerType, PageType
<1>4. ASSUME NEW q \in Pages, ClientCloses(q)
      PROVE  EndsInv'
  BY <1>4 DEF ClientCloses, EndsInv, server, Types, PageType, WayType
<1>5. ASSUME NEW q \in Pages, ServerCloses(q)
      PROVE  EndsInv'
  BY <1>5 DEF ServerCloses, Unsubscribed, EndsInv, page, Types, ServerType, WayType
<1>6. ASSUME NEW q \in Pages, NEW s \in serving[q], HandlerSettles(q, s)
      PROVE  EndsInv'
  <2>1. PICK what : Deliver(what)
    BY <1>6 DEF HandlerSettles, ReplyTo, DeliverTo
  <2>2. \A p \in Pages : clientEnd[p] # "open" => toClient'[p] = <<>>
    BY <2>1, DeliverOpen
  <2>3. UNCHANGED <<serverEnd, count, toServer, page, missed>>
    BY <1>6 DEF HandlerSettles
  <2>4. QED
    BY <2>2, <2>3 DEF EndsInv, page
<1>7. QED
  BY <1>1, <1>2, <1>3, <1>4, <1>5, <1>6, EndsPage, EndsClient, EndsServer DEF Next

\* The bytes of a raw notification are taken for its own header, and never for
\* a message of their own, at every page and however its socket closes
\* (renderer.ts: the header waits in the page for the message after it).
THEOREM BytesFollowHeader == Spec => []RawPaired
<1>1. Init => Types /\ EndsInv /\ RawInv
  <2>1. Init => EndsInv /\ RawInv
    BY DEF Init, EndsInv, RawInv, RawOf, Paired
  <2>2. QED
    BY <2>1, TypesInit
<1>2. Types /\ EndsInv /\ RawInv /\ [Next]_vars => (Types /\ EndsInv /\ RawInv)'
  BY TypesNext, EndsNext, RawNext
<1>3. Types /\ RawInv => RawPaired
  <2>1. SUFFICES ASSUME Types, RawInv, NEW p \in Pages, toClient[p] # <<>>
                 PROVE  /\ rawEvent[p] # None => Head(toClient[p]) = Bytes(rawEvent[p])
                        /\ rawEvent[p] = None => Head(toClient[p]).kind # "bytes"
    BY DEF RawPaired
  <2>2. Head(toClient[p]) = toClient[p][1]
    BY <2>1, FirstAndRest DEF Types, WayType
  <2>3. QED
    BY <2>1, <2>2 DEF RawInv, RawOf
<1>4. QED
  BY <1>1, <1>2, <1>3, PTL DEF Spec

-----------------------------------------------------------------------------
(***************************************************************************)
(* Calls in a queue                                                        *)
(***************************************************************************)
LEMMA CallsNone ==
    ASSUME NEW kind
    PROVE  CallsIn(<<>>, kind) = {} /\ Once(<<>>, kind)
BY DEF CallsIn, Once

LEMMA CallsRest ==
    ASSUME NEW S, NEW q \in Seq(S), q # <<>>, NEW kind, Once(q, kind)
    PROVE  /\ Once(Tail(q), kind)
           /\ CallsIn(Tail(q), kind) = IF Head(q).kind = kind
                                       THEN CallsIn(q, kind) \ {Head(q).call}
                                       ELSE CallsIn(q, kind)
           /\ Head(q).kind = kind => Head(q).call \in CallsIn(q, kind)
<1> DEFINE r == Tail(q)
<1>1. /\ Len(q) \in Nat /\ 1 <= Len(q) /\ Head(q) = q[1] /\ Len(r) = Len(q) - 1
      /\ \A i \in 1 .. Len(q) - 1 : r[i] = q[i + 1]
  BY FirstAndRest
<1> HIDE DEF r
<1>2. \A i \in 1 .. Len(r) : i + 1 \in 1 .. Len(q) /\ i + 1 # 1 /\ r[i] = q[i + 1]
  BY <1>1
<1>3. \A k \in 1 .. Len(q) : k = 1 \/ \E i \in 1 .. Len(r) : k = i + 1
  <2>1. \A k \in 1 .. Len(q) : k = 1 \/ (k - 1 \in 1 .. Len(r) /\ k = (k - 1) + 1)
    BY <1>1
  <2>2. QED
    BY <2>1
<1>4. 1 \in 1 .. Len(q)
  BY <1>1
<1>5. Once(r, kind)
  <2>1. SUFFICES ASSUME NEW i \in 1 .. Len(r), NEW j \in 1 .. Len(r),
                        r[i].kind = kind, r[j].kind = kind, r[i].call = r[j].call
                 PROVE  i = j
    BY DEF Once
  <2>2. i + 1 = j + 1
    BY <1>2, <2>1 DEF Once
  <2>3. QED
    BY <2>2
<1>6. CASE q[1].kind = kind
  <2>1. \A k \in 1 .. Len(q) : k # 1 /\ q[k].kind = kind => q[k].call # q[1].call
    BY <1>4, <1>6 DEF Once
  <2>2. CallsIn(r, kind) = CallsIn(q, kind) \ {q[1].call}
    <3>1. ASSUME NEW i \in 1 .. Len(r), r[i].kind = kind
          PROVE  r[i].call \in CallsIn(q, kind) \ {q[1].call}
      BY <1>2, <2>1, <3>1 DEF CallsIn
    <3>2. ASSUME NEW k \in 1 .. Len(q), q[k].kind = kind, q[k].call # q[1].call
          PROVE  q[k].call \in CallsIn(r, kind)
      <4>1. PICK i \in 1 .. Len(r) : k = i + 1
        BY <1>3, <3>2
      <4>2. q[k] = r[i]
        BY <1>2, <4>1
      <4>3. QED
        BY <3>2, <4>2 DEF CallsIn
    <3>3. QED
      BY <3>1, <3>2 DEF CallsIn
  <2>3. q[1].call \in CallsIn(q, kind)
    BY <1>4, <1>6 DEF CallsIn
  <2>4. QED
    BY <1>1, <1>5, <1>6, <2>2, <2>3 DEF r
<1>7. CASE q[1].kind # kind
  <2>1. CallsIn(r, kind) = CallsIn(q, kind)
    <3>1. ASSUME NEW i \in 1 .. Len(r), r[i].kind = kind
          PROVE  r[i].call \in CallsIn(q, kind)
      BY <1>2, <3>1 DEF CallsIn
    <3>2. ASSUME NEW k \in 1 .. Len(q), q[k].kind = kind
          PROVE  q[k].call \in CallsIn(r, kind)
      <4>1. PICK i \in 1 .. Len(r) : k = i + 1
        BY <1>3, <1>7, <3>2
      <4>2. q[k] = r[i]
        BY <1>2, <4>1
      <4>3. QED
        BY <3>2, <4>2 DEF CallsIn
    <3>3. QED
      BY <3>1, <3>2 DEF CallsIn
  <2>2. QED
    BY <1>1, <1>5, <1>7, <2>1 DEF r
<1>8. QED
  BY <1>6, <1>7

\* A message of the kind is added.
LEMMA CallsMore ==
    ASSUME NEW S, NEW q \in Seq(S), NEW m \in S, NEW kind,
           NEW r, r = q \o <<m>>, Once(q, kind),
           m.kind = kind, m.call \notin CallsIn(q, kind)
    PROVE  /\ Once(r, kind)
           /\ CallsIn(r, kind) = CallsIn(q, kind) \cup {m.call}
<1>1. /\ Len(q) \in Nat /\ Len(r) = Len(q) + 1
      /\ \A i \in 1 .. Len(q) : r[i] = q[i]
      /\ r[Len(q) + 1] = m
  BY OneMore
<1>2. \A k \in 1 .. Len(r) : k \in 1 .. Len(q) \/ k = Len(q) + 1
  BY <1>1
<1>3. \A k \in 1 .. Len(q) : k \in 1 .. Len(r)
  BY <1>1
<1>4. Len(q) + 1 \in 1 .. Len(r)
  BY <1>1
<1>5. CallsIn(r, kind) = CallsIn(q, kind) \cup {m.call}
  BY <1>1, <1>2, <1>3, <1>4 DEF CallsIn
<1>6. Once(r, kind)
  <2>1. SUFFICES ASSUME NEW i \in 1 .. Len(r), NEW j \in 1 .. Len(r),
                        r[i].kind = kind, r[j].kind = kind, r[i].call = r[j].call
                 PROVE  i = j
    BY DEF Once
  <2>2. CASE i \in 1 .. Len(q) /\ j \in 1 .. Len(q)
    BY <1>1, <2>1, <2>2 DEF Once
  <2>3. ASSUME NEW k \in 1 .. Len(q), r[k].kind = kind
        PROVE  r[k].call # m.call
    <3>1. r[k] = q[k]
      BY <1>1
    <3>2. q[k].call \in CallsIn(q, kind)
      BY <2>3, <3>1 DEF CallsIn
    <3>3. QED
      BY <2>3, <3>1, <3>2
  <2>4. QED
    BY <1>1, <1>2, <2>1, <2>2, <2>3
<1>7. QED
  BY <1>5, <1>6

\* No message of the kind is added.
LEMMA CallsJoin ==
    ASSUME NEW S, NEW q \in Seq(S), NEW t \in Seq(S), NEW kind, Once(q, kind),
           \A i \in 1 .. Len(t) : t[i].kind # kind, NEW r, r = q \o t
    PROVE  Once(r, kind) /\ CallsIn(r, kind) = CallsIn(q, kind)
<1>1. /\ Len(q) \in Nat /\ Len(t) \in Nat /\ Len(r) = Len(q) + Len(t)
      /\ \A i \in 1 .. Len(q) + Len(t) : r[i] = IF i <= Len(q) THEN q[i] ELSE t[i - Len(q)]
  BY ConcatProperties, LenProperties
<1>2. \A k \in 1 .. Len(q) : k \in 1 .. Len(r) /\ r[k] = q[k]
  BY <1>1
<1>3. \A k \in 1 .. Len(r) : r[k].kind = kind => k \in 1 .. Len(q)
  <2>1. \A k \in 1 .. Len(r) :
          k \in 1 .. Len(q) \/ (k - Len(q) \in 1 .. Len(t) /\ r[k] = t[k - Len(q)])
    BY <1>1
  <2>2. QED
    BY <2>1
<1>4. CallsIn(r, kind) = CallsIn(q, kind)
  BY <1>2, <1>3 DEF CallsIn
<1>5. Once(r, kind)
  BY <1>2, <1>3 DEF Once
<1>6. QED
  BY <1>4, <1>5

\* A call, or a reply, is put at the end.
LEMMA CallAdded ==
    ASSUME NEW q \in Seq(Requests), NEW m \in Requests, NEW r, r = q \o <<m>>,
           Once(q, "call"), m.kind = "call", m.call \notin CallsIn(q, "call")
    PROVE  /\ Once(r, "call")
           /\ CallsIn(r, "call") = CallsIn(q, "call") \cup {m.call}
<1>1. ASSUME NEW kind, Once(q, kind), m.kind = kind, m.call \notin CallsIn(q, kind)
      PROVE  Once(r, kind) /\ CallsIn(r, kind) = CallsIn(q, kind) \cup {m.call}
  BY <1>1, CallsMore
<1>2. QED
  BY <1>1

LEMMA ReplyAdded ==
    ASSUME NEW q \in Seq(Notifications), NEW m \in Notifications, NEW r, r = q \o <<m>>,
           Once(q, "reply"), m.kind = "reply", m.call \notin CallsIn(q, "reply")
    PROVE  /\ Once(r, "reply")
           /\ CallsIn(r, "reply") = CallsIn(q, "reply") \cup {m.call}
<1>1. ASSUME NEW kind, Once(q, kind), m.kind = kind, m.call \notin CallsIn(q, kind)
      PROVE  Once(r, kind) /\ CallsIn(r, kind) = CallsIn(q, kind) \cup {m.call}
  BY <1>1, CallsMore
<1>2. QED
  BY <1>1

\* No call, or no reply, is put at the end.
LEMMA NoCallAdded ==
    ASSUME NEW q \in Seq(Requests), NEW t \in Seq(Requests), Once(q, "call"),
           \A i \in 1 .. Len(t) : t[i].kind # "call", NEW r, r = q \o t
    PROVE  Once(r, "call") /\ CallsIn(r, "call") = CallsIn(q, "call")
<1> DEFINE kind == "call"
<1>1. Once(q, kind) /\ \A i \in 1 .. Len(t) : t[i].kind # kind
  OBVIOUS
<1> HIDE DEF kind
<1>2. Once(r, kind) /\ CallsIn(r, kind) = CallsIn(q, kind)
  BY <1>1, CallsJoin, ZenonT(30)
<1>3. QED
  BY <1>2 DEF kind

LEMMA NoReplyAdded ==
    ASSUME NEW q \in Seq(Notifications), NEW t \in Seq(Notifications), Once(q, "reply"),
           \A i \in 1 .. Len(t) : t[i].kind # "reply", NEW r, r = q \o t
    PROVE  Once(r, "reply") /\ CallsIn(r, "reply") = CallsIn(q, "reply")
<1> DEFINE kind == "reply"
<1>1. Once(q, kind) /\ \A i \in 1 .. Len(t) : t[i].kind # kind
  OBVIOUS
<1> HIDE DEF kind
<1>2. Once(r, kind) /\ CallsIn(r, kind) = CallsIn(q, kind)
  BY <1>1, CallsJoin, ZenonT(30)
<1>3. QED
  BY <1>2 DEF kind

\* The first request, or the first message to a page, is taken.
LEMMA CallGone ==
    ASSUME NEW q \in Seq(Requests), q # <<>>, Once(q, "call")
    PROVE  /\ Once(Tail(q), "call")
           /\ Head(q).kind = "call" =>
                 /\ CallsIn(Tail(q), "call") = CallsIn(q, "call") \ {Head(q).call}
                 /\ Head(q).call \in CallsIn(q, "call")
           /\ Head(q).kind # "call" => CallsIn(Tail(q), "call") = CallsIn(q, "call")
<1> DEFINE kind == "call"
<1>1. Once(q, kind)
  OBVIOUS
<1> HIDE DEF kind
<1>2. /\ Once(Tail(q), kind)
      /\ CallsIn(Tail(q), kind) = IF Head(q).kind = kind
                                  THEN CallsIn(q, kind) \ {Head(q).call}
                                  ELSE CallsIn(q, kind)
      /\ Head(q).kind = kind => Head(q).call \in CallsIn(q, kind)
  BY <1>1, CallsRest
<1>3. QED
  BY <1>2 DEF kind

LEMMA ReplyGone ==
    ASSUME NEW q \in Seq(Notifications), q # <<>>, Once(q, "reply")
    PROVE  /\ Once(Tail(q), "reply")
           /\ Head(q).kind = "reply" =>
                 /\ CallsIn(Tail(q), "reply") = CallsIn(q, "reply") \ {Head(q).call}
                 /\ Head(q).call \in CallsIn(q, "reply")
           /\ Head(q).kind # "reply" => CallsIn(Tail(q), "reply") = CallsIn(q, "reply")
<1> DEFINE kind == "reply"
<1>1. Once(q, kind)
  OBVIOUS
<1> HIDE DEF kind
<1>2. /\ Once(Tail(q), kind)
      /\ CallsIn(Tail(q), kind) = IF Head(q).kind = kind
                                  THEN CallsIn(q, kind) \ {Head(q).call}
                                  ELSE CallsIn(q, kind)
      /\ Head(q).kind = kind => Head(q).call \in CallsIn(q, kind)
  BY <1>1, CallsRest
<1>3. QED
  BY <1>2 DEF kind

-----------------------------------------------------------------------------
(***************************************************************************)
(* The calls of a page, one step per action                                *)
(***************************************************************************)
CallsStay(p) == /\ callbacks'[p] = callbacks[p] /\ nextId'[p] = nextId[p]
                /\ serving'[p] = serving[p] /\ toServer'[p] = toServer[p]
                /\ toClient'[p] = toClient[p]

LEMMA CallsUnchanged ==
    ASSUME NEW p \in Pages, CallOf(p), CallsStay(p)
    PROVE  CallOf(p)'
BY DEF CallOf, CallsStay, Asked, Served, Answered

\* Nothing but messages of other kinds is added to the messages to p.
LEMMA CallsNotified ==
    ASSUME Types, NEW p \in Pages, CallOf(p),
           UNCHANGED <<callbacks, nextId, serving, toServer>>,
           NEW what, Deliver(what), what[p] \in Seq(Notifications),
           \A i \in 1 .. Len(what[p]) : what[p][i].kind # "reply"
    PROVE  CallOf(p)'
<1>1. toClient'[p] = IF Linked(p) THEN toClient[p] \o what[p] ELSE toClient[p]
  BY DEF Deliver
<1>2. toClient[p] \in Seq(Notifications) /\ Once(toClient[p], "reply")
  BY DEF Types, WayType, CallOf
<1>3. /\ Once(toClient'[p], "reply")
      /\ CallsIn(toClient'[p], "reply") = CallsIn(toClient[p], "reply")
  BY <1>1, <1>2, NoReplyAdded
<1>4. QED
  BY <1>3 DEF CallOf, Asked, Served, Answered

\* A reply is added, if the sockets are open, to what has been withdrawn from
\* the calls that are asked or served.
LEMMA ReplyOnce ==
    ASSUME Types, NEW p \in Pages, NEW c \in Calls, NEW r \in 0 .. MaxChanges,
           DeliverTo(p, <<Reply(c, r)>>), Once(toClient[p], "reply"),
           c \notin Answered(p)
    PROVE  /\ Once(toClient[p], "reply")'
           /\ Answered(p)' \subseteq Answered(p) \cup {c}
           /\ \A q \in Pages : q # p => toClient'[q] = toClient[q]
<1> DEFINE what == [q \in Pages |-> IF q = p THEN <<Reply(c, r)>> ELSE <<>>]
<1>1. toClient' = [q \in Pages |-> IF Linked(q) THEN toClient[q] \o what[q] ELSE toClient[q]]
  BY DEF DeliverTo, Deliver
<1>2. toClient[p] \in Seq(Notifications) /\ Reply(c, r) \in Notifications
  BY NotificationTypes DEF Types, WayType
<1>3. Reply(c, r).kind = "reply" /\ Reply(c, r).call = c
  BY DEF Reply
<1>4. /\ Once(toClient[p] \o <<Reply(c, r)>>, "reply")
      /\ CallsIn(toClient[p] \o <<Reply(c, r)>>, "reply") = Answered(p) \cup {c}
  <2>1. c \notin CallsIn(toClient[p], "reply")
    BY DEF Answered
  <2> DEFINE m == Reply(c, r)
  <2>2. m \in Notifications /\ m.kind = "reply" /\ m.call = c
    BY <1>2, <1>3
  <2> HIDE DEF m
  <2>3. /\ Once(toClient[p] \o <<m>>, "reply")
        /\ CallsIn(toClient[p] \o <<m>>, "reply")
              = CallsIn(toClient[p], "reply") \cup {m.call}
    BY <1>2, <2>1, <2>2, ReplyAdded
  <2>4. QED
    BY <2>2, <2>3 DEF Answered, m
<1>5. \A q \in Pages : q # p => toClient'[q] = toClient[q]
  <2>1. \A q \in Pages : toClient[q] \o <<>> = toClient[q]
    BY ConcatEmptySeq DEF Types, WayType
  <2>2. QED
    BY <1>1, <2>1
<1>6. toClient'[p] = IF Linked(p) THEN toClient[p] \o <<Reply(c, r)>> ELSE toClient[p]
  BY <1>1
<1>7. QED
  BY <1>4, <1>5, <1>6 DEF Answered

LEMMA CallsSend ==
    ASSUME Types, CallInv, NEW q \in Pages, NEW h \in Handles,
           NEW name \in {"getDevices", "act"}, Send(q, h, name),
           UNCHANGED <<serving, toClient>>
    PROVE  CallInv'
<1> DEFINE c == [handle |-> h, id |-> nextId[q][h], name |-> name]
<1>1. /\ nextId' = [nextId EXCEPT ![q][h] = @ + 1]
      /\ callbacks' = [callbacks EXCEPT ![q] = @ \cup {c}]
      /\ Post(q, <<Request(c)>>)
  BY DEF Send
<1>2. nextId[q][h] \in Nat /\ nextId[q] \in [Handles -> 0 .. MaxCalls]
  BY BoundsAreNat DEF Types, PageType
<1>3. \A d \in callbacks[q] : d.id \in Nat /\ d.handle \in Handles
  BY DEF Types, PageType, Calls
<1>4. CallOf(q)
  BY DEF CallInv
<1>5. c \notin callbacks[q] /\ c.handle = h /\ c.id = nextId[q][h]
  BY <1>2, <1>4 DEF CallOf
<1>6. nextId'[q] = [nextId[q] EXCEPT ![h] = @ + 1]
  BY <1>1 DEF Types, PageType
<1>7. c \in Calls
  BY SendType, <1>1 DEF Types, PageType
<1> HIDE DEF c
<1>8. callbacks'[q] = callbacks[q] \cup {c}
  BY <1>1 DEF Types, PageType
<1>9. toServer'[q] = toServer[q] \/ toServer'[q] = toServer[q] \o <<Request(c)>>
  BY <1>1 DEF Post, Types, WayType
<1>10. Once(toServer[q], "call")' /\ Asked(q)' \subseteq Asked(q) \cup {c}
  <2>1. toServer[q] \in Seq(Requests) /\ Request(c) \in Requests
    BY <1>7, RequestTypes DEF Types, WayType
  <2>2. c \notin Asked(q)
    BY <1>4, <1>5 DEF CallOf
  <2>3. Request(c).kind = "call" /\ Request(c).call = c
    BY DEF Request
  <2> DEFINE m == Request(c)
  <2> HIDE DEF m
  <2>4. m \in Requests /\ m.kind = "call" /\ m.call = c
    BY <2>1, <2>3 DEF m
  <2>5. c \notin CallsIn(toServer[q], "call") /\ Once(toServer[q], "call")
    BY <1>4, <2>2 DEF CallOf, Asked
  <2>6. /\ Once(toServer[q] \o <<m>>, "call")
        /\ CallsIn(toServer[q] \o <<m>>, "call")
              = CallsIn(toServer[q], "call") \cup {m.call}
    BY <2>1, <2>4, <2>5, CallAdded
  <2>7. toServer'[q] = toServer[q] \/ toServer'[q] = toServer[q] \o <<m>>
    BY <1>9 DEF m
  <2>8. QED
    BY <2>4, <2>5, <2>6, <2>7 DEF Asked
<1>11. \A d \in callbacks'[q] : d.id < nextId'[q][d.handle]
  <2>1. ASSUME NEW d \in callbacks[q]
        PROVE  d.id < nextId'[q][d.handle]
    <3>1. d.id < nextId[q][d.handle] /\ nextId[q][d.handle] \in Nat /\ d.id \in Nat
      BY <1>2, <1>3, <1>4, BoundsAreNat DEF CallOf
    <3>2. QED
      BY <1>2, <1>3, <1>6, <3>1
  <2>2. c.id < nextId'[q][c.handle]
    BY <1>2, <1>5, <1>6
  <2>3. QED
    BY <1>8, <2>1, <2>2
<1>12. \A d, e \in callbacks'[q] : d.handle = e.handle /\ d.id = e.id => d = e
  <2>1. ASSUME NEW d \in callbacks[q] PROVE ~(d.handle = c.handle /\ d.id = c.id)
    BY <1>2, <1>3, <1>4, <1>5 DEF CallOf
  <2>2. QED
    BY <1>4, <1>8, <2>1 DEF CallOf
<1>13. CallOf(q)'
  <2>1. Served(q)' = Served(q) /\ Answered(q)' = Answered(q) /\ toClient' = toClient
        /\ serving' = serving
    BY DEF Served, Answered
  <2>2. QED
    BY <1>4, <1>5, <1>8, <1>10, <1>11, <1>12, <2>1 DEF CallOf
<1>14. ASSUME NEW p \in Pages, p # q PROVE CallOf(p)'
  <2>1. CallsStay(p)
    BY <1>1, <1>14 DEF CallsStay, Post, Types, PageType, WayType
  <2>2. QED
    BY <2>1, CallsUnchanged DEF CallInv
<1>15. QED
  BY <1>13, <1>14 DEF CallInv

\* A subscription or its end is posted.
LEMMA SubscribePosted ==
    ASSUME Types, NEW q \in Pages, NEW n \in Names, NEW on \in BOOLEAN,
           Post(q, <<Subscribe(n, on)>>), Once(toServer[q], "call")
    PROVE  /\ Once(toServer[q], "call")' /\ Asked(q)' = Asked(q)
           /\ \A p \in Pages : p # q => toServer'[p] = toServer[p]
<1> DEFINE m == Subscribe(n, on)
<1>1. toServer[q] \in Seq(Requests) /\ <<m>> \in Seq(Requests)
  BY RequestTypes DEF Types, WayType
<1>2. \A i \in 1 .. Len(<<m>>) : <<m>>[i].kind # "call"
  BY DEF Subscribe
<1>3. toServer' = IF Linked(q) THEN [toServer EXCEPT ![q] = @ \o <<m>>] ELSE toServer
  BY DEF Post
<1> HIDE DEF m
<1> DEFINE t == <<m>>
<1>4. t \in Seq(Requests) /\ \A i \in 1 .. Len(t) : t[i].kind # "call"
  BY <1>1, <1>2
<1>5. toServer'[q] = toServer[q] \/ toServer'[q] = toServer[q] \o t
  BY <1>3 DEF Types, WayType
<1> HIDE DEF t
<1>6. Once(toServer'[q], "call") /\ CallsIn(toServer'[q], "call") = CallsIn(toServer[q], "call")
  BY <1>1, <1>4, <1>5, NoCallAdded
<1>7. \A p \in Pages : p # q => toServer'[p] = toServer[p]
  BY <1>3 DEF Types, WayType
<1>8. QED
  BY <1>6, <1>7 DEF Asked

LEMMA CallsPage ==
    ASSUME Types, CallInv, NEW q \in Pages,
           \/ Initialize(q) \/ On(q) \/ Off(q)
           \/ \E h \in Handles : Act(q, h)
    PROVE  CallInv'
<1>1. CASE Initialize(q) \/ \E h \in Handles : Act(q, h)
  <2>1. PICK h \in Handles, name \in {"getDevices", "act"} :
          Send(q, h, name) /\ UNCHANGED <<serving, toClient>>
    BY <1>1 DEF Initialize, Act, Handles, server
  <2>2. QED
    BY <2>1, CallsSend
<1>2. CASE On(q) \/ Off(q)
  <2>1. PICK on \in BOOLEAN : Post(q, <<Subscribe("data", on)>>)
    BY <1>2 DEF On, Off
  <2>2. UNCHANGED <<serving, toClient, callbacks, nextId>>
    BY <1>2 DEF On, Off, server
  <2>3. CallOf(q)
    BY DEF CallInv
  <2>4. /\ Once(toServer[q], "call")' /\ Asked(q)' = Asked(q)
        /\ \A p \in Pages : p # q => toServer'[p] = toServer[p]
    BY <2>1, <2>3, SubscribePosted DEF Names, CallOf
  <2>5. CallOf(q)'
    BY <2>2, <2>3, <2>4 DEF CallOf, Served, Answered
  <2>6. ASSUME NEW p \in Pages, p # q PROVE CallOf(p)'
    <3>1. CallsStay(p)
      BY <2>2, <2>4, <2>6 DEF CallsStay
    <3>2. QED
      BY <3>1, CallsUnchanged DEF CallInv
  <2>7. QED
    BY <2>5, <2>6 DEF CallInv
<1>3. QED
  BY <1>1, <1>2

LEMMA CallsClient ==
    ASSUME Types, CallInv, NEW q \in Pages, toClient[q] # <<>>, ClientStep(q)
    PROVE  CallInv'
<1> DEFINE m == Head(toClient[q])
<1>1. /\ toClient' = [toClient EXCEPT ![q] = Tail(@)]
      /\ UNCHANGED <<serving, nextId>>
  BY DEF ClientStep, TakeBytes, TakeHeader, TakeDevices, TakeReply, Take, server
<1>2. CallOf(q) /\ toClient[q] \in Seq(Notifications)
  BY DEF CallInv, Types, WayType
<1>3. /\ Once(Tail(toClient[q]), "reply")
      /\ m.kind = "reply" => /\ CallsIn(Tail(toClient[q]), "reply") = Answered(q) \ {m.call}
                             /\ m.call \in Answered(q)
      /\ m.kind # "reply" => CallsIn(Tail(toClient[q]), "reply") = Answered(q)
  BY <1>2, ReplyGone DEF CallOf, Answered
<1>4. Answered(q)' = CallsIn(Tail(toClient[q]), "reply") /\ toClient'[q] = Tail(toClient[q])
  BY <1>1 DEF Answered, Types, WayType
<1>5. Served(q)' = Served(q) /\ serving' = serving
  BY <1>1 DEF Served
<1>6. CASE TakeBytes(q) \/ TakeHeader(q) \/ TakeDevices(q)
  <2>1. UNCHANGED <<toServer, callbacks>>
    BY <1>6 DEF TakeBytes, TakeHeader, TakeDevices
  <2>2. Answered(q)' \subseteq Answered(q)
    BY <1>3, <1>4
  <2>3. CallOf(q)'
    BY <1>1, <1>2, <1>3, <1>4, <1>5, <2>1, <2>2 DEF CallOf, Asked
  <2>4. ASSUME NEW p \in Pages, p # q PROVE CallOf(p)'
    <3>1. CallsStay(p)
      BY <1>1, <2>1, <2>4 DEF CallsStay, Types, WayType
    <3>2. QED
      BY <3>1, CallsUnchanged DEF CallInv
  <2>5. QED
    BY <2>3, <2>4 DEF CallInv
<1>7. CASE TakeReply(q)
  <2>1. PICK c \in Settles(q, m) :
          /\ callbacks' = [callbacks EXCEPT ![q] = @ \ {c}]
          /\ Post(q, <<Subscribe("devices", TRUE)>>) \/ UNCHANGED toServer
    BY <1>7 DEF TakeReply
  <2>2. m.kind = "reply" /\ m.call \in callbacks[q]
    BY <1>2, <1>3, <1>7 DEF TakeReply, CallOf
  <2>3. c \in callbacks[q] /\ c = m.call
    BY <1>2, <2>1, <2>2 DEF Settles, CallOf
  <2>4. callbacks'[q] = callbacks[q] \ {c}
    BY <2>1 DEF Types, PageType
  <2>5. /\ Once(toServer[q], "call")' /\ Asked(q)' = Asked(q)
        /\ \A p \in Pages : p # q => toServer'[p] = toServer[p]
    <3>1. CASE UNCHANGED toServer
      BY <1>2, <3>1 DEF CallOf, Asked
    <3>2. CASE Post(q, <<Subscribe("devices", TRUE)>>)
      BY <1>2, <3>2, SubscribePosted DEF CallOf, Names
    <3>3. QED
      BY <2>1, <3>1, <3>2
  <2>6. Answered(q)' = Answered(q) \ {c} /\ c \in Answered(q)
    BY <1>3, <1>4, <2>2, <2>3
  <2>7. CallOf(q)'
    BY <1>1, <1>2, <1>3, <1>4, <1>5, <2>4, <2>5, <2>6 DEF CallOf
  <2>8. ASSUME NEW p \in Pages, p # q PROVE CallOf(p)'
    <3>1. CallsStay(p)
      BY <1>1, <2>1, <2>5, <2>8 DEF CallsStay, Types, WayType, PageType
    <3>2. QED
      BY <3>1, CallsUnchanged DEF CallInv
  <2>9. QED
    BY <2>7, <2>8 DEF CallInv
<1>8. QED
  BY <1>6, <1>7 DEF ClientStep

LEMMA CallsServer ==
    ASSUME Types, CallInv, NEW q \in Pages, toServer[q] # <<>>, ServerStep(q)
    PROVE  CallInv'
<1> DEFINE m == Head(toServer[q])
<1>1. /\ toServer' = [toServer EXCEPT ![q] = Tail(@)]
      /\ UNCHANGED <<callbacks, nextId>>
  BY DEF ServerStep, HandleSubscribe, HandleCall, HandleAbsent, Handled, page
<1>2. CallOf(q) /\ toServer[q] \in Seq(Requests)
  BY DEF CallInv, Types, WayType
<1>3. /\ Once(Tail(toServer[q]), "call")
      /\ m.kind = "call" => /\ CallsIn(Tail(toServer[q]), "call") = Asked(q) \ {m.call}
                            /\ m.call \in Asked(q)
      /\ m.kind # "call" => CallsIn(Tail(toServer[q]), "call") = Asked(q)
  BY <1>2, CallGone DEF CallOf, Asked
<1>4. Asked(q)' = CallsIn(Tail(toServer[q]), "call") /\ toServer'[q] = Tail(toServer[q])
  BY <1>1 DEF Asked, Types, WayType
<1>5. m \in Requests
  BY <1>2
<1>6. CASE HandleSubscribe(q)
  <2>1. UNCHANGED <<serving, toClient>>
    BY <1>6 DEF HandleSubscribe
  <2>2. CallOf(q)'
    BY <1>1, <1>2, <1>3, <1>4, <2>1 DEF CallOf, Served, Answered
  <2>3. ASSUME NEW p \in Pages, p # q PROVE CallOf(p)'
    <3>1. CallsStay(p)
      BY <1>1, <2>1, <2>3 DEF CallsStay, Types, WayType
    <3>2. QED
      BY <3>1, CallsUnchanged DEF CallInv
  <2>4. QED
    BY <2>2, <2>3 DEF CallInv
<1>7. CASE HandleCall(q)
  <2>1. /\ m.kind = "call" /\ UNCHANGED toClient
        /\ serving' = [serving EXCEPT ![q] = @ \cup {[call |-> m.call, result |-> devices]}]
    BY <1>7 DEF HandleCall
  <2>2. serving'[q] = serving[q] \cup {[call |-> m.call, result |-> devices]}
    BY <2>1 DEF Types, ServerType
  <2>3. Served(q)' = Served(q) \cup {m.call}
    <3> DEFINE x == [call |-> m.call, result |-> devices]
    <3>1. x.call = m.call /\ serving'[q] = serving[q] \cup {x}
      BY <2>2
    <3> HIDE DEF m, x
    <3>2. QED
      BY <3>1 DEF Served
  <2>4. \A s \in serving[q] : s.call # m.call
    BY <1>2, <1>3, <2>1 DEF CallOf, Served
  <2>5. \A s, t \in serving'[q] : s.call = t.call => s = t
    BY <1>2, <2>2, <2>4 DEF CallOf
  <2>6. Answered(q)' = Answered(q)
    BY <2>1 DEF Answered
  <2>7. CallOf(q)'
    BY <1>1, <1>2, <1>3, <1>4, <2>1, <2>3, <2>5, <2>6 DEF CallOf
  <2>8. ASSUME NEW p \in Pages, p # q PROVE CallOf(p)'
    <3>1. CallsStay(p)
      BY <1>1, <2>1, <2>8 DEF CallsStay, Types, WayType, ServerType
    <3>2. QED
      BY <3>1, CallsUnchanged DEF CallInv
  <2>9. QED
    BY <2>7, <2>8 DEF CallInv
<1>8. CASE HandleAbsent(q)
  <2>1. /\ m.kind = "call" /\ UNCHANGED serving
        /\ DeliverTo(q, <<Reply(m.call, 0)>>)
    BY <1>8 DEF HandleAbsent, AnswerAbsent
  <2>2. m.call \in Calls /\ 0 \in 0 .. MaxChanges
    BY <1>5, <2>1, RequestTypes, BoundsAreNat
  <2>3. m.call \notin Answered(q) /\ m.call \notin Served(q)
    BY <1>2, <1>3, <2>1 DEF CallOf
  <2>4. /\ Once(toClient[q], "reply")'
        /\ Answered(q)' \subseteq Answered(q) \cup {m.call}
        /\ \A p \in Pages : p # q => toClient'[p] = toClient[p]
    <3> DEFINE c == m.call
    <3>1. DeliverTo(q, <<Reply(c, 0)>>) /\ c \in Calls /\ c \notin Answered(q)
      BY <2>1, <2>2, <2>3
    <3>2. Once(toClient[q], "reply")
      BY <1>2 DEF CallOf
    <3> HIDE DEF c
    <3>3. /\ Once(toClient[q], "reply")'
          /\ Answered(q)' \subseteq Answered(q) \cup {c}
          /\ \A p \in Pages : p # q => toClient'[p] = toClient[p]
      BY <2>2, <3>1, <3>2, ReplyOnce
    <3>4. QED
      BY <3>3 DEF c
  <2>5. Served(q)' = Served(q) /\ serving' = serving
    BY <2>1 DEF Served
  <2>6. CallOf(q)'
    BY <1>1, <1>2, <1>3, <1>4, <2>1, <2>3, <2>4, <2>5 DEF CallOf
  <2>7. ASSUME NEW p \in Pages, p # q PROVE CallOf(p)'
    <3>1. CallsStay(p)
      BY <1>1, <2>1, <2>4, <2>7 DEF CallsStay, Types, WayType
    <3>2. QED
      BY <3>1, CallsUnchanged DEF CallInv
  <2>8. QED
    BY <2>6, <2>7 DEF CallInv
<1>9. QED
  BY <1>6, <1>7, <1>8 DEF ServerStep

LEMMA CallsHandler ==
    ASSUME Types, CallInv, NEW q \in Pages, NEW s \in serving[q], HandlerSettles(q, s)
    PROVE  CallInv'
<1> DEFINE c == s.call
<1>1. s.call \in Calls /\ s.result \in 0 .. MaxChanges
  BY DEF Types, ServerType
<1>2. CallOf(q)
  BY DEF CallInv
<1>3. /\ serving'[q] = serving[q] \ {s}
      /\ \A p \in Pages : p # q => serving'[p] = serving[p]
      /\ UNCHANGED <<toServer, callbacks, nextId>>
  BY DEF HandlerSettles, page, Types, ServerType
<1>4. c \in Served(q) /\ c \notin Answered(q)
  BY <1>2 DEF Served, CallOf
<1>5. Served(q)' = Served(q) \ {c}
  BY <1>2, <1>3 DEF Served, CallOf
<1>6. /\ Once(toClient[q], "reply")'
      /\ Answered(q)' \subseteq Answered(q) \cup {c}
      /\ \A p \in Pages : p # q => toClient'[p] = toClient[p]
  <2>1. DeliverTo(q, <<Reply(c, s.result)>>) /\ Once(toClient[q], "reply")
    BY <1>2 DEF HandlerSettles, ReplyTo, CallOf
  <2>2. c \in Calls
    BY <1>1
  <2> HIDE DEF c
  <2>3. QED
    BY <1>1, <1>4, <2>1, <2>2, ReplyOnce
<1> HIDE DEF c
<1>7. CallOf(q)'
  <2>1. Asked(q)' = Asked(q)
    BY <1>3 DEF Asked
  <2>2. QED
    BY <1>2, <1>3, <1>4, <1>5, <1>6, <2>1 DEF CallOf
<1>8. ASSUME NEW p \in Pages, p # q PROVE CallOf(p)'
  <2>1. CallsStay(p)
    BY <1>3, <1>6, <1>8 DEF CallsStay
  <2>2. QED
    BY <2>1, CallsUnchanged DEF CallInv
<1>9. QED
  BY <1>7, <1>8 DEF CallInv

LEMMA CallsSocket ==
    ASSUME Types, CallInv, NEW q \in Pages, Open(q) \/ ClientCloses(q) \/ ServerCloses(q)
    PROVE  CallInv'
<1>1. UNCHANGED <<callbacks, nextId, serving>>
  BY DEF Open, ClientCloses, ServerCloses, page, server
<1>2. ASSUME NEW p \in Pages
      PROVE  /\ toServer'[p] = toServer[p] \/ toServer'[p] = <<>>
             /\ toClient'[p] = toClient[p] \/ toClient'[p] = <<>>
  BY DEF Open, ClientCloses, ServerCloses, Types, WayType
<1>3. ASSUME NEW p \in Pages PROVE CallOf(p)'
  <2>1. CallOf(p) /\ Served(p)' = Served(p) /\ serving'[p] = serving[p]
    BY <1>1 DEF CallInv, Served
  <2>2. Asked(p)' \subseteq Asked(p) /\ Once(toServer[p], "call")'
    BY <1>2, <2>1, CallsNone DEF Asked, CallOf
  <2>3. Answered(p)' \subseteq Answered(p) /\ Once(toClient[p], "reply")'
    BY <1>2, <2>1, CallsNone DEF Answered, CallOf
  <2>4. QED
    BY <1>1, <2>1, <2>2, <2>3 DEF CallOf
<1>4. QED
  BY <1>3 DEF CallInv

LEMMA CallsNotify ==
    ASSUME Types, CallInv, DevicesUpdated \/ SendRaw
    PROVE  CallInv'
<1> SUFFICES ASSUME NEW p \in Pages PROVE CallOf(p)'
  BY DEF CallInv
<1>1. CallOf(p) /\ UNCHANGED <<callbacks, nextId, serving, toServer>>
  BY DEF CallInv, DevicesUpdated, SendRaw, page
<1>2. CASE DevicesUpdated
  <2> DEFINE what == [o \in Pages |-> IF o \in Notified("devices")
                                      THEN <<Devices(devices + 1)>> ELSE <<>>]
  <2>1. devices + 1 \in 0 .. MaxChanges
    BY <1>2, BoundsAreNat DEF DevicesUpdated, Types, ServerType
  <2>2. Devices(devices + 1) \in Notifications /\ Devices(devices + 1).kind # "reply"
    BY <2>1, NotificationTypes DEF Devices
  <2>3. what[p] \in Seq(Notifications) /\ \A i \in 1 .. Len(what[p]) : what[p][i].kind # "reply"
    BY <2>2
  <2>4. Deliver(what)
    BY <1>2 DEF DevicesUpdated
  <2> HIDE DEF what
  <2>5. QED
    BY <1>1, <2>3, <2>4, CallsNotified
<1>3. CASE SendRaw
  <2> DEFINE what == [o \in Pages |-> IF o \in Notified("data")
                                      THEN RawMessages(frames + 1) ELSE <<>>]
  <2>1. frames + 1 \in 1 .. MaxFrames
    BY <1>3, BoundsAreNat DEF SendRaw, Types, ServerType
  <2>2. /\ Header(frames + 1) \in Notifications /\ Header(frames + 1).kind # "reply"
        /\ Bytes(frames + 1) \in Notifications /\ Bytes(frames + 1).kind # "reply"
    BY <2>1, NotificationTypes DEF Header, Bytes
  <2>3. what[p] \in Seq(Notifications) /\ \A i \in 1 .. Len(what[p]) : what[p][i].kind # "reply"
    BY <2>2 DEF RawMessages
  <2>4. Deliver(what)
    BY <1>3 DEF SendRaw
  <2> HIDE DEF what
  <2>5. QED
    BY <1>1, <2>3, <2>4, CallsNotified
<1>4. QED
  BY <1>2, <1>3

LEMMA CallsNext ==
    ASSUME Types, CallInv, [Next]_vars
    PROVE  CallInv'
<1>1. CASE UNCHANGED vars
  <2>1. \A p \in Pages : CallsStay(p)
    BY <1>1 DEF vars, server, page, CallsStay
  <2>2. QED
    BY <2>1, CallsUnchanged DEF CallInv
<1>2. QED
  BY <1>1, CallsNotify, CallsSocket, CallsPage, CallsClient, CallsServer, CallsHandler
  DEF Next

\* Every reply on its way has exactly one call it settles, whichever handlers
\* settle in which order, and though the helpers of a page number their calls
\* alike (renderer.ts: the callback is found by handle and id).
THEOREM RepliesHaveCallers == Spec => []AnswersHaveCallers
<1>1. Init => Types /\ CallInv
  <2>1. ASSUME Init, NEW p \in Pages PROVE CallOf(p)
    <3>1. /\ callbacks[p] = {} /\ serving[p] = {}
          /\ toServer[p] = <<>> /\ toClient[p] = <<>>
      BY <2>1 DEF Init
    <3>2. QED
      BY <3>1, CallsNone DEF CallOf, Asked, Served, Answered
  <2>2. QED
    BY <2>1, TypesInit DEF CallInv
<1>2. Types /\ CallInv /\ [Next]_vars => (Types /\ CallInv)'
  BY TypesNext, CallsNext
<1>3. Types /\ CallInv => AnswersHaveCallers
  <2> SUFFICES ASSUME Types, CallInv, NEW p \in Pages, NEW c \in Answers(p)
               PROVE  c \in callbacks[p] /\ Settles(p, Reply(c, 0)) = {c}
    BY DEF AnswersHaveCallers
  <2>1. CallOf(p) /\ toServer[p] \in Seq(Requests) /\ toClient[p] \in Seq(Notifications)
    BY DEF CallInv, Types, WayType
  <2>2. /\ ToSet(toServer[p]) = {toServer[p][i] : i \in 1 .. Len(toServer[p])}
        /\ ToSet(toClient[p]) = {toClient[p][i] : i \in 1 .. Len(toClient[p])}
    BY <2>1 DEF ToSet
  <2>3. c \in Asked(p) \cup Served(p) \cup Answered(p)
    BY <2>2 DEF Answers, Asked, Served, Answered, CallsIn
  <2>4. c \in callbacks[p]
    BY <2>1, <2>3 DEF CallOf
  <2>5. \A d \in callbacks[p] : d.handle = c.handle /\ d.id = c.id => d = c
    BY <2>1, <2>4 DEF CallOf
  <2>6. Reply(c, 0).call = c
    BY DEF Reply
  <2>7. QED
    BY <2>4, <2>5, <2>6 DEF Settles
<1>4. QED
  BY <1>1, <1>2, <1>3, PTL DEF Spec

-----------------------------------------------------------------------------
(***************************************************************************)
(* How often a message is in a queue                                       *)
(***************************************************************************)
LEMMA TimesStep ==
    ASSUME NEW q, NEW m, NEW k \in Nat
    PROVE  /\ Times(q, m, k) \in Nat
           /\ Times(q, m, 0) = 0
           /\ Times(q, m, k + 1) = IF q[k + 1] = m THEN Times(q, m, k) + 1
                                                   ELSE Times(q, m, k)
<1> DEFINE At(j) == {i \in 1 .. j : q[i] = m}
<1>1. IsFiniteSet(At(k)) /\ Cardinality(At(k)) \in Nat
  <2>1. IsFiniteSet(1 .. k)
    BY FS_Interval
  <2>2. IsFiniteSet(At(k))
    BY <2>1, FS_Subset
  <2>3. QED
    BY <2>2, FS_CardinalityType
<1>2. At(0) = {}
  OBVIOUS
<1>3. k + 1 \notin At(k)
  OBVIOUS
<1>4. At(k + 1) = IF q[k + 1] = m THEN At(k) \cup {k + 1} ELSE At(k)
  OBVIOUS
<1>5. /\ Times(q, m, k) = Cardinality(At(k))
      /\ Times(q, m, 0) = Cardinality(At(0))
      /\ Times(q, m, k + 1) = Cardinality(At(k + 1))
  BY DEF Times
<1> HIDE DEF At
<1>6. Cardinality(At(k) \cup {k + 1}) = Cardinality(At(k)) + 1
  BY <1>1, <1>3, FS_AddElement
<1>7. QED
  BY <1>1, <1>2, <1>4, <1>5, <1>6, FS_EmptySet

LEMMA TimesSame ==
    ASSUME NEW q, NEW r, NEW m, NEW k \in Nat, \A i \in 1 .. k : q[i] = r[i]
    PROVE  Times(q, m, k) = Times(r, m, k)
<1>1. {i \in 1 .. k : q[i] = m} = {i \in 1 .. k : r[i] = m}
  OBVIOUS
<1>2. QED
  BY <1>1 DEF Times

\* r is q without its first message.
LEMMA TimesRest ==
    ASSUME NEW q, NEW r, NEW m, NEW k \in Nat, \A i \in 1 .. k : r[i] = q[i + 1]
    PROVE  Times(q, m, k + 1) = IF q[1] = m THEN Times(r, m, k) + 1 ELSE Times(r, m, k)
<1> DEFINE R == {i \in 1 .. k : r[i] = m}
           Q == {i \in 2 .. k + 1 : q[i] = m}
<1>1. IsFiniteSet(R) /\ Cardinality(R) \in Nat
  <2>1. IsFiniteSet(1 .. k)
    BY FS_Interval
  <2>2. IsFiniteSet(R)
    BY <2>1, FS_Subset
  <2>3. QED
    BY <2>2, FS_CardinalityType
<1>2. ExistsBijection(R, Q)
  <2> DEFINE next == [i \in R |-> i + 1]
  <2>1. next \in [R -> Q]
    OBVIOUS
  <2>2. \A i, j \in R : next[i] = next[j] => i = j
    OBVIOUS
  <2>3. \A j \in Q : \E i \in R : next[i] = j
    <3>1. \A j \in Q : j - 1 \in R /\ next[j - 1] = j
      OBVIOUS
    <3>2. QED
      BY <3>1
  <2> HIDE DEF next, R, Q
  <2>4. next \in Bijection(R, Q)
    BY <2>1, <2>2, <2>3 DEF Bijection, Injection, Surjection, IsInjective
  <2>5. QED
    BY <2>4 DEF ExistsBijection
<1>3. IsFiniteSet(Q) /\ Cardinality(Q) = Cardinality(R)
  BY <1>1, <1>2, FS_Bijection
<1>4. 1 \notin Q
  OBVIOUS
<1>5. {i \in 1 .. k + 1 : q[i] = m} = IF q[1] = m THEN Q \cup {1} ELSE Q
  OBVIOUS
<1>6. /\ Times(r, m, k) = Cardinality(R)
      /\ Times(q, m, k + 1) = Cardinality({i \in 1 .. k + 1 : q[i] = m})
  BY DEF Times
<1> HIDE DEF R, Q
<1>7. Cardinality(Q \cup {1}) = Cardinality(Q) + 1
  BY <1>1, <1>3, <1>4, FS_AddElement
<1>8. QED
  BY <1>1, <1>3, <1>5, <1>6, <1>7

-----------------------------------------------------------------------------
(***************************************************************************)
(* Subscriptions and listeners                                             *)
(***************************************************************************)
Plus(m, n) == IF m = Subscribe(n, TRUE) THEN 1 ELSE 0
Minus(m, n) == IF m = Subscribe(n, FALSE) THEN 1 ELSE 0

LEMMA BalanceEmpty ==
    ASSUME NEW n, NEW c \in Nat
    PROVE  Balance(<<>>, n, c, c)
<1>1. /\ Times(<<>>, Subscribe(n, FALSE), 0) = 0
      /\ Times(<<>>, Subscribe(n, TRUE), 0) = 0
  BY TimesStep
<1>2. Len(<<>>) = 0
  BY EmptySeq
<1>3. \A k \in 0 .. 0 : k = 0
  OBVIOUS
<1>4. c + 0 = c /\ 0 <= c + 0
  OBVIOUS
<1>5. QED
  BY <1>1, <1>2, <1>3, <1>4 DEF Balance

\* The last message of r counts once.
LEMMA TimesLast ==
    ASSUME NEW r, NEW n, NEW k \in Nat
    PROVE  /\ Times(r, Subscribe(n, TRUE), k + 1)
                  = Times(r, Subscribe(n, TRUE), k) + Plus(r[k + 1], n)
           /\ Times(r, Subscribe(n, FALSE), k + 1)
                  = Times(r, Subscribe(n, FALSE), k) + Minus(r[k + 1], n)
           /\ Plus(r[k + 1], n) \in Nat /\ Minus(r[k + 1], n) \in Nat
<1>1. \A m : /\ Times(r, m, k) \in Nat
             /\ Times(r, m, k + 1) = IF r[k + 1] = m THEN Times(r, m, k) + 1
                                                     ELSE Times(r, m, k)
  BY TimesStep
<1> DEFINE T == Subscribe(n, TRUE)
           F == Subscribe(n, FALSE)
<1>2. /\ Plus(r[k + 1], n) = IF r[k + 1] = T THEN 1 ELSE 0
      /\ Minus(r[k + 1], n) = IF r[k + 1] = F THEN 1 ELSE 0
  BY DEF Plus, Minus
<1> HIDE DEF T, F
<1>3. /\ Times(r, T, k + 1) = Times(r, T, k) + Plus(r[k + 1], n)
      /\ Plus(r[k + 1], n) \in Nat
  BY <1>1, <1>2
<1>4. /\ Times(r, F, k + 1) = Times(r, F, k) + Minus(r[k + 1], n)
      /\ Minus(r[k + 1], n) \in Nat
  BY <1>1, <1>2
<1>5. QED
  BY <1>3, <1>4 DEF T, F

\* The sum on both sides, when the page or the server has moved.
LEMMA SumPosted ==
    ASSUME NEW c \in Nat, NEW l \in Nat, NEW e \in Nat, NEW a \in Nat, NEW b \in Nat,
           NEW u \in Nat, NEW v \in Nat, c + a = l + b, e + v = l + u
    PROVE  c + (a + u) = e + (b + v)
OBVIOUS

LEMMA SumTaken ==
    ASSUME NEW c \in Nat, NEW l \in Nat, NEW d \in Nat, NEW a \in Nat, NEW b \in Nat,
           NEW u \in Nat, NEW v \in Nat, c + (a + u) = l + (b + v), d + v = c + u
    PROVE  d + a = l + b
OBVIOUS

\* The page changes its listeners as it tells the server.
LEMMA BalancePosted ==
    ASSUME NEW q \in Seq(Requests), NEW m \in Requests, NEW n \in Names,
           NEW c \in Nat, NEW l \in Nat, NEW e \in Nat, Balance(q, n, c, l),
           e + Minus(m, n) = l + Plus(m, n)
    PROVE  Balance(q \o <<m>>, n, c, e)
<1> DEFINE r == q \o <<m>>
           T == Subscribe(n, TRUE)
           F == Subscribe(n, FALSE)
<1>1. /\ Len(q) \in Nat /\ Len(r) = Len(q) + 1
      /\ \A i \in 1 .. Len(q) : r[i] = q[i]
      /\ r[Len(q) + 1] = m
  BY OneMore
<1> HIDE DEF r, T, F
<1>2. \A k \in 0 .. Len(q) :
        /\ Times(r, T, k) = Times(q, T, k) /\ Times(q, T, k) \in Nat
        /\ Times(r, F, k) = Times(q, F, k) /\ Times(q, F, k) \in Nat
  <2>1. ASSUME NEW k \in 0 .. Len(q), NEW x
        PROVE  Times(r, x, k) = Times(q, x, k) /\ Times(q, x, k) \in Nat
    <3>1. k \in Nat /\ \A i \in 1 .. k : r[i] = q[i]
      BY <1>1
    <3>2. QED
      BY <3>1, TimesSame, TimesStep
  <2>2. QED
    BY <2>1
<1> DEFINE len == Len(q)
<1>3. /\ len \in Nat /\ len \in 0 .. len /\ Len(r) = len + 1 /\ r[len + 1] = m
  BY <1>1
<1> HIDE DEF len
<1>4. /\ Times(r, T, len + 1) = Times(r, T, len) + Plus(m, n)
      /\ Times(r, F, len + 1) = Times(r, F, len) + Minus(m, n)
      /\ Plus(m, n) \in Nat /\ Minus(m, n) \in Nat
  BY <1>3, TimesLast DEF T, F
<1>5. /\ \A k \in 0 .. len : Times(q, F, k) <= c + Times(q, T, k)
      /\ c + Times(q, T, len) = l + Times(q, F, len)
  BY DEF Balance, T, F, len
<1>6. /\ Times(r, T, len) = Times(q, T, len) /\ Times(q, T, len) \in Nat
      /\ Times(r, F, len) = Times(q, F, len) /\ Times(q, F, len) \in Nat
  BY <1>2, <1>3 DEF len
<1>7. c + Times(r, T, len + 1) = e + Times(r, F, len + 1)
  <2>1. /\ Times(r, T, len) \in Nat /\ Times(r, F, len) \in Nat
        /\ Plus(m, n) \in Nat /\ Minus(m, n) \in Nat
        /\ c + Times(r, T, len) = l + Times(r, F, len)
    BY <1>4, <1>5, <1>6
  <2> DEFINE a == Times(r, T, len)
             b == Times(r, F, len)
             u == Plus(m, n)
             v == Minus(m, n)
  <2>2. /\ a \in Nat /\ b \in Nat /\ u \in Nat /\ v \in Nat
        /\ c + a = l + b /\ e + v = l + u
    BY <2>1
  <2> HIDE DEF a, b, u, v
  <2>3. c + (a + u) = e + (b + v)
    BY ONLY <2>2, SumPosted, c \in Nat, l \in Nat, e \in Nat
  <2>4. QED
    BY <1>4, <2>3 DEF a, b, u, v
<1>8. ASSUME NEW k \in 0 .. len + 1
      PROVE  Times(r, F, k) <= c + Times(r, T, k)
  <2>1. CASE k \in 0 .. len
    BY <1>2, <1>5, <2>1 DEF len
  <2>2. CASE k = len + 1
    <3>1. Times(r, F, len + 1) \in Nat
      BY <1>4, <1>6
    <3>2. QED
      BY <1>7, <2>2, <3>1
  <2>3. QED
    BY <1>3, <2>1, <2>2
<1>9. QED
  BY <1>3, <1>7, <1>8 DEF Balance, T, F, r

\* The server counts as it is told: it is never told to count below zero.
LEMMA BalanceTaken ==
    ASSUME NEW q \in Seq(Requests), q # <<>>, NEW n \in Names,
           NEW c \in Nat, NEW l \in Nat, Balance(q, n, c, l)
    PROVE  /\ Minus(Head(q), n) <= c
           /\ Balance(Tail(q), n, (c + Plus(Head(q), n)) - Minus(Head(q), n), l)
<1> DEFINE r == Tail(q)
           T == Subscribe(n, TRUE)
           F == Subscribe(n, FALSE)
           m == Head(q)
           len == Len(r)
<1>1. /\ len \in Nat /\ Len(q) = len + 1 /\ m = q[1]
      /\ \A i \in 1 .. len : r[i] = q[i + 1]
  <2>1. /\ Len(q) \in Nat /\ 1 <= Len(q) /\ m = q[1] /\ len = Len(q) - 1
        /\ \A i \in 1 .. Len(q) - 1 : r[i] = q[i + 1]
    BY FirstAndRest
  <2> HIDE DEF r, len, m
  <2>2. QED
    BY <2>1
<1> HIDE DEF r, T, F, m, len
<1>2. /\ Plus(m, n) = IF m = T THEN 1 ELSE 0
      /\ Minus(m, n) = IF m = F THEN 1 ELSE 0
  BY DEF Plus, Minus, T, F
<1>3. m = T => m # F
  BY DEF T, F, Subscribe
<1>4. ASSUME NEW k \in 0 .. len
      PROVE  /\ Times(q, T, k + 1) = Times(r, T, k) + Plus(m, n)
             /\ Times(q, F, k + 1) = Times(r, F, k) + Minus(m, n)
             /\ Times(r, T, k) \in Nat /\ Times(r, F, k) \in Nat
  <2>1. k \in Nat /\ \A i \in 1 .. k : r[i] = q[i + 1]
    BY <1>1
  <2>2. Times(r, T, k) \in Nat /\ Times(r, F, k) \in Nat
    BY <2>1, TimesStep
  <2>3. /\ Times(q, T, k + 1) = IF m = T THEN Times(r, T, k) + 1 ELSE Times(r, T, k)
        /\ Times(q, F, k + 1) = IF m = F THEN Times(r, F, k) + 1 ELSE Times(r, F, k)
    BY <1>1, <2>1, TimesRest
  <2>4. QED
    BY <1>2, <2>2, <2>3
<1>5. /\ \A k \in 0 .. len + 1 : Times(q, F, k) <= c + Times(q, T, k)
      /\ c + Times(q, T, len + 1) = l + Times(q, F, len + 1)
  BY <1>1 DEF Balance, T, F
<1>6. Minus(m, n) <= c
  <2>1. 0 \in 0 .. len /\ 0 + 1 \in 0 .. len + 1
    BY <1>1
  <2>2. Times(q, F, 0 + 1) <= c + Times(q, T, 0 + 1)
    BY <1>5, <2>1
  <2>3. Times(r, T, 0) = 0 /\ Times(r, F, 0) = 0
    BY TimesStep
  <2>4. Minus(m, n) <= c + Plus(m, n)
    BY <1>2, <1>4, <2>1, <2>2, <2>3
  <2>5. QED
    BY <1>2, <1>3, <2>4
<1> DEFINE d == (c + Plus(m, n)) - Minus(m, n)
<1>7. d \in Nat /\ d + Minus(m, n) = c + Plus(m, n) /\ Plus(m, n) \in Nat /\ Minus(m, n) \in Nat
  BY <1>2, <1>6
<1> HIDE DEF d
<1>8. ASSUME NEW k \in 0 .. len
      PROVE  Times(r, F, k) <= d + Times(r, T, k)
  <2>1. k + 1 \in 0 .. len + 1
    BY <1>1
  <2>2. Times(q, F, k + 1) <= c + Times(q, T, k + 1)
    BY <1>5, <2>1
  <2>3. QED
    BY <1>4, <1>7, <2>2, SMTT(30)
<1>9. d + Times(r, T, len) = l + Times(r, F, len)
  <2>1. len \in 0 .. len
    BY <1>1
  <2>2. /\ Times(q, T, len + 1) = Times(r, T, len) + Plus(m, n)
        /\ Times(q, F, len + 1) = Times(r, F, len) + Minus(m, n)
        /\ Times(r, T, len) \in Nat /\ Times(r, F, len) \in Nat
    BY <1>4, <2>1
  <2>3. QED
    BY <1>5, <1>7, <2>2, SumTaken, SMTT(30)
<1>10. Balance(r, n, d, l)
  BY <1>8, <1>9 DEF Balance, T, F, len
<1>11. QED
  BY <1>6, <1>10 DEF d, m, r

LEMMA Weights ==
    ASSUME NEW n \in Names
    PROVE  /\ \A k \in Names : /\ Plus(Subscribe(k, TRUE), n) = IF k = n THEN 1 ELSE 0
                               /\ Minus(Subscribe(k, TRUE), n) = 0
                               /\ Plus(Subscribe(k, FALSE), n) = 0
                               /\ Minus(Subscribe(k, FALSE), n) = IF k = n THEN 1 ELSE 0
           /\ \A m : m.kind = "call" => Plus(m, n) = 0 /\ Minus(m, n) = 0
<1>1. ASSUME NEW k \in Names
      PROVE  /\ Plus(Subscribe(k, TRUE), n) = IF k = n THEN 1 ELSE 0
             /\ Minus(Subscribe(k, TRUE), n) = 0
             /\ Plus(Subscribe(k, FALSE), n) = 0
             /\ Minus(Subscribe(k, FALSE), n) = IF k = n THEN 1 ELSE 0
  <2>1. \A on \in BOOLEAN : /\ Subscribe(k, on).name = k /\ Subscribe(k, on).subscribe = on
                            /\ Subscribe(n, on).name = n /\ Subscribe(n, on).subscribe = on
    BY DEF Subscribe
  <2>2. QED
    BY <2>1 DEF Plus, Minus
<1>2. ASSUME NEW m, m.kind = "call"
      PROVE  Plus(m, n) = 0 /\ Minus(m, n) = 0
  <2>1. \A on \in BOOLEAN : Subscribe(n, on).kind = "subscribe"
    BY DEF Subscribe
  <2>2. QED
    BY <1>2, <2>1 DEF Plus, Minus
<1>3. QED
  BY <1>1, <1>2

\* The page posts one message, and its listeners change by what that says.
LEMMA CountPosted ==
    ASSUME Types, CountInv, NEW q \in Pages, NEW m \in Requests, Post(q, <<m>>),
           UNCHANGED <<serverEnd, clientEnd, count>>, listeners' \in [Pages -> [Names -> Nat]],
           \A p \in Pages : p # q => listeners'[p] = listeners[p],
           \A n \in Names : listeners'[q][n] + Minus(m, n) = listeners[q][n] + Plus(m, n)
    PROVE  CountInv'
<1> SUFFICES ASSUME NEW p \in Pages, NEW n \in Names, Linked(p)'
             PROVE  Balance(toServer'[p], n, count'[p][n], listeners'[p][n])
  BY DEF CountInv, CountOf
<1>1. Linked(p)
  BY DEF Linked
<1>2. /\ toServer[p] \in Seq(Requests)
      /\ count[p][n] \in Nat /\ listeners[p][n] \in Nat /\ listeners'[p][n] \in Nat
  BY DEF Types, WayType, ServerType, PageType
<1>3. Balance(toServer[p], n, count[p][n], listeners[p][n])
  BY <1>1 DEF CountInv, CountOf
<1>4. CASE p # q
  <2>1. toServer'[p] = toServer[p]
    BY <1>4 DEF Post, Types, WayType
  <2>2. QED
    BY <1>3, <1>4, <2>1
<1>5. CASE p = q
  <2>1. toServer'[p] = toServer[p] \o <<m>>
    BY <1>1, <1>5 DEF Post, Types, WayType
  <2>2. listeners'[p][n] + Minus(m, n) = listeners[p][n] + Plus(m, n)
    BY <1>5
  <2>3. Balance(toServer[p] \o <<m>>, n, count[p][n], listeners'[p][n])
    BY <1>2, <1>3, <2>2, BalancePosted
  <2>4. QED
    BY <2>1, <2>3
<1>6. QED
  BY <1>4, <1>5

\* Neither the messages to the server nor the numbers on the two sides change,
\* and no socket is opened.
LEMMA CountKept ==
    ASSUME CountInv, UNCHANGED <<serverEnd, clientEnd, count, listeners, toServer>>
    PROVE  CountInv'
BY DEF CountInv, CountOf, Linked

LEMMA CountSend ==
    ASSUME Types, CountInv, NEW q \in Pages, NEW h \in Handles,
           NEW name \in {"getDevices", "act"}, Send(q, h, name),
           UNCHANGED <<server, clientEnd, listeners>>
    PROVE  CountInv'
<1> DEFINE c == [handle |-> h, id |-> nextId[q][h], name |-> name]
<1>1. c \in Calls /\ Post(q, <<Request(c)>>)
  <2>1. nextId[q] \in [Handles -> 0 .. MaxCalls]
    BY DEF Types, PageType
  <2>2. nextId[q][h] \in 0 .. MaxCalls - 1
    BY <2>1, BoundsAreNat, SMTT(30) DEF Send, Made, Handles
  <2>3. QED
    BY <2>2 DEF Send, Calls
<1> HIDE DEF c
<1>2. Request(c) \in Requests /\ Request(c).kind = "call"
  BY <1>1, RequestTypes DEF Request
<1>3. \A n \in Names : Plus(Request(c), n) = 0 /\ Minus(Request(c), n) = 0
  BY <1>2, Weights
<1>4. listeners' \in [Pages -> [Names -> Nat]]
  BY DEF Types, PageType
<1>5. UNCHANGED <<serverEnd, clientEnd, count>>
  BY DEF server
<1> DEFINE m == Request(c)
<1>6. \A n \in Names : listeners'[q][n] + Minus(m, n) = listeners[q][n] + Plus(m, n)
  BY <1>3
<1>7. m \in Requests /\ Post(q, <<m>>)
  BY <1>1, <1>2
<1> HIDE DEF m
<1>8. QED
  BY <1>4, <1>5, <1>6, <1>7, CountPosted

LEMMA CountToggled ==
    ASSUME Types, CountInv, NEW q \in Pages, NEW n \in Names, NEW on \in BOOLEAN,
           Post(q, <<Subscribe(n, on)>>), UNCHANGED <<server, clientEnd>>,
           ~on => listeners[q][n] > 0,
           listeners' = [listeners EXCEPT ![q][n] = IF on THEN @ + 1 ELSE @ - 1]
    PROVE  CountInv'
<1> DEFINE k == IF on THEN listeners[q][n] + 1 ELSE listeners[q][n] - 1
           m == Subscribe(n, on)
<1>1. listeners[q][n] \in Nat /\ listeners \in [Pages -> [Names -> Nat]]
  BY DEF Types, PageType
<1>2. k \in Nat /\ listeners' = [listeners EXCEPT ![q][n] = k]
  BY <1>1
<1>3. k + (IF on THEN 0 ELSE 1) = listeners[q][n] + (IF on THEN 1 ELSE 0)
  BY <1>1
<1>4. m \in Requests
  BY RequestTypes
<1>5. \A o \in Names : /\ Plus(m, o) = IF on /\ o = n THEN 1 ELSE 0
                       /\ Minus(m, o) = IF ~on /\ o = n THEN 1 ELSE 0
  <2>1. CASE on
    <3>1. m = Subscribe(n, TRUE)
      BY <2>1
    <3>2. QED
      BY <2>1, <3>1, Weights
  <2>2. CASE ~on
    <3>1. m = Subscribe(n, FALSE)
      BY <2>2
    <3>2. QED
      BY <2>2, <3>1, Weights
  <2>3. QED
    BY <2>1, <2>2
<1>6. Post(q, <<m>>) /\ UNCHANGED <<serverEnd, clientEnd, count>>
  BY DEF server
<1> HIDE DEF k, m
<1>7. listeners' \in [Pages -> [Names -> Nat]]
  BY <1>1, <1>2, Update
<1>8. \A p \in Pages : p # q => listeners'[p] = listeners[p]
  BY <1>1, <1>2
<1>9. \A o \in Names : listeners'[q][o] = IF o = n THEN k ELSE listeners[q][o]
  BY <1>1, <1>2
<1>10. \A o \in Names : listeners'[q][o] + Minus(m, o) = listeners[q][o] + Plus(m, o)
  <2> SUFFICES ASSUME NEW o \in Names
               PROVE  listeners'[q][o] + Minus(m, o) = listeners[q][o] + Plus(m, o)
    OBVIOUS
  <2>1. CASE o = n
    BY <1>3, <1>5, <1>9, <2>1
  <2>2. CASE o # n
    BY <1>5, <1>9, <2>2
  <2>3. QED
    BY <2>1, <2>2
<1>11. QED
  BY <1>4, <1>6, <1>7, <1>8, <1>10, CountPosted

\* The server takes one message, and its counts change by what that says.
LEMMA CountTaken ==
    ASSUME Types, CountInv, NEW q \in Pages, toServer[q] # <<>>,
           toServer' = [toServer EXCEPT ![q] = Tail(@)],
           UNCHANGED <<serverEnd, clientEnd, listeners>>,
           \A p \in Pages : p # q => count'[p] = count[p],
           \A n \in Names : Minus(Head(toServer[q]), n) <= count[q][n] =>
               count'[q][n] = (count[q][n] + Plus(Head(toServer[q]), n))
                                  - Minus(Head(toServer[q]), n)
    PROVE  CountInv'
<1> SUFFICES ASSUME NEW p \in Pages, NEW n \in Names, Linked(p)'
             PROVE  Balance(toServer'[p], n, count'[p][n], listeners'[p][n])
  BY DEF CountInv, CountOf
<1>1. Linked(p)
  BY DEF Linked
<1>2. /\ toServer[p] \in Seq(Requests)
      /\ count[p][n] \in Nat /\ listeners[p][n] \in Nat
  BY DEF Types, WayType, ServerType, PageType
<1>3. Balance(toServer[p], n, count[p][n], listeners[p][n])
  BY <1>1 DEF CountInv, CountOf
<1>4. CASE p # q
  BY <1>3, <1>4 DEF Types, WayType
<1>5. CASE p = q
  <2>1. toServer'[p] = Tail(toServer[p]) /\ toServer[p] # <<>>
    BY <1>5 DEF Types, WayType
  <2>2. /\ Minus(Head(toServer[p]), n) <= count[p][n]
        /\ Balance(Tail(toServer[p]), n,
                   (count[p][n] + Plus(Head(toServer[p]), n)) - Minus(Head(toServer[p]), n),
                   listeners[p][n])
    BY <1>2, <1>3, <2>1, BalanceTaken
  <2>3. QED
    BY <1>5, <2>1, <2>2
<1>6. QED
  BY <1>4, <1>5

LEMMA CountServer ==
    ASSUME Types, CountInv, NEW q \in Pages, toServer[q] # <<>>, ServerStep(q)
    PROVE  CountInv'
<1> DEFINE m == Head(toServer[q])
<1>1. /\ toServer' = [toServer EXCEPT ![q] = Tail(@)]
      /\ UNCHANGED <<serverEnd, clientEnd, listeners>>
  BY DEF ServerStep, HandleSubscribe, HandleCall, HandleAbsent, Handled, page
<1>2. m \in Requests
  <2>1. toServer[q] \in Seq(Requests)
    BY DEF Types, WayType
  <2>2. QED
    BY <2>1
<1>3. \A n \in Names : count[q][n] \in Nat
  BY DEF Types, ServerType
<1>4. /\ \A p \in Pages : p # q => count'[p] = count[p]
      /\ \A n \in Names : Minus(m, n) <= count[q][n] =>
             count'[q][n] = (count[q][n] + Plus(m, n)) - Minus(m, n)
  <2>1. CASE HandleCall(q) \/ HandleAbsent(q)
    <3>1. m.kind = "call" /\ count' = count
      BY <2>1 DEF HandleCall, HandleAbsent
    <3> HIDE DEF m
    <3>2. \A n \in Names : Plus(m, n) = 0 /\ Minus(m, n) = 0
      BY <3>1, Weights
    <3>3. QED
      BY <1>3, <3>1, <3>2
  <2>2. CASE HandleSubscribe(q)
    <3>1. /\ m.kind = "subscribe"
          /\ count' = IF m.subscribe
                      THEN [count EXCEPT ![q][m.name] = @ + 1]
                      ELSE [count EXCEPT ![q][m.name] = IF @ = 0 THEN 0 ELSE @ - 1]
      BY <2>2 DEF HandleSubscribe
    <3> HIDE DEF m
    <3>2. /\ m.name \in Names /\ m.subscribe \in BOOLEAN
          /\ m = Subscribe(m.name, m.subscribe)
      BY <1>2, <3>1 DEF Requests, Subscribe
    <3>3. count \in [Pages -> [Names -> Nat]]
      BY DEF Types, ServerType
    <3>4. \A p \in Pages : p # q => count'[p] = count[p]
      BY <3>1, <3>3
    <3>5. CASE m.subscribe
      <4>1. m = Subscribe(m.name, TRUE)
        BY <3>2, <3>5
      <4>2. \A n \in Names : Plus(m, n) = (IF n = m.name THEN 1 ELSE 0) /\ Minus(m, n) = 0
        BY <3>2, <4>1, Weights, ZenonT(30)
      <4>3. \A n \in Names : count'[q][n] = IF n = m.name THEN count[q][n] + 1 ELSE count[q][n]
        BY <3>1, <3>2, <3>3, <3>5
      <4>4. QED
        BY <1>3, <3>4, <4>2, <4>3
    <3>6. CASE ~m.subscribe
      <4>1. m = Subscribe(m.name, FALSE)
        BY <3>2, <3>6
      <4>2. \A n \in Names : Plus(m, n) = 0 /\ Minus(m, n) = (IF n = m.name THEN 1 ELSE 0)
        BY <3>2, <4>1, Weights, ZenonT(30)
      <4>3. \A n \in Names : count'[q][n] =
                IF n = m.name THEN (IF count[q][n] = 0 THEN 0 ELSE count[q][n] - 1)
                              ELSE count[q][n]
        BY <3>1, <3>2, <3>3, <3>6
      <4>4. QED
        BY <1>3, <3>4, <4>2, <4>3
    <3>7. QED
      BY <3>5, <3>6
  <2>3. QED
    BY <2>1, <2>2 DEF ServerStep
<1>5. QED
  BY <1>1, <1>4, CountTaken

LEMMA CountPage ==
    ASSUME Types, CountInv, NEW q \in Pages,
           \/ Initialize(q) \/ On(q) \/ Off(q)
           \/ \E h \in Handles : Act(q, h)
    PROVE  CountInv'
<1>1. CASE Initialize(q) \/ \E h \in Handles : Act(q, h)
  <2>1. PICK h \in Handles, name \in {"getDevices", "act"} :
          /\ Send(q, h, name)
          /\ UNCHANGED <<server, clientEnd, listeners>>
    BY <1>1 DEF Initialize, Act, Handles
  <2>2. QED
    BY <2>1, CountSend
<1>2. CASE On(q)
  <2>1. /\ Post(q, <<Subscribe("data", TRUE)>>) /\ UNCHANGED <<server, clientEnd>>
        /\ listeners' = [listeners EXCEPT ![q]["data"] = IF TRUE THEN @ + 1 ELSE @ - 1]
    BY <1>2 DEF On
  <2>2. "data" \in Names
    BY DEF Names
  <2>3. QED
    BY <2>1, <2>2, CountToggled
<1>3. CASE Off(q)
  <2>1. /\ Post(q, <<Subscribe("data", FALSE)>>) /\ UNCHANGED <<server, clientEnd>>
        /\ listeners[q]["data"] > 0
        /\ listeners' = [listeners EXCEPT ![q]["data"] = IF FALSE THEN @ + 1 ELSE @ - 1]
    BY <1>3 DEF Off
  <2>2. "data" \in Names
    BY DEF Names
  <2>3. QED
    BY <2>1, <2>2, CountToggled
<1>4. QED
  BY <1>1, <1>2, <1>3

LEMMA CountClient ==
    ASSUME Types, CountInv, NEW q \in Pages, toClient[q] # <<>>, ClientStep(q)
    PROVE  CountInv'
<1>1. UNCHANGED <<server, clientEnd>>
  BY DEF ClientStep, TakeBytes, TakeHeader, TakeDevices, TakeReply, Take
<1>2. \/ UNCHANGED <<listeners, toServer>>
      \/ /\ Post(q, <<Subscribe("devices", TRUE)>>)
         /\ listeners' = [listeners EXCEPT ![q]["devices"] = IF TRUE THEN @ + 1 ELSE @ - 1]
  BY DEF ClientStep, TakeBytes, TakeHeader, TakeDevices, TakeReply
<1>3. CASE UNCHANGED <<listeners, toServer>>
  BY <1>1, <1>3, CountKept DEF server
<1>4. CASE /\ Post(q, <<Subscribe("devices", TRUE)>>)
           /\ listeners' = [listeners EXCEPT ![q]["devices"] = IF TRUE THEN @ + 1 ELSE @ - 1]
  <2>1. "devices" \in Names
    BY DEF Names
  <2>2. QED
    BY <1>1, <1>4, <2>1, CountToggled
<1>5. QED
  BY <1>2, <1>3, <1>4

LEMMA CountSocket ==
    ASSUME Types, EndsInv, CountInv, NEW q \in Pages,
           Open(q) \/ ClientCloses(q) \/ ServerCloses(q)
    PROVE  CountInv'
<1> SUFFICES ASSUME NEW p \in Pages, NEW n \in Names, Linked(p)'
             PROVE  Balance(toServer'[p], n, count'[p][n], listeners'[p][n])
  BY DEF CountInv, CountOf
<1>1. CASE Open(q) /\ p = q
  <2>1. clientEnd[p] = "new" /\ serverEnd[p] = "new"
    BY <1>1 DEF Open, EndsInv
  <2>2. toServer[p] = <<>> /\ count[p][n] = 0 /\ listeners[p][n] = 0
    BY <2>1 DEF EndsInv
  <2>3. Balance(<<>>, n, 0, 0)
    BY BalanceEmpty
  <2>4. QED
    BY <1>1, <2>2, <2>3 DEF Open
<1>2. CASE ~(Open(q) /\ p = q)
  <2>1. p # q
    BY <1>2 DEF Open, ClientCloses, ServerCloses, Linked, Types, ServerType, PageType
  <2>2. /\ clientEnd'[p] = clientEnd[p] /\ serverEnd'[p] = serverEnd[p]
        /\ toServer'[p] = toServer[p] /\ count'[p] = count[p] /\ listeners' = listeners
    BY <2>1 DEF Open, ClientCloses, ServerCloses, Unsubscribed, server, page, Types, ServerType,
               PageType, WayType
  <2>3. QED
    BY <2>2 DEF CountInv, CountOf, Linked
<1>3. QED
  BY <1>1, <1>2

LEMMA CountNext ==
    ASSUME Types, EndsInv, CountInv, [Next]_vars
    PROVE  CountInv'
<1>1. CASE UNCHANGED vars
  BY <1>1, CountKept DEF vars, server, page
<1>2. CASE DevicesUpdated \/ SendRaw
  BY <1>2, CountKept DEF DevicesUpdated, SendRaw, page
<1>3. ASSUME NEW q \in Pages, NEW s \in serving[q], HandlerSettles(q, s)
      PROVE  CountInv'
  BY <1>3, CountKept DEF HandlerSettles, page
<1>4. QED
  BY <1>1, <1>2, <1>3, CountSocket, CountPage, CountClient, CountServer DEF Next

\* While a socket is open at both ends, what the server has counted and what is
\* on its way to it add up to the listeners of the page, and a socket that is
\* gone counts for nothing: the subscribe and unsubscribe messages of the page,
\* the handlers of the server and the two close events keep them together.
THEOREM CountsFollowListeners == Spec => []SubscriptionsFollow
<1>1. Init => Types /\ EndsInv /\ CountInv
  <2>1. ASSUME Init PROVE EndsInv /\ CountInv
    BY <2>1 DEF Init, EndsInv, CountInv, CountOf, Linked
  <2>2. QED
    BY <2>1, TypesInit
<1>2. Types /\ EndsInv /\ CountInv /\ [Next]_vars => (Types /\ EndsInv /\ CountInv)'
  BY TypesNext, EndsNext, CountNext
<1>3. Types /\ EndsInv /\ CountInv => SubscriptionsFollow
  <2> SUFFICES ASSUME Types, EndsInv, CountInv, NEW p \in Pages, NEW n \in Names
               PROVE  IF serverEnd[p] = "open"
                      THEN Linked(p) => count[p][n] + Toggles(p, n, TRUE)
                                            = listeners[p][n] + Toggles(p, n, FALSE)
                      ELSE count[p][n] = 0
    BY DEF SubscriptionsFollow
  <2>1. CASE serverEnd[p] # "open"
    BY <2>1 DEF EndsInv
  <2>2. CASE Linked(p)
    <3>1. Balance(toServer[p], n, count[p][n], listeners[p][n])
      BY <2>2 DEF CountInv, CountOf
    <3>2. DOMAIN toServer[p] = 1 .. Len(toServer[p])
      <4>1. toServer[p] \in Seq(Requests)
        BY DEF Types, WayType
      <4>2. QED
        BY <4>1
    <3>3. \A on \in BOOLEAN : Toggles(p, n, on) =
              Times(toServer[p], Subscribe(n, on), Len(toServer[p]))
      BY <3>2 DEF Toggles, Times
    <3>4. QED
      BY <2>2, <3>1, <3>3 DEF Balance, Linked
  <2>3. QED
    BY <2>1, <2>2
<1>4. QED
  BY <1>1, <1>2, <1>3, PTL DEF Spec

-----------------------------------------------------------------------------
(***************************************************************************)
(* The device list and the messages that bring it                          *)
(***************************************************************************)
\* Messages that bring no list leave things as they are.
LEMMA ListsQuiet ==
    ASSUME NEW S, NEW q \in Seq(Notifications), NEW t \in Seq(Notifications),
           NEW st, NEW v, Lists(S, q, st, v), \A i \in 1 .. Len(t) : ~Brings(t[i])
    PROVE  Lists(S, q \o t, st, v)
<1> DEFINE r == q \o t
<1>1. /\ Len(r) = Len(q) + Len(t) /\ Len(q) \in Nat /\ Len(t) \in Nat
      /\ \A i \in 1 .. Len(q) : r[i] = q[i]
      /\ \A i \in 1 .. Len(t) : r[Len(q) + i] = t[i]
  BY ConcatProperties, LenProperties
<1> HIDE DEF r
<1>2. ASSUME NEW i \in 1 .. Len(r), Brings(r[i])
      PROVE  i \in 1 .. Len(q) /\ r[i] = q[i]
  <2>1. CASE i \in 1 .. Len(q)
    BY <1>1, <2>1
  <2>2. CASE i \notin 1 .. Len(q)
    <3>1. i - Len(q) \in 1 .. Len(t) /\ Len(q) + (i - Len(q)) = i
      BY <1>1, <2>2
    <3>2. r[i] = t[i - Len(q)]
      BY <1>1, <3>1
    <3>3. QED
      BY <1>2, <3>1, <3>2
  <2>3. QED
    BY <2>1, <2>2
<1>3. \A i \in 1 .. Len(q) : i \in 1 .. Len(r) /\ r[i] = q[i]
  BY <1>1
<1>4. RepliesBring(r, v)
  <2>1. RepliesBring(q, v)
    BY DEF Lists
  <2>2. QED
    BY <1>2, <2>1 DEF RepliesBring, Brings
<1>5. ASSUME LastBrings(q, v) PROVE LastBrings(r, v)
  <2> SUFFICES ASSUME NEW i \in 1 .. Len(r), Brings(r[i]),
                      \A j \in i + 1 .. Len(r) : ~Brings(r[j])
               PROVE  Brought(r[i]) = v
    BY DEF LastBrings
  <2>1. i \in 1 .. Len(q) /\ r[i] = q[i]
    BY <1>2
  <2>2. \A j \in i + 1 .. Len(q) : j \in i + 1 .. Len(r) /\ r[j] = q[j]
    BY <1>1, <2>1
  <2>3. QED
    BY <1>5, <2>1, <2>2 DEF LastBrings
<1>6. Bringing(q) => Bringing(r)
  BY <1>3 DEF Bringing
<1>7. Lists(S, r, st, v)
  BY <1>4, <1>5, <1>6 DEF Lists
<1>8. QED
  BY <1>7 DEF r

\* A message that brings the list v, put behind messages whose replies do.
LEMMA ListsBrought ==
    ASSUME NEW S, NEW q \in Seq(Notifications), NEW m \in Notifications, NEW st, NEW v,
           \A s \in S : Fetch(s) => s.result = v, RepliesBring(q, v),
           Brings(m), Brought(m) = v
    PROVE  Lists(S, q \o <<m>>, st, v)
<1> DEFINE r == q \o <<m>>
<1>1. /\ Len(q) \in Nat /\ Len(r) = Len(q) + 1
      /\ \A i \in 1 .. Len(q) : r[i] = q[i]
      /\ r[Len(q) + 1] = m
  BY OneMore
<1> HIDE DEF r
<1>2. \A i \in 1 .. Len(r) : i \in 1 .. Len(q) \/ i = Len(q) + 1
  BY <1>1
<1>3. Len(q) + 1 \in 1 .. Len(r)
  BY <1>1
<1>4. RepliesBring(r, v)
  <2>1. m.kind = "reply" => m.result = v
    BY DEF Brought
  <2>2. QED
    BY <1>1, <1>2, <2>1 DEF RepliesBring
<1>5. LastBrings(r, v)
  <2>1. \A i \in 1 .. Len(q) : Len(q) + 1 \in i + 1 .. Len(r)
    BY <1>1
  <2>2. QED
    BY <1>1, <1>2, <2>1 DEF LastBrings
<1>6. Bringing(r)
  BY <1>1, <1>3 DEF Bringing
<1>7. Lists(S, r, st, v)
  BY <1>4, <1>5, <1>6 DEF Lists
<1>8. QED
  BY <1>7 DEF r

\* The page takes a message: it keeps its store when that brings no list, and
\* has the list it brings when it does.
LEMMA ListsTaken ==
    ASSUME NEW S, NEW q \in Seq(Notifications), q # <<>>, NEW st, NEW u, NEW v,
           Lists(S, q, st, v), ~Brings(Head(q)) => u = st,
           Brings(Head(q)) /\ u.initialized => u.devices = Brought(Head(q))
    PROVE  Lists(S, Tail(q), u, v)
<1> DEFINE r == Tail(q)
           m == Head(q)
<1>1. /\ Len(q) \in Nat /\ 1 <= Len(q) /\ Len(r) = Len(q) - 1 /\ m = q[1]
      /\ \A i \in 1 .. Len(r) : r[i] = q[i + 1]
  BY FirstAndRest
<1> HIDE DEF r, m
<1>2. \A i \in 1 .. Len(r) : i + 1 \in 1 .. Len(q) /\ r[i] = q[i + 1]
  BY <1>1
<1>3. \A i \in 1 .. Len(q) : i = 1 \/ (i - 1 \in 1 .. Len(r) /\ r[i - 1] = q[i])
  BY <1>1
<1>4. RepliesBring(r, v)
  BY <1>2 DEF Lists, RepliesBring
<1>5. ASSUME LastBrings(q, v) PROVE LastBrings(r, v)
  <2> SUFFICES ASSUME NEW i \in 1 .. Len(r), Brings(r[i]),
                      \A j \in i + 1 .. Len(r) : ~Brings(r[j])
               PROVE  Brought(r[i]) = v
    BY DEF LastBrings
  <2>1. ASSUME NEW j \in (i + 1) + 1 .. Len(q) PROVE ~Brings(q[j])
    <3>1. j - 1 \in i + 1 .. Len(r) /\ r[j - 1] = q[j]
      BY <1>1, <2>1
    <3>2. QED
      BY <3>1
  <2>2. QED
    BY <1>2, <1>5, <2>1 DEF LastBrings
<1>6. \A s \in S : Fetch(s) => s.result = v
  BY DEF Lists
<1>7. CASE \E s \in S : Fetch(s)
  BY <1>4, <1>6, <1>7 DEF Lists, r
<1>8. CASE ~\E s \in S : Fetch(s)
  <2>1. LastBrings(q, v) /\ (~st.initialized \/ Bringing(q) \/ st.devices = v)
    BY <1>8 DEF Lists
  <2>2. CASE Brings(m)
    <3>1. Bringing(r) \/ Brought(m) = v
      <4> SUFFICES ASSUME ~Bringing(r) PROVE Brought(m) = v
        OBVIOUS
      <4>1. \A j \in 1 + 1 .. Len(q) : j - 1 \in 1 .. Len(r) /\ r[j - 1] = q[j]
        BY <1>1
      <4>2. \A j \in 1 + 1 .. Len(q) : ~Brings(q[j])
        BY <4>1 DEF Bringing
      <4>3. 1 \in 1 .. Len(q)
        BY <1>1
      <4>4. QED
        BY <1>1, <2>1, <2>2, <4>2, <4>3 DEF LastBrings
    <3>2. ~u.initialized \/ Bringing(r) \/ u.devices = v
      BY <2>2, <3>1 DEF m
    <3>3. QED
      BY <1>4, <1>5, <1>6, <2>1, <3>2 DEF Lists, r
  <2>3. CASE ~Brings(m)
    <3>1. Bringing(q) => Bringing(r)
      BY <1>1, <1>3, <2>3 DEF Bringing
    <3>2. u = st
      BY <2>3 DEF m
    <3>3. QED
      BY <1>4, <1>5, <1>6, <2>1, <3>1, <3>2 DEF Lists, r
  <2>4. QED
    BY <2>2, <2>3
<1>9. QED
  BY <1>7, <1>8

\* A step that leaves the list, the page and what is on its way to it alone.
ListStays(p) ==
    /\ Linked(p)' => Linked(p)
    /\ devices' = devices /\ serving'[p] = serving[p] /\ toClient'[p] = toClient[p]
    /\ store'[p] = store[p] /\ missed'[p] = missed[p] /\ callbacks'[p] = callbacks[p]
    /\ listeners'[p]["devices"] = listeners[p]["devices"]

LEMMA ListUnchanged ==
    ASSUME NEW p \in Pages, ListOf(p), ListStays(p)
    PROVE  ListOf(p)'
BY DEF ListOf, ListStays

LEMMA ListPage ==
    ASSUME Types, ListInv, NEW q \in Pages,
           \/ Initialize(q) \/ On(q) \/ Off(q)
           \/ \E h \in Handles : Act(q, h)
    PROVE  ListInv'
<1> SUFFICES ASSUME NEW p \in Pages PROVE ListOf(p)'
  BY DEF ListInv
<1>1. ListOf(p)
  BY DEF ListInv
<1>2. UNCHANGED <<serverEnd, clientEnd, devices, serving, toClient, store, missed>>
  BY DEF Initialize, On, Off, Act, server
<1>3. listeners'[p]["devices"] = listeners[p]["devices"]
  <2>1. listeners' = listeners \/ \E k : listeners' = [listeners EXCEPT ![q]["data"] = k]
    BY DEF Initialize, On, Off, Act
  <2>2. listeners \in [Pages -> [Names -> Nat]] /\ "devices" \in Names /\ "devices" # "data"
    BY DEF Types, PageType, Names
  <2>3. QED
    BY <2>1, <2>2
<1>4. \A c \in callbacks'[p] : c.name = "getDevices" => c.handle = "server"
  <2>1. CASE On(q) \/ Off(q)
    BY <1>1, <2>1 DEF On, Off, ListOf
  <2>2. CASE Initialize(q) \/ \E h \in Handles : Act(q, h)
    <3>1. PICK h \in Handles, name \in {"getDevices", "act"} :
            Send(q, h, name) /\ (name = "getDevices" => h = "server")
      BY <2>2 DEF Initialize, Act, Handles
    <3> DEFINE d == [handle |-> h, id |-> nextId[q][h], name |-> name]
    <3>2. callbacks' = [callbacks EXCEPT ![q] = @ \cup {d}]
      BY <3>1 DEF Send
    <3>3. d.name = "getDevices" => d.handle = "server"
      BY <3>1
    <3> HIDE DEF d
    <3>4. callbacks'[p] \subseteq callbacks[p] \cup {d}
      BY <3>2 DEF Types, PageType
    <3>5. QED
      BY <1>1, <3>3, <3>4 DEF ListOf
  <2>3. QED
    BY <2>1, <2>2
<1>5. QED
  BY <1>1, <1>2, <1>3, <1>4 DEF ListOf, Linked

LEMMA ListClient ==
    ASSUME Types, RawInv, CallInv, ListInv, NEW q \in Pages, toClient[q] # <<>>,
           ClientStep(q)
    PROVE  ListInv'
<1> DEFINE m == Head(toClient[q])
<1>1. /\ toClient' = [toClient EXCEPT ![q] = Tail(@)]
      /\ UNCHANGED <<serverEnd, clientEnd, devices, serving, missed>>
  BY DEF ClientStep, TakeBytes, TakeHeader, TakeDevices, TakeReply, Take, server
<1>2. ASSUME NEW p \in Pages, p # q PROVE ListOf(p)'
  <2>1. /\ store'[p] = store[p] /\ listeners'[p] = listeners[p]
        /\ callbacks'[p] = callbacks[p] /\ toClient'[p] = toClient[p]
    BY <1>1, <1>2 DEF ClientStep, TakeBytes, TakeHeader, TakeDevices, TakeReply, Types,
                      PageType, WayType
  <2>2. ListStays(p)
    BY <1>1, <2>1 DEF ListStays, Linked
  <2>3. QED
    BY <2>2, ListUnchanged DEF ListInv
<1>3. ListOf(q)'
  <2>1. ListOf(q) /\ toClient[q] \in Seq(Notifications) /\ store[q].initialized \in BOOLEAN
    BY DEF ListInv, Types, WayType, PageType
  <2>2. toClient'[q] = Tail(toClient[q])
    BY <1>1 DEF Types, WayType
  <2>3. Linked(q)' = Linked(q) /\ missed'[q] = missed[q] /\ serving'[q] = serving[q]
        /\ devices' = devices
    BY <1>1 DEF Linked
  <2>4. /\ store'[q].initialized => listeners'[q]["devices"] > 0
        /\ callbacks'[q] \subseteq callbacks[q]
        /\ ~Brings(m) => store'[q] = store[q]
        /\ Brings(m) /\ store'[q].initialized => store'[q].devices = Brought(m)
    <3>1. listeners[q]["devices"] \in Nat
      BY DEF Types, PageType, Names
    <3>2. store'[q].initialized = store[q].initialized /\ UNCHANGED listeners
          => (store'[q].initialized => listeners'[q]["devices"] > 0)
      BY <2>1 DEF ListOf
    <3>3. CASE TakeBytes(q)
      <4>1. m.kind = "bytes"
        <5>1. m = toClient[q][1] /\ toClient[q][1] = Bytes(rawEvent[q])
          BY <2>1, <3>3, FirstAndRest DEF TakeBytes, RawInv, RawOf
        <5>2. QED
          BY <5>1 DEF Bytes
      <4>2. ~Brings(m) /\ UNCHANGED <<store, listeners, callbacks>>
        BY <3>3, <4>1 DEF TakeBytes, Brings
      <4>3. QED
        BY <3>2, <4>2
    <3>4. CASE TakeHeader(q)
      <4>1. ~Brings(m) /\ UNCHANGED <<store, listeners, callbacks>>
        BY <3>4 DEF TakeHeader, Brings
      <4>2. QED
        BY <3>2, <4>1
    <3>5. CASE TakeDevices(q)
      <4>1. /\ m.kind = "devices" /\ UNCHANGED <<listeners, callbacks>>
            /\ store' = IF listeners[q]["devices"] > 0
                        THEN [store EXCEPT ![q].devices = m.version]
                        ELSE store
        BY <3>5 DEF TakeDevices
      <4> HIDE DEF m
      <4>2. /\ store'[q].initialized = store[q].initialized
            /\ listeners[q]["devices"] > 0 => store'[q].devices = m.version
        BY <4>1 DEF Types, PageType
      <4>3. Brings(m) /\ Brought(m) = m.version
        BY <4>1 DEF Brings, Brought
      <4>4. store[q].initialized => listeners[q]["devices"] > 0
        BY <2>1 DEF ListOf
      <4>5. QED
        BY <3>2, <4>1, <4>2, <4>3, <4>4
    <3>6. CASE TakeReply(q)
      <4>1. m.kind = "reply"
        BY <3>6 DEF TakeReply
      <4>2. PICK c \in Settles(q, m) :
              /\ callbacks' = [callbacks EXCEPT ![q] = @ \ {c}]
              /\ IF c.name = "getDevices"
                 THEN /\ store' = [store EXCEPT ![q] =
                             [initialized |-> TRUE, devices |-> m.result]]
                      /\ listeners' = [listeners EXCEPT ![q]["devices"] = @ + 1]
                 ELSE UNCHANGED <<store, listeners>>
        BY <3>6 DEF TakeReply
      <4>3. c = m.call
        <5>1. m = toClient[q][1] /\ 1 \in 1 .. Len(toClient[q])
          BY <2>1, FirstAndRest
        <5> HIDE DEF m
        <5>2. m.call \in callbacks[q]
          BY <4>1, <5>1 DEF CallInv, CallOf, Answered, CallsIn
        <5>3. QED
          BY <4>2, <5>2 DEF Settles, CallInv, CallOf
      <4> HIDE DEF m
      <4>4. callbacks'[q] \subseteq callbacks[q]
        BY <4>2 DEF Types, PageType
      <4>5. CASE c.name = "getDevices"
        <5>1. Brings(m) /\ Brought(m) = m.result
          BY <4>1, <4>3, <4>5 DEF Brings, Brought
        <5>2. store'[q] = [initialized |-> TRUE, devices |-> m.result]
          BY <4>2, <4>5 DEF Types, PageType
        <5>3. listeners'[q]["devices"] = listeners[q]["devices"] + 1
          BY <4>2, <4>5 DEF Types, PageType, Names
        <5>4. QED
          BY <3>1, <4>4, <5>1, <5>2, <5>3
      <4>6. CASE c.name # "getDevices"
        <5>1. ~Brings(m) /\ UNCHANGED <<store, listeners>>
          BY <4>1, <4>2, <4>3, <4>6 DEF Brings
        <5>2. QED
          BY <3>2, <4>4, <5>1
      <4>7. QED
        BY <4>5, <4>6
    <3>7. QED
      BY <3>3, <3>4, <3>5, <3>6 DEF ClientStep
  <2>5. ASSUME Linked(q), ~missed[q]
        PROVE  Lists(serving[q], Tail(toClient[q]), store'[q], devices)
    <3>1. Lists(serving[q], toClient[q], store[q], devices)
      BY <2>1, <2>5 DEF ListOf
    <3>2. QED
      BY <2>1, <2>4, <3>1, ListsTaken
  <2>6. QED
    BY <2>1, <2>2, <2>3, <2>4, <2>5 DEF ListOf
<1>4. QED
  BY <1>2, <1>3 DEF ListInv

\* A message for one page is put behind the others, when its socket is open.
LEMMA DeliveredTo ==
    ASSUME Types, NEW q \in Pages, NEW m \in Notifications, DeliverTo(q, <<m>>)
    PROVE  /\ \A p \in Pages : p # q => toClient'[p] = toClient[p]
           /\ Linked(q) => toClient'[q] = toClient[q] \o <<m>>
<1> DEFINE what == [o \in Pages |-> IF o = q THEN <<m>> ELSE <<>>]
<1>1. Deliver(what)
  BY DEF DeliverTo
<1>2. /\ what[q] = <<m>>
      /\ \A p \in Pages : p # q => what[p] = <<>>
  OBVIOUS
<1> HIDE DEF what
<1>3. \A p \in Pages : toClient'[p] = IF Linked(p) THEN toClient[p] \o what[p]
                                                   ELSE toClient[p]
  BY <1>1 DEF Deliver
<1>4. \A p \in Pages : toClient[p] \o <<>> = toClient[p]
  BY ConcatEmptySeq DEF Types, WayType
<1>5. QED
  BY <1>2, <1>3, <1>4

\* Put behind the others, a message that brings no list changes nothing.
LEMMA ListsQuietOne ==
    ASSUME NEW S, NEW q \in Seq(Notifications), NEW m \in Notifications, NEW st, NEW v,
           Lists(S, q, st, v), ~Brings(m)
    PROVE  Lists(S, q \o <<m>>, st, v)
<1> DEFINE t == <<m>>
<1>1. t \in Seq(Notifications) /\ \A i \in 1 .. Len(t) : ~Brings(t[i])
  OBVIOUS
<1> HIDE DEF t
<1>2. Lists(S, q \o t, st, v)
  BY <1>1, ListsQuiet
<1>3. QED
  BY <1>2 DEF t

LEMMA FetchedAs ==
    ASSUME Types, NEW p \in Pages, ~Fetched(p), NEW v
    PROVE  (\A s \in serving[p] : ~Fetch(s)) /\ RepliesBring(toClient[p], v)
<1>1. toClient[p] \in Seq(Notifications)
  BY DEF Types, WayType
<1>2. \A i \in 1 .. Len(toClient[p]) : toClient[p][i] \in ToSet(toClient[p])
  BY <1>1 DEF ToSet
<1>3. QED
  BY <1>2 DEF Fetched, Fetch, RepliesBring

LEMMA ListServer ==
    ASSUME Types, CallInv, ListInv, NEW q \in Pages, toServer[q] # <<>>, ServerStep(q)
    PROVE  ListInv'
<1> DEFINE m == Head(toServer[q])
<1>1. UNCHANGED <<page, devices, serverEnd>>
  BY DEF ServerStep, HandleSubscribe, HandleCall, HandleAbsent, Handled
<1>2. toServer[q] \in Seq(Requests) /\ toClient[q] \in Seq(Notifications) /\ ListOf(q)
  BY DEF Types, WayType, ListInv
<1>3. m \in Requests /\ (m.kind = "call" => m.call \in callbacks[q] /\ m.call \in Calls)
  <2>1. m = toServer[q][1] /\ 1 \in 1 .. Len(toServer[q]) /\ m \in Requests
    BY <1>2, FirstAndRest
  <2> HIDE DEF m
  <2>2. m.kind = "call" => m.call \in callbacks[q]
    BY <2>1 DEF CallInv, CallOf, Asked, CallsIn
  <2>3. QED
    BY <2>1, <2>2, RequestTypes
<1> SUFFICES ASSUME NEW p \in Pages PROVE ListOf(p)'
  BY DEF ListInv
<1>4. CASE HandleSubscribe(q)
  <2>1. ListStays(p)
    BY <1>1, <1>4 DEF HandleSubscribe, ListStays, Linked, page
  <2>2. QED
    BY <2>1, ListUnchanged DEF ListInv
<1>5. CASE HandleCall(q)
  <2> DEFINE new == [call |-> m.call, result |-> devices]
  <2>1. /\ serving' = [serving EXCEPT ![q] = @ \cup {new}]
        /\ missed' = IF m.call.name = "getDevices" /\ ~Fetched(q)
                     THEN [missed EXCEPT ![q] = FALSE] ELSE missed
        /\ UNCHANGED toClient
    BY <1>5 DEF HandleCall
  <2>2. Fetch(new) <=> m.call.name = "getDevices"
    BY DEF Fetch
  <2>3. new.result = devices
    OBVIOUS
  <2> HIDE DEF new, m
  <2>4. CASE p # q
    <3>1. ListStays(p)
      BY <1>1, <2>1, <2>4 DEF ListStays, Linked, page, Types, ServerType, WayType
    <3>2. QED
      BY <3>1, ListUnchanged DEF ListInv
  <2>5. CASE p = q
    <3>1. serving'[q] = serving[q] \cup {new}
      BY <2>1 DEF Types, ServerType
    <3>2. ASSUME Linked(q), ~missed'[q]
          PROVE  Lists(serving'[q], toClient[q], store[q], devices)
      <4>1. CASE ~missed[q]
        <5>1. Lists(serving[q], toClient[q], store[q], devices)
          BY <1>2, <3>2, <4>1 DEF ListOf
        <5>2. QED
          BY <2>3, <3>1, <5>1 DEF Lists
      <4>2. CASE missed[q]
        <5>1. m.call.name = "getDevices" /\ ~Fetched(q)
          BY <2>1, <3>2, <4>2
        <5>2. (\A s \in serving[q] : ~Fetch(s)) /\ RepliesBring(toClient[q], devices)
          BY <5>1, FetchedAs
        <5>3. QED
          BY <2>2, <2>3, <3>1, <5>1, <5>2 DEF Lists
      <4>3. QED
        BY <4>1, <4>2
    <3>3. QED
      BY <1>1, <1>2, <2>1, <2>5, <3>2 DEF ListOf, Linked, page
  <2>6. QED
    BY <2>4, <2>5
<1>6. CASE HandleAbsent(q)
  <2>1. m.kind = "call" /\ m.call.handle = "absent" /\ DeliverTo(q, <<Reply(m.call, 0)>>)
        /\ UNCHANGED <<serving, missed>>
    BY <1>6 DEF HandleAbsent, AnswerAbsent
  <2> HIDE DEF m
  <2> DEFINE r == Reply(m.call, 0)
  <2>2. m.call.name # "getDevices"
    BY <1>2, <1>3, <2>1 DEF ListOf
  <2>3. r \in Notifications /\ ~Brings(r) /\ DeliverTo(q, <<r>>)
    BY <1>3, <2>1, <2>2, NotificationTypes, BoundsAreNat DEF Brings, Reply
  <2> HIDE DEF r
  <2>4. /\ \A o \in Pages : o # q => toClient'[o] = toClient[o]
        /\ Linked(q) => toClient'[q] = toClient[q] \o <<r>>
    BY <2>3, DeliveredTo
  <2>5. CASE p # q
    <3>1. ListStays(p)
      BY <1>1, <2>1, <2>4, <2>5 DEF ListStays, Linked, page
    <3>2. QED
      BY <3>1, ListUnchanged DEF ListInv
  <2>6. CASE p = q
    <3>1. ASSUME Linked(q), ~missed[q]
          PROVE  Lists(serving[q], toClient[q] \o <<r>>, store[q], devices)
      <4>1. Lists(serving[q], toClient[q], store[q], devices)
        BY <1>2, <3>1 DEF ListOf
      <4>2. QED
        BY <1>2, <2>3, <4>1, ListsQuietOne
    <3>2. QED
      BY <1>1, <1>2, <2>1, <2>4, <2>6, <3>1 DEF ListOf, Linked, page
  <2>7. QED
    BY <2>5, <2>6
<1>7. QED
  BY <1>4, <1>5, <1>6 DEF ServerStep

LEMMA ListHandler ==
    ASSUME Types, ListInv, NEW q \in Pages, NEW s \in serving[q], HandlerSettles(q, s)
    PROVE  ListInv'
<1> DEFINE r == Reply(s.call, s.result)
<1>1. /\ r \in Notifications
      /\ Brings(r) <=> Fetch(s)
      /\ Brought(r) = s.result
  <2>1. s.call \in Calls /\ s.result \in 0 .. MaxChanges
    BY DEF Types, ServerType
  <2>2. r \in Notifications
    BY <2>1, NotificationTypes
  <2>3. r.kind = "reply" /\ r.call = s.call /\ r.result = s.result
    BY DEF Reply
  <2>4. QED
    BY <2>2, <2>3 DEF Brings, Brought, Fetch
<1>2. /\ serving' = [serving EXCEPT ![q] = @ \ {s}]
      /\ DeliverTo(q, <<r>>)
      /\ UNCHANGED <<devices, serverEnd, page, missed>>
  BY DEF HandlerSettles, ReplyTo
<1> HIDE DEF r
<1>3. /\ \A o \in Pages : o # q => toClient'[o] = toClient[o]
      /\ Linked(q) => toClient'[q] = toClient[q] \o <<r>>
  BY <1>1, <1>2, DeliveredTo
<1> SUFFICES ASSUME NEW p \in Pages PROVE ListOf(p)'
  BY DEF ListInv
<1>4. CASE p # q
  <2>1. ListStays(p)
    BY <1>2, <1>3, <1>4 DEF ListStays, Linked, page, Types, ServerType
  <2>2. QED
    BY <2>1, ListUnchanged DEF ListInv
<1>5. CASE p = q
  <2>1. ListOf(q) /\ toClient[q] \in Seq(Notifications) /\ serving'[q] = serving[q] \ {s}
    BY <1>2 DEF ListInv, Types, WayType, ServerType
  <2>2. ASSUME Linked(q), ~missed[q]
        PROVE  Lists(serving'[q], toClient[q] \o <<r>>, store[q], devices)
    <3>1. Lists(serving[q], toClient[q], store[q], devices)
      BY <2>1, <2>2 DEF ListOf
    <3>2. \A t \in serving'[q] : Fetch(t) => t.result = devices
      BY <2>1, <3>1 DEF Lists
    <3>3. CASE Fetch(s)
      <4>1. Brings(r) /\ Brought(r) = devices
        BY <1>1, <3>1, <3>3 DEF Lists
      <4>2. RepliesBring(toClient[q], devices)
        BY <3>1 DEF Lists
      <4>3. QED
        BY <1>1, <2>1, <3>2, <4>1, <4>2, ListsBrought
    <3>4. CASE ~Fetch(s)
      <4>1. Lists(serving'[q], toClient[q], store[q], devices)
        BY <2>1, <3>1, <3>2, <3>4 DEF Lists
      <4>2. QED
        BY <1>1, <2>1, <3>4, <4>1, ListsQuietOne
    <3>5. QED
      BY <3>3, <3>4
  <2>3. QED
    BY <1>2, <1>3, <1>5, <2>1, <2>2 DEF ListOf, Linked, page
<1>6. QED
  BY <1>4, <1>5

LEMMA ListNotify ==
    ASSUME Types, ListInv, DevicesUpdated \/ SendRaw
    PROVE  ListInv'
<1> SUFFICES ASSUME NEW p \in Pages PROVE ListOf(p)'
  BY DEF ListInv
<1>1. /\ ListOf(p) /\ toClient[p] \in Seq(Notifications)
      /\ UNCHANGED <<serverEnd, clientEnd, callbacks, listeners, store, serving>>
  BY DEF ListInv, Types, WayType, DevicesUpdated, SendRaw, page
<1>2. CASE DevicesUpdated
  <2> DEFINE m == Devices(devices + 1)
  <2>1. m \in Notifications /\ Brings(m) /\ Brought(m) = devices + 1
    <3>1. devices + 1 \in 0 .. MaxChanges
      BY <1>2, BoundsAreNat DEF DevicesUpdated, Types, ServerType
    <3>2. m \in Notifications
      BY <3>1, NotificationTypes
    <3>3. QED
      BY <3>2 DEF Devices, Brings, Brought
  <2>2. /\ Linked(p) /\ p \in Notified("devices") => toClient'[p] = toClient[p] \o <<m>>
        /\ devices' = devices + 1
        /\ missed'[p] = (count[p]["devices"] = 0 \/ Fetched(p))
    BY <1>2 DEF DevicesUpdated, Deliver
  <2> HIDE DEF m
  <2>3. ASSUME Linked(p), ~missed'[p]
        PROVE  Lists(serving[p], toClient'[p], store[p], devices')
    <3>1. count[p]["devices"] # 0 /\ ~Fetched(p)
      BY <2>2, <2>3
    <3>2. count[p]["devices"] \in Nat
      BY DEF Types, ServerType, Names
    <3>3. p \in Notified("devices")
      BY <3>1, <3>2 DEF Notified
    <3>4. (\A s \in serving[p] : ~Fetch(s)) /\ RepliesBring(toClient[p], devices + 1)
      BY <3>1, FetchedAs
    <3>5. Lists(serving[p], toClient[p] \o <<m>>, store[p], devices + 1)
      <4> DEFINE v == devices + 1
      <4>1. /\ Brought(m) = v /\ RepliesBring(toClient[p], v)
            /\ \A s \in serving[p] : Fetch(s) => s.result = v
        BY <2>1, <3>4
      <4> HIDE DEF v
      <4>2. Lists(serving[p], toClient[p] \o <<m>>, store[p], v)
        BY <1>1, <2>1, <4>1, ListsBrought
      <4>3. QED
        BY <4>2 DEF v
    <3>6. QED
      BY <2>2, <2>3, <3>3, <3>5
  <2>4. QED
    BY <1>1, <2>3 DEF ListOf, Linked
<1>3. CASE SendRaw
  <2> DEFINE what == [o \in Pages |-> IF o \in Notified("data")
                                      THEN RawMessages(frames + 1) ELSE <<>>]
             t == what[p]
  <2>1. frames + 1 \in 1 .. MaxFrames
    BY <1>3, BoundsAreNat DEF SendRaw, Types, ServerType
  <2>2. /\ Header(frames + 1) \in Notifications /\ ~Brings(Header(frames + 1))
        /\ Bytes(frames + 1) \in Notifications /\ ~Brings(Bytes(frames + 1))
    BY <2>1, NotificationTypes DEF Header, Bytes, Brings
  <2>3. t \in Seq(Notifications) /\ \A i \in 1 .. Len(t) : ~Brings(t[i])
    BY <2>2 DEF RawMessages
  <2>4. toClient'[p] = IF Linked(p) THEN toClient[p] \o t ELSE toClient[p]
    BY <1>3 DEF SendRaw, Deliver
  <2>5. devices' = devices /\ missed' = missed
    BY <1>3 DEF SendRaw
  <2> HIDE DEF what, t
  <2>6. ASSUME Linked(p), ~missed[p]
        PROVE  Lists(serving[p], toClient[p] \o t, store[p], devices)
    <3>1. Lists(serving[p], toClient[p], store[p], devices)
      BY <1>1, <2>6 DEF ListOf
    <3>2. QED
      BY <1>1, <2>3, <3>1, ListsQuiet
  <2>7. QED
    BY <1>1, <2>4, <2>5, <2>6 DEF ListOf, Linked
<1>4. QED
  BY <1>2, <1>3

LEMMA ListSocket ==
    ASSUME Types, EndsInv, ListInv, NEW q \in Pages,
           Open(q) \/ ClientCloses(q) \/ ServerCloses(q)
    PROVE  ListInv'
<1> SUFFICES ASSUME NEW p \in Pages PROVE ListOf(p)'
  BY DEF ListInv
<1>1. ListOf(p) /\ UNCHANGED <<devices, serving, listeners, store, missed, callbacks>>
  BY DEF ListInv, Open, ClientCloses, ServerCloses, server, page
<1>2. CASE p = q
  <2>1. Open(q) => missed[p]
    BY <1>2 DEF Open, EndsInv
  <2>2. ~Open(q) => ~Linked(p)'
    BY <1>2 DEF ClientCloses, ServerCloses, Linked, Types, ServerType, PageType
  <2>3. QED
    BY <1>1, <2>1, <2>2 DEF ListOf
<1>3. CASE p # q
  <2>1. /\ clientEnd'[p] = clientEnd[p] /\ serverEnd'[p] = serverEnd[p]
        /\ toClient'[p] = toClient[p]
    BY <1>3 DEF Open, ClientCloses, ServerCloses, server, page, Types, ServerType,
               PageType, WayType
  <2>2. ListStays(p)
    BY <1>1, <2>1 DEF ListStays, Linked
  <2>3. QED
    BY <1>1, <2>2, ListUnchanged
<1>4. QED
  BY <1>2, <1>3

LEMMA ListNext ==
    ASSUME Types, EndsInv, RawInv, CallInv, ListInv, [Next]_vars
    PROVE  ListInv'
<1>1. CASE UNCHANGED vars
  <2>1. \A p \in Pages : ListStays(p)
    BY <1>1 DEF vars, server, page, ListStays, Linked
  <2>2. QED
    BY <2>1, ListUnchanged DEF ListInv
<1>2. QED
  BY <1>1, ListNotify, ListSocket, ListPage, ListClient, ListServer, ListHandler DEF Next

\* An initialized page with nothing under way shows the device list of the
\* server, unless the list last changed between the answer to its getDevices
\* and the arrival of its subscription (the store subscribes when the answer
\* has come): replies that overtake each other and notifications among them
\* leave it with the newest list all the same.
THEOREM PageShowsDevices == Spec => []DevicesCurrent
<1> DEFINE Inv == Types /\ EndsInv /\ RawInv /\ CallInv /\ ListInv
<1>1. Init => Inv
  <2>1. ASSUME Init PROVE EndsInv
    BY <2>1 DEF Init, EndsInv
  <2>2. ASSUME Init, NEW p \in Pages PROVE RawOf(p) /\ CallOf(p) /\ ListOf(p)
    <3>1. /\ callbacks[p] = {} /\ serving[p] = {} /\ rawEvent[p] = None /\ missed[p]
          /\ toServer[p] = <<>> /\ toClient[p] = <<>> /\ ~store[p].initialized
      BY <2>2 DEF Init, NewStore
    <3>2. Paired(<<>>)
      BY DEF Paired
    <3>3. RawOf(p) /\ ListOf(p)
      BY <3>1, <3>2 DEF RawOf, ListOf
    <3>4. CallOf(p)
      BY <3>1, CallsNone DEF CallOf, Asked, Served, Answered
    <3>5. QED
      BY <3>3, <3>4
  <2>3. QED
    BY <2>1, <2>2, TypesInit DEF RawInv, CallInv, ListInv
<1>2. Inv /\ [Next]_vars => Inv'
  BY TypesNext, EndsNext, RawNext, CallsNext, ListNext
<1>3. Inv => DevicesCurrent
  <2> SUFFICES ASSUME Inv, NEW p \in Pages, Quiet(p), store[p].initialized, ~missed[p]
               PROVE  store[p].devices = devices
    BY DEF DevicesCurrent
  <2>1. Lists(serving[p], toClient[p], store[p], devices)
    BY DEF ListInv, ListOf, Quiet
  <2>2. ~Bringing(<<>>)
    BY DEF Bringing
  <2>3. QED
    BY <2>1, <2>2 DEF Lists, Quiet
<1> HIDE DEF Inv
<1>4. QED
  BY <1>1, <1>2, <1>3, PTL DEF Spec

=============================================================================
