-------------------------------- MODULE Ipc --------------------------------
(***************************************************************************)
(* The IPC layer between the services of the server and the pages of the   *)
(* web client, and the device list a page keeps with it.                   *)
(*                                                                         *)
(* A page has one socket, over which the helpers of all its services call  *)
(* (a request with an id of the helper, answered when the handler of the   *)
(* service settles), subscribe to notifications and receive them.  A raw   *)
(* notification is two messages: a header, and the bytes it announces.     *)
(*                                                                         *)
(* The socket keeps the order of the messages.  Its two ends close each    *)
(* in its own time: what is under way when an end closes never arrives     *)
(* there, and what is sent to or by a closed end is dropped in silence.    *)
(***************************************************************************)
EXTENDS Naturals, Sequences, FiniteSets, SequencesExt

CONSTANTS
    Pages,       \* pages of the web client, each with one socket
    None,        \* no raw header
    MaxCalls,    \* calls of a page
    MaxLag,      \* messages under way to the server when the page sends
    MaxToggles,  \* listeners of a page for raw notifications
    MaxChanges,  \* changes of the server's device list
    MaxFrames    \* raw notifications of the server

ASSUME IpcAssumption ==
    /\ {MaxCalls, MaxLag, MaxToggles, MaxChanges, MaxFrames} \subseteq Nat
    /\ None \notin 1 .. MaxFrames

VARIABLES
    devices,    \* the server's device list, as the number of its changes
    frames,     \* raw notifications sent so far
    serverEnd,  \* the server's end of the socket of a page
    count,      \* count[p][n]: the subscriptions of p's socket to n
    serving,    \* serving[p]: calls of p whose handler has not settled
    toServer,   \* messages on their way to the server
    toClient,   \* messages on their way to the page
    clientEnd,  \* the page's end of its socket
    nextId,     \* nextId[p][h]: the id of the next call of helper h
    callbacks,  \* callbacks[p]: the calls of p that wait for a reply
    listeners,  \* listeners[p][n]: how many listeners p has for n
    rawEvent,   \* rawEvent[p]: the header whose bytes are awaited
    store,      \* store[p]: the device store of p
    missed      \* missed[p]: p cannot know of the last change of the list

server == <<devices, frames, serverEnd, count, serving>>
page == <<clientEnd, nextId, callbacks, listeners, rawEvent, store>>
vars == <<server, toServer, toClient, page, missed>>

\* The names that are subscribed to: "devices" of the service "server", and
\* "data", the raw one, of the service "video".  The server has no service
\* "absent".
Names == {"devices", "data"}
Handles == {"server", "video", "absent"}
Ends == {"new", "open", "closed"}

Calls == [handle : Handles, id : 0 .. MaxCalls - 1,
          name : {"getDevices", "act"}]
Subscribe(n, on) == [kind |-> "subscribe", name |-> n, subscribe |-> on]
Request(c) == [kind |-> "call", call |-> c]
Reply(c, r) == [kind |-> "reply", call |-> c, result |-> r]
Devices(v) == [kind |-> "devices", version |-> v]
Header(f) == [kind |-> "header", frame |-> f]
Bytes(f) == [kind |-> "bytes", frame |-> f]

Requests == [kind : {"subscribe"}, name : Names, subscribe : BOOLEAN]
                \cup [kind : {"call"}, call : Calls]
Notifications == [kind : {"reply"}, call : Calls, result : 0 .. MaxChanges]
                     \cup [kind : {"devices"}, version : 0 .. MaxChanges]
                     \cup [kind : {"header", "bytes"}, frame : 1 .. MaxFrames]

NewStore == [initialized |-> FALSE, devices |-> 0]

TypeOK ==
    /\ devices \in 0 .. MaxChanges /\ frames \in 0 .. MaxFrames
    /\ serverEnd \in [Pages -> Ends] /\ clientEnd \in [Pages -> Ends]
    /\ count \in [Pages -> [Names -> Nat]]
    /\ listeners \in [Pages -> [Names -> Nat]]
    /\ serving \in [Pages -> SUBSET [call : Calls, result : 0 .. MaxChanges]]
    /\ callbacks \in [Pages -> SUBSET Calls]
    /\ rawEvent \in [Pages -> {None} \cup 1 .. MaxFrames]
    /\ toServer \in [Pages -> Seq(Requests)]
    /\ toClient \in [Pages -> Seq(Notifications)]
    /\ nextId \in [Pages -> [Handles -> 0 .. MaxCalls]]
    /\ store \in [Pages -> [initialized : BOOLEAN, devices : 0 .. MaxChanges]]
    /\ missed \in [Pages -> BOOLEAN]

Init ==
    /\ devices = 0 /\ frames = 0
    /\ serverEnd = [p \in Pages |-> "new"]
    /\ clientEnd = [p \in Pages |-> "new"]
    /\ count = [p \in Pages |-> [n \in Names |-> 0]]
    /\ listeners = [p \in Pages |-> [n \in Names |-> 0]]
    /\ serving = [p \in Pages |-> {}]
    /\ callbacks = [p \in Pages |-> {}]
    /\ toServer = [p \in Pages |-> <<>>]
    /\ toClient = [p \in Pages |-> <<>>]
    /\ nextId = [p \in Pages |-> [h \in Handles |-> 0]]
    /\ rawEvent = [p \in Pages |-> None]
    /\ store = [p \in Pages |-> NewStore]
    /\ missed = [p \in Pages |-> TRUE]

Linked(p) == clientEnd[p] = "open" /\ serverEnd[p] = "open"

\* A message of the page; nothing is told of one that a closed socket drops.
Post(p, ms) ==
    toServer' = IF Linked(p) THEN [toServer EXCEPT ![p] = @ \o ms]
                             ELSE toServer

\* Messages of the server: what[p] are those for the socket of p.
Deliver(what) ==
    toClient' = [p \in Pages |-> IF Linked(p) THEN toClient[p] \o what[p]
                                              ELSE toClient[p]]
DeliverTo(p, ms) == Deliver([q \in Pages |-> IF q = p THEN ms ELSE <<>>])

\* The page opens its socket and the server accepts it.
Open(p) ==
    /\ clientEnd[p] = "new"
    /\ clientEnd' = [clientEnd EXCEPT ![p] = "open"]
    /\ serverEnd' = [serverEnd EXCEPT ![p] = "open"]
    /\ UNCHANGED <<devices, frames, count, serving, toServer, toClient,
                   nextId, callbacks, listeners, rawEvent, store, missed>>

\* The close event of the page's end: only its listeners are removed, the
\* calls that wait stay in the map.
ClientCloses(p) ==
    /\ clientEnd[p] = "open"
    /\ clientEnd' = [clientEnd EXCEPT ![p] = "closed"]
    /\ toClient' = [toClient EXCEPT ![p] = <<>>]
    /\ UNCHANGED <<server, toServer, nextId, callbacks, listeners, rawEvent,
                   store, missed>>

\* Mutant: one subscription is withdrawn.
Unsubscribed_Once(p) ==
    [count EXCEPT ![p] = [n \in Names |-> IF @[n] = 0 THEN 0 ELSE @[n] - 1]]

\* The close event of the server's end: every subscription of the socket is
\* withdrawn, whatever its count.
Unsubscribed(p) == [count EXCEPT ![p] = [n \in Names |-> 0]]
ServerCloses(p) ==
    /\ serverEnd[p] = "open"
    /\ serverEnd' = [serverEnd EXCEPT ![p] = "closed"]
    /\ toServer' = [toServer EXCEPT ![p] = <<>>]
    /\ count' = Unsubscribed(p)
    /\ UNCHANGED <<devices, frames, serving, toClient, page, missed>>

-----------------------------------------------------------------------------
(* The page *)

\* A helper sends a request and then registers the callback of its id; the
\* ids of two helpers of a page are the same numbers.
Made(p) == nextId[p]["server"] + nextId[p]["video"] + nextId[p]["absent"]
Send(p, h, name) ==
    LET c == [handle |-> h, id |-> nextId[p][h], name |-> name]
    IN  /\ clientEnd[p] # "new"
        /\ Made(p) < MaxCalls /\ Len(toServer[p]) < MaxLag
        /\ nextId' = [nextId EXCEPT ![p][h] = @ + 1]
        /\ Post(p, <<Request(c)>>)
        /\ callbacks' = [callbacks EXCEPT ![p] = @ \cup {c}]

\* A component of the page calls a service: the handler may take its time.
Act(p, h) ==
    /\ Send(p, h, "act")
    /\ UNCHANGED <<server, toClient, clientEnd, listeners, rawEvent, store,
                   missed>>

\* A component that shows the device list is set up: two that are set up
\* before the reply comes both ask for the list.
Initialize(p) ==
    /\ ~store[p].initialized
    /\ Send(p, "server", "getDevices")
    /\ UNCHANGED <<server, toClient, clientEnd, listeners, rawEvent, store,
                   missed>>

\* A component adds or removes its listener of a raw notification.
On(p) ==
    /\ clientEnd[p] # "new"
    /\ listeners[p]["data"] < MaxToggles /\ Len(toServer[p]) < MaxLag
    /\ listeners' = [listeners EXCEPT ![p]["data"] = @ + 1]
    /\ Post(p, <<Subscribe("data", TRUE)>>)
    /\ UNCHANGED <<server, toClient, clientEnd, nextId, callbacks, rawEvent,
                   store, missed>>

Off(p) ==
    /\ listeners[p]["data"] > 0 /\ Len(toServer[p]) < MaxLag
    /\ listeners' = [listeners EXCEPT ![p]["data"] = @ - 1]
    /\ Post(p, <<Subscribe("data", FALSE)>>)
    /\ UNCHANGED <<server, toClient, clientEnd, nextId, callbacks, rawEvent,
                   store, missed>>

Take(p, m) ==
    /\ toClient[p] # <<>>
    /\ m = Head(toClient[p])
    /\ toClient' = [toClient EXCEPT ![p] = Tail(@)]
    /\ UNCHANGED <<server, clientEnd, nextId, missed>>

\* While a header waits, the next message is taken for its bytes.
TakeBytes(p) ==
    LET m == Head(toClient[p])
    IN  /\ rawEvent[p] # None
        /\ Take(p, m)
        /\ rawEvent' = [rawEvent EXCEPT ![p] = None]
        /\ UNCHANGED <<toServer, callbacks, listeners, store>>

TakeHeader(p) ==
    LET m == Head(toClient[p])
    IN  /\ rawEvent[p] = None /\ m.kind = "header"
        /\ Take(p, m)
        /\ rawEvent' = [rawEvent EXCEPT ![p] = m.frame]
        /\ UNCHANGED <<toServer, callbacks, listeners, store>>

\* The devices listener of the store, when it has been added.
TakeDevices(p) ==
    LET m == Head(toClient[p])
    IN  /\ rawEvent[p] = None /\ m.kind = "devices"
        /\ Take(p, m)
        /\ store' = IF listeners[p]["devices"] > 0
                    THEN [store EXCEPT ![p].devices = m.version]
                    ELSE store
        /\ UNCHANGED <<toServer, callbacks, listeners, rawEvent>>

\* Mutant: the callbacks of all helpers in one map.
Settles_AnyHandle(p, m) == {c \in callbacks[p] : c.id = m.call.id}

\* A reply is given to the helper of its handle, which settles the call of
\* its id.  That of getDevices lets the store go on: it takes the list, adds
\* its listener and is initialized.
Settles(p, m) == {c \in callbacks[p] :
                     c.handle = m.call.handle /\ c.id = m.call.id}

TakeReply(p) ==
    LET m == Head(toClient[p])
    IN  /\ rawEvent[p] = None /\ m.kind = "reply"
        /\ Take(p, m)
        /\ \E c \in Settles(p, m) :
              /\ callbacks' = [callbacks EXCEPT ![p] = @ \ {c}]
              /\ IF c.name = "getDevices"
                 THEN /\ store' = [store EXCEPT ![p] =
                             [initialized |-> TRUE, devices |-> m.result]]
                      /\ listeners' = [listeners EXCEPT ![p]["devices"] = @ + 1]
                      /\ Post(p, <<Subscribe("devices", TRUE)>>)
                 ELSE UNCHANGED <<store, listeners, toServer>>
        /\ UNCHANGED rawEvent

-----------------------------------------------------------------------------
(* The server *)

Handled(p, m) ==
    /\ toServer[p] # <<>>
    /\ m = Head(toServer[p])
    /\ toServer' = [toServer EXCEPT ![p] = Tail(@)]
    /\ UNCHANGED <<page, devices, frames, serverEnd>>

\* A subscription counts up or down; an unsubscription too many is logged.
HandleSubscribe(p) ==
    LET m == Head(toServer[p])
    IN  /\ m.kind = "subscribe"
        /\ Handled(p, m)
        /\ count' = IF m.subscribe
                    THEN [count EXCEPT ![p][m.name] = @ + 1]
                    ELSE [count EXCEPT ![p][m.name] = IF @ = 0 THEN 0
                                                               ELSE @ - 1]
        /\ UNCHANGED <<serving, toClient, missed>>

\* A getDevices whose result is on its way to the page.
Fetched(p) == \/ \E s \in serving[p] : s.call.name = "getDevices"
              \/ \E m \in ToSet(toClient[p]) :
                    m.kind = "reply" /\ m.call.name = "getDevices"

\* The handler of a call starts; getDevices reads the list at once, though
\* its reply is sent only when its promise has settled.
HandleCall(p) ==
    LET m == Head(toServer[p])
    IN  /\ m.kind = "call" /\ m.call.handle # "absent"
        /\ Handled(p, m)
        /\ serving' = [serving EXCEPT ![p] = @ \cup
                          {[call |-> m.call, result |-> devices]}]
        /\ missed' = IF m.call.name = "getDevices" /\ ~Fetched(p)
                     THEN [missed EXCEPT ![p] = FALSE]
                     ELSE missed
        /\ UNCHANGED <<count, toClient>>

\* Mutant: nobody is told that there is no such service.
AnswerAbsent_Silent(p, m) == DeliverTo(p, <<>>)

\* There is no service of that handle: the reply is an error.
AnswerAbsent(p, m) == DeliverTo(p, <<Reply(m.call, 0)>>)
HandleAbsent(p) ==
    LET m == Head(toServer[p])
    IN  /\ m.kind = "call" /\ m.call.handle = "absent"
        /\ Handled(p, m)
        /\ AnswerAbsent(p, m)
        /\ UNCHANGED <<count, serving, missed>>

\* A handler settles, with a result or an error; the handlers of two calls
\* settle in any order.
ReplyTo(p, s) == DeliverTo(p, <<Reply(s.call, s.result)>>)
HandlerSettles(p, s) ==
    /\ s \in serving[p]
    /\ serving' = [serving EXCEPT ![p] = @ \ {s}]
    /\ ReplyTo(p, s)
    /\ UNCHANGED <<devices, frames, serverEnd, count, toServer, page, missed>>

\* Mutant: the first subscription of a socket is not counted.
Notified_NotFirst(n) == {p \in Pages : count[p][n] > 1}

\* A device is added, removed or changes its state: the whole list is sent
\* to the sockets that are subscribed.
Notified(n) == {p \in Pages : count[p][n] > 0}
DevicesUpdated ==
    /\ devices < MaxChanges
    /\ devices' = devices + 1
    /\ Deliver([p \in Pages |-> IF p \in Notified("devices")
                                THEN <<Devices(devices + 1)>> ELSE <<>>])
    /\ missed' = [p \in Pages |-> count[p]["devices"] = 0 \/ Fetched(p)]
    /\ UNCHANGED <<frames, serverEnd, count, serving, toServer, page>>

\* Mutant: the bytes are sent first.
RawMessages_BytesFirst(f) == <<Bytes(f), Header(f)>>

\* A service sends a raw notification.
RawMessages(f) == <<Header(f), Bytes(f)>>
SendRaw ==
    /\ frames < MaxFrames
    /\ frames' = frames + 1
    /\ Deliver([p \in Pages |-> IF p \in Notified("data")
                                THEN RawMessages(frames + 1) ELSE <<>>])
    /\ UNCHANGED <<devices, serverEnd, count, serving, toServer, page, missed>>

-----------------------------------------------------------------------------
ClientStep(p) == TakeBytes(p) \/ TakeHeader(p) \/ TakeDevices(p) \/ TakeReply(p)
ServerStep(p) == HandleSubscribe(p) \/ HandleCall(p) \/ HandleAbsent(p)

Next ==
    \/ DevicesUpdated \/ SendRaw
    \/ \E p \in Pages :
          \/ Open(p) \/ ClientCloses(p) \/ ServerCloses(p)
          \/ Initialize(p) \/ On(p) \/ Off(p)
          \/ \E h \in Handles : Act(p, h)
          \/ toClient[p] # <<>> /\ ClientStep(p)
          \/ toServer[p] # <<>> /\ ServerStep(p)
          \/ \E s \in serving[p] : HandlerSettles(p, s)

\* Messages arrive, handlers settle and the close of one end reaches the
\* other.
Fairness == \A p \in Pages :
    /\ WF_vars(toClient[p] # <<>> /\ ClientStep(p))
    /\ WF_vars(toServer[p] # <<>> /\ ServerStep(p))
    /\ WF_vars(\E s \in serving[p] : HandlerSettles(p, s))
    /\ WF_vars(clientEnd[p] = "closed" /\ ServerCloses(p))
    /\ WF_vars(serverEnd[p] = "closed" /\ ClientCloses(p))

Spec == Init /\ [][Next]_vars /\ Fairness
-----------------------------------------------------------------------------
(* Properties *)

\* The replies of calls that are under way to p, from the handler on.
Answers(p) == {s.call : s \in serving[p]}
                  \cup {m.call : m \in {x \in ToSet(toClient[p]) :
                                            x.kind = "reply"}}
                  \cup {m.call : m \in {x \in ToSet(toServer[p]) :
                                            x.kind = "call"}}

\* Every call that is being answered has its callback, and it is the only
\* one the reply can be given to: no reply is unhandled, and none settles
\* the call of another helper with the same id.
AnswersHaveCallers ==
    \A p \in Pages : \A c \in Answers(p) :
        c \in callbacks[p] /\ Settles(p, Reply(c, 0)) = {c}

\* The bytes that follow a header are its own, and bytes never come without
\* one, so that no notification is taken for a payload or parsed out of one.
RawPaired ==
    \A p \in Pages : toClient[p] # <<>> =>
        /\ rawEvent[p] # None => Head(toClient[p]) = Bytes(rawEvent[p])
        /\ rawEvent[p] = None => Head(toClient[p]).kind # "bytes"

\* What is under way to the server adds up to the listeners of the page: the
\* server never sees one unsubscription too many, and it counts nothing for a
\* socket that is gone.
Toggles(p, n, on) ==
    Cardinality({i \in DOMAIN toServer[p] : toServer[p][i] = Subscribe(n, on)})
SubscriptionsFollow ==
    \A p \in Pages, n \in Names :
        IF serverEnd[p] = "open"
        THEN Linked(p) => count[p][n] + Toggles(p, n, TRUE)
                              = listeners[p][n] + Toggles(p, n, FALSE)
        ELSE count[p][n] = 0

\* When nothing is under way, an initialized page shows the device list of
\* the server, unless the list last changed after the reply was computed and
\* before the page's subscription arrived.
Quiet(p) == /\ Linked(p)
            /\ toServer[p] = <<>> /\ toClient[p] = <<>> /\ serving[p] = {}
DevicesCurrent ==
    \A p \in Pages : Quiet(p) /\ store[p].initialized /\ ~missed[p] =>
        store[p].devices = devices

\* The calls of every helper over a socket that stays open are settled.  (One
\* that waits when the socket closes, or is made later, waits for ever.)
CallsAnswered ==
    \A p \in Pages, h \in Handles :
        LET waiting == \E c \in callbacks[p] : c.handle = h
        IN  (waiting /\ Linked(p)) ~> (~waiting \/ ~Linked(p))
=============================================================================
