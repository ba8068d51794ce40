--------------------------- MODULE BluetoothDevice ---------------------------
(***************************************************************************)
(* A Bluetooth device: how connectImpl and disconnectImpl get a phone from *)
(* its Bluetooth profile to a TCP connection and back.                     *)
(*                                                                         *)
(* The phone opens the profile, is told the WiFi credentials over it and   *)
(* then connects to the head unit's TCP server.  Each part is awaited with *)
(* a timer of its own.  The holder of the server's connectionLock runs     *)
(* connectImpl or disconnectImpl; `pc` is the await it is in.  The part    *)
(* from the profile on, connectWifiAndTcp, is an attempt.  connectImpl     *)
(* awaits it together with the end of the profile; when the profile ends   *)
(* first the attempt is left behind and goes on by itself, until it        *)
(* settles or its timer fires, while the phone may be back already.        *)
(*                                                                         *)
(* BlueZ and phone are the environment.  Promise continuations run before  *)
(* the next event, so an action is the code from one event to the next.    *)
(***************************************************************************)
EXTENDS Naturals, Sequences, FiniteSets

CONSTANTS
    Attempts,  \* attempts there may be at a time; one that is over is used again
    None,      \* "undefined"
    MaxCalls   \* bound on the calls of the server that await its lock

ASSUME BluetoothAssumption ==
    /\ None \notin Attempts /\ "close" \notin Attempts /\ "close" # None
    /\ MaxCalls \in Nat

VARIABLES
    state,                  \* the state of the Device object
    calls,                  \* calls for this device that await connectionLock
    holder,                 \* the call that has the lock
    pc,                     \* the await it is in
    profile,                \* BluetoothProfileHandler.socket
    connectionCallback,     \* the profile handler's: somebody waits for a socket
    disconnectionCallback,  \* whose wait for the end of the profile is registered
    guards,                 \* attempts whose abort still clears that callback
    current,                \* the attempt that connectImpl awaits
    attempt,                \* where each attempt is
    messageCallbacks,       \* the WiFi connector's callbacks by message type
    listeners,              \* waits for a message that an abort will end
    transport               \* the transport delivers data and its end

profileVars == <<profile, connectionCallback, disconnectionCallback, guards>>
wifiVars == <<attempt, messageCallbacks, listeners>>
vars == <<state, calls, holder, pc, profileVars, current, wifiVars, transport>>

MessageTypes == {"networkInfoRequest", "connectStatus"}

\* "pairing": Paired, Pair and Connect of BlueZ; "profile": waiting for the
\* profile; "linking": waitForTcpConnection; "starting": doStart; "closing":
\* profileHandler.disconnect; "parting": Disconnect of BlueZ.
Awaits == {"pairing", "profile", "linking", "starting", "closing", "parting"}

\* `phase` is what connectWifiAndTcp awaits and `doing` what doConnection does.
Over == [phase |-> "over", doing |-> "nothing"]

TypeOK ==
    /\ state \in {"available", "self-connecting", "connecting", "connected", "disconnecting"}
    /\ calls \in Seq({"user", "self", "profile", "disconnect"}) /\ Len(calls) <= MaxCalls
    /\ holder \in {"none", "user", "self", "disconnect"}
    /\ pc \in Awaits \cup {"idle"}
    /\ profile \in {"none", "open", "destroyed"}
    /\ connectionCallback \in BOOLEAN
    /\ disconnectionCallback \in Attempts \cup {"close", None}
    /\ guards \subseteq Attempts
    /\ current \in Attempts \cup {None}
    /\ attempt \in [Attempts -> [phase : {"wifi", "tcp", "over"},
                                 doing : {"writing", "waiting", "responding", "nothing"}]]
    /\ messageCallbacks \in [MessageTypes -> Attempts \cup {None}]
    /\ listeners \subseteq Attempts \X MessageTypes
    /\ transport \in BOOLEAN

Init ==
    /\ state = "available"
    /\ calls = <<>>
    /\ holder = "none"
    /\ pc = "idle"
    /\ profile = "none"
    /\ connectionCallback = FALSE
    /\ disconnectionCallback = None
    /\ guards = {}
    /\ current = None
    /\ attempt = [a \in Attempts |-> Over]
    /\ messageCallbacks = [t \in MessageTypes |-> None]
    /\ listeners = {}
    /\ transport = FALSE

-----------------------------------------------------------------------------
(***************************************************************************)
(* Calls of the server, each of which awaits connectionLock first.  "user" *)
(* and "self" connect; "profile" and "disconnect" disconnect, the first    *)
(* for the reason that the profile has ended.                              *)
(***************************************************************************)
JobReady == pc = "idle" /\ calls # <<>>

Call(c) ==
    /\ Len(calls) < MaxCalls
    /\ calls' = Append(calls, c)

UserConnects ==
    /\ ~JobReady
    /\ Call("user")
    /\ UNCHANGED <<state, holder, pc, profileVars, current, wifiVars, transport>>

\* The user, the pinger or a bye-bye of the phone.
Disconnects ==
    /\ ~JobReady
    /\ Call("disconnect")
    /\ UNCHANGED <<state, holder, pc, profileVars, current, wifiVars, transport>>

TransportEnds ==
    /\ ~JobReady
    /\ transport
    /\ transport' = FALSE
    /\ Call("disconnect")
    /\ UNCHANGED <<state, holder, pc, profileVars, current, wifiVars>>

-----------------------------------------------------------------------------
(***************************************************************************)
(* profileHandler.disconnect, for a disconnectionCallback that is          *)
(* `callback` by now: the socket is destroyed and its end awaited.  It     *)
(* throws without a socket, or if somebody waits for the end already;      *)
(* that is caught and Bluetooth is disconnected next.                      *)
(***************************************************************************)
\* Mutant: the end is awaited without asking whether there is a socket.
CloseProfile_Unasserted(socket, callback) ==
    /\ profile' = IF socket = "none" THEN "none" ELSE "destroyed"
    /\ IF callback = None
       THEN pc' = "closing" /\ disconnectionCallback' = "close"
       ELSE pc' = "parting" /\ disconnectionCallback' = callback

CloseProfile(socket, callback) ==
    /\ profile' = IF socket = "none" THEN "none" ELSE "destroyed"
    /\ IF socket # "none" /\ callback = None
       THEN pc' = "closing" /\ disconnectionCallback' = "close"
       ELSE pc' = "parting" /\ disconnectionCallback' = callback

(***************************************************************************)
(* The promise of attempt a is rejected: the controller is aborted, which  *)
(* ends the wait for the profile if that is registered on its signal, and  *)
(* connectImpl, if it still awaits this attempt, closes the profile.       *)
(***************************************************************************)
ClearedBy(A) == IF guards \cap A # {} THEN None ELSE disconnectionCallback

Reject(a) ==
    /\ guards' = guards \ {a}
    /\ current' = IF current = a THEN None ELSE current
    /\ IF current = a
       THEN CloseProfile(profile, ClearedBy({a}))
       ELSE disconnectionCallback' = ClearedBy({a}) /\ UNCHANGED <<profile, pc>>
    /\ UNCHANGED connectionCallback

\* An attempt is free when nothing of it is left.
Free(a) ==
    /\ attempt[a] = Over
    /\ \A t \in MessageTypes : messageCallbacks[t] # a

(***************************************************************************)
(* waitForTcpConnection on a socket of the profile.  The wait for the end  *)
(* of the profile is registered; then connectWithTimeout waits for the     *)
(* status and writes the first message.  If somebody waits for a status    *)
(* already the assertion of waitForMessage fails, and with it the attempt, *)
(* whose write goes on.                                                    *)
(***************************************************************************)
StartAttempt(a, socket) ==
    /\ Free(a)
    /\ IF messageCallbacks["connectStatus"] # None
       THEN /\ attempt' = [attempt EXCEPT ![a] = [phase |-> "over", doing |-> "writing"]]
            /\ CloseProfile(socket, disconnectionCallback)
            /\ UNCHANGED <<messageCallbacks, listeners, guards, current>>
       ELSE /\ attempt' = [attempt EXCEPT ![a] = [phase |-> "wifi", doing |-> "writing"]]
            /\ messageCallbacks' = [messageCallbacks EXCEPT !["connectStatus"] = a]
            /\ listeners' = listeners \cup {<<a, "connectStatus">>}
            /\ guards' = IF disconnectionCallback = None THEN guards \cup {a} ELSE guards
            /\ disconnectionCallback' =
                 IF disconnectionCallback = None THEN a ELSE disconnectionCallback
            /\ current' = a
            /\ profile' = socket
            /\ pc' = "linking"

-----------------------------------------------------------------------------
(***************************************************************************)
(* BlueZ hands over a socket of the profile.  While the last one is not    *)
(* closed yet the assertion of connect fails and nothing changes.          *)
(***************************************************************************)
ProfileExpected(a) ==
    /\ ~JobReady
    /\ profile = "none"
    /\ connectionCallback
    /\ connectionCallback' = FALSE
    /\ StartAttempt(a, "open")
    /\ UNCHANGED <<state, calls, holder, transport>>

\* Nobody waits for it: an available device connects by itself, in any other
\* state the connection is only logged.
ProfileUnexpected ==
    /\ ~JobReady
    /\ profile = "none"
    /\ ~connectionCallback
    /\ profile' = "open"
    /\ IF state = "available"
       THEN state' = "self-connecting" /\ Call("self")
       ELSE UNCHANGED <<state, calls>>
    /\ UNCHANGED <<holder, pc, connectionCallback, disconnectionCallback, guards,
                   current, wifiVars, transport>>

(***************************************************************************)
(* The socket of the profile closes: the phone has closed it, or it had    *)
(* been destroyed.  The wait that is registered gets it, and otherwise the *)
(* device asks to be disconnected.                                         *)
(***************************************************************************)
\* Mutant: the abort listener of the wait is not removed when it is over.
ProfileCloses_KeepListener ==
    /\ ~JobReady
    /\ profile # "none"
    /\ profile' = "none"
    /\ disconnectionCallback' = None
    /\ current' = IF disconnectionCallback = current THEN None ELSE current
    /\ IF disconnectionCallback = None
       THEN Call("profile") /\ UNCHANGED pc
       ELSE pc' = "parting" /\ UNCHANGED calls
    /\ UNCHANGED <<state, holder, connectionCallback, guards, wifiVars, transport>>

ProfileCloses ==
    /\ ~JobReady
    /\ profile # "none"
    /\ profile' = "none"
    /\ disconnectionCallback' = None
    /\ guards' = guards \ {disconnectionCallback}
    /\ current' = IF disconnectionCallback = current THEN None ELSE current
    /\ IF disconnectionCallback = None
       THEN Call("profile") /\ UNCHANGED pc
       ELSE pc' = "parting" /\ UNCHANGED calls
    /\ UNCHANGED <<state, holder, connectionCallback, wifiVars, transport>>

-----------------------------------------------------------------------------
(***************************************************************************)
(* The lock is granted.  A device that is not in the state for it does     *)
(* nothing: disconnect returns, and connect throws.                        *)
(***************************************************************************)
Granted(c) ==
    /\ pc = "idle"
    /\ calls # <<>>
    /\ Head(calls) = c
    /\ calls' = Tail(calls)

Refused ==
    UNCHANGED <<state, holder, pc, profileVars, current, wifiVars, transport>>

\* device.disconnect up to the first await of disconnectImpl.
BeginDisconnect(h, profileEnded) ==
    /\ state' = "disconnecting"
    /\ holder' = h
    /\ transport' = FALSE
    /\ IF profileEnded
       THEN pc' = "parting" /\ UNCHANGED <<profile, disconnectionCallback>>
       ELSE CloseProfile(profile, disconnectionCallback)
    /\ UNCHANGED <<connectionCallback, guards, current, wifiVars>>

Disconnect ==
    \E reason \in {"profile", "disconnect"} :
       /\ Granted(reason)
       /\ IF state \in {"connected", "self-connecting"}
          THEN BeginDisconnect("disconnect", reason = "profile")
          ELSE Refused

\* The user's request disconnects the connected device first, this one or
\* another; what becomes of another one is not modelled here.
UserConnect ==
    /\ Granted("user")
    /\ IF state = "connected" THEN BeginDisconnect("user", FALSE)
       ELSE /\ state' = "connecting"
            /\ holder' = "user"
            /\ pc' = "pairing"
            /\ UNCHANGED <<profileVars, current, wifiVars, transport>>

(***************************************************************************)
(* waitForConnection: the socket that is there, or the next one.           *)
(***************************************************************************)
AwaitProfile(a) ==
    \/ profile # "none" /\ StartAttempt(a, profile) /\ UNCHANGED connectionCallback
    \/ /\ profile = "none"
       /\ connectionCallback' = TRUE
       /\ pc' = "profile"
       /\ UNCHANGED <<profile, disconnectionCallback, guards, current, wifiVars>>

\* A phone that has connected by itself is connected over the profile it opened.
SelfConnect(a) ==
    /\ Granted("self")
    /\ state \in {"available", "self-connecting"}
    /\ state' = "connecting"
    /\ holder' = "self"
    /\ AwaitProfile(a)
    /\ UNCHANGED transport

\* It is refused when a device is connected, this one or another.
RefuseSelfConnect ==
    /\ Granted("self")
    /\ IF state \in {"connected", "self-connecting"}
       THEN BeginDisconnect("disconnect", FALSE)
       ELSE Refused

\* Paired, Pair and Connect have settled.
Paired(a) ==
    /\ pc = "pairing"
    /\ AwaitProfile(a)
    /\ UNCHANGED <<state, calls, holder, transport>>

Idle == pc' = "idle" /\ holder' = "none"

PairingFails ==
    /\ pc = "pairing"
    /\ state' = "available"
    /\ Idle
    /\ UNCHANGED <<calls, profileVars, current, wifiVars, transport>>

ProfileTimeout ==
    /\ ~JobReady
    /\ pc = "profile"
    /\ connectionCallback' = FALSE
    /\ pc' = "parting"
    /\ UNCHANGED <<state, calls, holder, profile, disconnectionCallback, guards,
                   current, wifiVars, transport>>

(***************************************************************************)
(* Disconnect of BlueZ has settled; if it has worked the profile is cut.   *)
(* The device is available again, and the user's request that had to       *)
(* disconnect it goes on to connect it.                                    *)
(***************************************************************************)
Parted ==
    /\ pc = "parting"
    /\ \/ UNCHANGED profile
       \/ profile = "open" /\ profile' = "destroyed"
    /\ IF holder = "user" /\ state = "disconnecting"
       THEN state' = "connecting" /\ pc' = "pairing" /\ UNCHANGED holder
       ELSE state' = "available" /\ Idle
    /\ UNCHANGED <<calls, connectionCallback, disconnectionCallback, guards, current,
                   wifiVars, transport>>

\* doStart of the control service settles; if it has failed the device is
\* disconnected.
Started ==
    /\ pc = "starting"
    /\ Idle
    /\ UNCHANGED <<state, calls, profileVars, current, wifiVars, transport>>

StartFails ==
    /\ pc = "starting"
    /\ BeginDisconnect("disconnect", FALSE)
    /\ UNCHANGED calls

-----------------------------------------------------------------------------
(***************************************************************************)
(* The WiFi connector.  clearAndAbort ends the waits for a message that    *)
(* attempt a has on its signal.                                            *)
(***************************************************************************)
ClearAndAbort(a) ==
    /\ messageCallbacks' = [t \in MessageTypes |->
                              IF <<a, t>> \in listeners THEN None ELSE messageCallbacks[t]]
    /\ listeners' = {l \in listeners : l[1] # a}

Doing(a) == IF attempt[a].doing = "waiting" THEN "nothing" ELSE attempt[a].doing

\* The WiFi part of a fails: the time is up, the status is bad, or a write or an
\* assertion of doConnection failed, after which a does `next`.
WifiFails(a, next) ==
    /\ attempt' = [attempt EXCEPT ![a] = [phase |-> "over", doing |-> next]]
    /\ ClearAndAbort(a)
    /\ Reject(a)

\* Mutant: when the time is up the signal is not aborted.
WifiTimeout_KeepCallbacks(a) ==
    /\ ~JobReady
    /\ attempt[a].phase = "wifi"
    /\ attempt' = [attempt EXCEPT ![a] = [phase |-> "over", doing |-> Doing(a)]]
    /\ Reject(a)
    /\ UNCHANGED <<messageCallbacks, listeners>>
    /\ UNCHANGED <<state, calls, holder, transport>>

WifiTimeout(a) ==
    /\ ~JobReady
    /\ attempt[a].phase = "wifi"
    /\ WifiFails(a, Doing(a))
    /\ UNCHANGED <<state, calls, holder, transport>>

\* A write of doConnection fails.  It only matters while WiFi is awaited.
WriteFails(a) ==
    /\ ~JobReady
    /\ attempt[a].doing \in {"writing", "responding"}
    /\ IF attempt[a].phase = "wifi"
       THEN WifiFails(a, "nothing")
       ELSE /\ attempt' = [attempt EXCEPT ![a].doing = "nothing"]
            /\ UNCHANGED <<messageCallbacks, listeners, profileVars, current, pc>>
    /\ UNCHANGED <<state, calls, holder, transport>>

(***************************************************************************)
(* The first message is written, and doConnection waits for the request.   *)
(* On a signal that has been aborted meanwhile the wait has no listener.   *)
(* If somebody waits for a request already, the assertion fails.           *)
(***************************************************************************)
RequestWritten(a) ==
    /\ ~JobReady
    /\ attempt[a].doing = "writing"
    /\ \/ /\ messageCallbacks["networkInfoRequest"] = None
          /\ attempt' = [attempt EXCEPT ![a].doing = "waiting"]
          /\ messageCallbacks' = [messageCallbacks EXCEPT !["networkInfoRequest"] = a]
          /\ listeners' = IF attempt[a].phase = "wifi"
                          THEN listeners \cup {<<a, "networkInfoRequest">>} ELSE listeners
          /\ UNCHANGED <<profileVars, current, pc>>
       \/ /\ messageCallbacks["networkInfoRequest"] # None
          /\ attempt[a].phase = "wifi"
          /\ WifiFails(a, "nothing")
       \/ /\ messageCallbacks["networkInfoRequest"] # None
          /\ attempt[a].phase # "wifi"
          /\ attempt' = [attempt EXCEPT ![a].doing = "nothing"]
          /\ UNCHANGED <<messageCallbacks, listeners, profileVars, current, pc>>
    /\ UNCHANGED <<state, calls, holder, transport>>

ResponseWritten(a) ==
    /\ ~JobReady
    /\ attempt[a].doing = "responding"
    /\ attempt' = [attempt EXCEPT ![a].doing = "nothing"]
    /\ UNCHANGED <<state, calls, holder, pc, profileVars, current, messageCallbacks,
                   listeners, transport>>

(***************************************************************************)
(* A message of the phone.  The data of a socket reaches the connector     *)
(* while an attempt on that socket awaits WiFi; that is the current one.   *)
(* It goes to whichever attempt waits for its type.                        *)
(***************************************************************************)
Delivered(a, type) ==
    /\ ~JobReady
    /\ profile = "open"
    /\ current # None /\ attempt[current].phase = "wifi"
    /\ messageCallbacks[type] = a

OnNetworkInfoRequest(a) ==
    /\ Delivered(a, "networkInfoRequest")
    /\ messageCallbacks' = [messageCallbacks EXCEPT !["networkInfoRequest"] = None]
    /\ listeners' = listeners \ {<<a, "networkInfoRequest">>}
    /\ attempt' = [attempt EXCEPT ![a].doing = "responding"]
    /\ UNCHANGED <<state, calls, holder, pc, profileVars, current, transport>>

\* The phone is on the WiFi network: the TCP connection is awaited next.
OnConnectStatus(a) ==
    /\ Delivered(a, "connectStatus")
    /\ attempt' = [attempt EXCEPT ![a] = [phase |-> "tcp", doing |-> Doing(a)]]
    /\ ClearAndAbort(a)
    /\ UNCHANGED <<state, calls, holder, pc, profileVars, current, transport>>

OnConnectStatusBad(a) ==
    /\ Delivered(a, "connectStatus")
    /\ WifiFails(a, Doing(a))
    /\ UNCHANGED <<state, calls, holder, transport>>

-----------------------------------------------------------------------------
(***************************************************************************)
(* The TCP connector.  A connection is given to every attempt that listens.*)
(* If one of them is the current one, connectImpl is done with it.         *)
(***************************************************************************)
Listening == {a \in Attempts : attempt[a].phase = "tcp"}

\* Mutant: the wait for the end of the profile is not aborted on success.
TcpConnected_KeepWait ==
    /\ ~JobReady
    /\ Listening # {}
    /\ attempt' = [a \in Attempts |->
                     IF a \in Listening THEN [attempt[a] EXCEPT !.phase = "over"] ELSE attempt[a]]
    /\ IF current \in Listening
       THEN /\ state' = "connected"
            /\ transport' = TRUE
            /\ pc' = "starting"
            /\ current' = None
       ELSE UNCHANGED <<state, transport, pc, current>>
    /\ UNCHANGED <<calls, holder, profileVars, messageCallbacks, listeners>>

TcpConnected ==
    /\ ~JobReady
    /\ Listening # {}
    /\ attempt' = [a \in Attempts |->
                     IF a \in Listening THEN [attempt[a] EXCEPT !.phase = "over"] ELSE attempt[a]]
    /\ disconnectionCallback' = ClearedBy(Listening)
    /\ guards' = guards \ Listening
    /\ IF current \in Listening
       THEN /\ state' = "connected"
            /\ transport' = TRUE
            /\ pc' = "starting"
            /\ current' = None
       ELSE UNCHANGED <<state, transport, pc, current>>
    /\ UNCHANGED <<calls, holder, profile, connectionCallback, messageCallbacks, listeners>>

TcpTimeout(a) ==
    /\ ~JobReady
    /\ attempt[a].phase = "tcp"
    /\ attempt' = [attempt EXCEPT ![a].phase = "over"]
    /\ Reject(a)
    /\ UNCHANGED <<state, calls, holder, messageCallbacks, listeners, transport>>

-----------------------------------------------------------------------------
Environment ==
    \/ UserConnects \/ Disconnects \/ TransportEnds
    \/ ProfileUnexpected
    \/ \E a \in Attempts : ProfileExpected(a)
    \/ TcpConnected
    \/ \E a \in Attempts :
         OnNetworkInfoRequest(a) \/ OnConnectStatus(a) \/ OnConnectStatusBad(a)

\* The server, BlueZ and the timers go on.
Serve ==
    \/ Disconnect \/ UserConnect \/ RefuseSelfConnect
    \/ \E a \in Attempts : SelfConnect(a)

Settle ==
    \/ PairingFails \/ ProfileTimeout \/ Parted \/ Started \/ StartFails
    \/ \E a \in Attempts : Paired(a)

AttemptEnds(a) == WifiTimeout(a) \/ TcpTimeout(a)
WriteEnds(a) == RequestWritten(a) \/ ResponseWritten(a) \/ WriteFails(a)

Next ==
    \/ Environment
    \/ ProfileCloses
    \/ Serve
    \/ Settle
    \/ \E a \in Attempts : AttemptEnds(a) \/ WriteEnds(a)

Fairness ==
    /\ WF_vars(Serve)
    /\ WF_vars(Settle)
    /\ WF_vars(profile = "destroyed" /\ ProfileCloses)
    /\ \A a \in Attempts : WF_vars(AttemptEnds(a)) /\ WF_vars(WriteEnds(a))

Spec == Init /\ [][Next]_vars /\ Fairness

-----------------------------------------------------------------------------
(***************************************************************************)
(* Properties.                                                             *)
(***************************************************************************)
\* A callback of the profile handler is registered exactly while its wait is
\* the one the lock's holder is in: no wait that has been given up swallows the
\* event of a later one, and none that is awaited has lost its callback.
WaitsAreAwaited ==
    /\ connectionCallback <=> pc = "profile"
    /\ current # None <=> pc = "linking"
    /\ disconnectionCallback = CASE pc = "closing" -> "close"
                                 [] pc = "linking" -> current
                                 [] OTHER -> None

Asked(reasons) == \E i \in 1 .. Len(calls) : calls[i] \in reasons

\* While a device is connected its profile and its transport are there, or a
\* call that disconnects it is on its way: neither loss is swallowed by a wait
\* of connectImpl, though both may come at any point of it.
LossIsNoticed ==
    state = "connected" =>
        /\ profile = "none" => Asked({"profile", "disconnect"})
        /\ ~transport => Asked({"disconnect"})

\* Whoever waits for a message of the phone awaits WiFi, as the current attempt
\* or one whose profile ended under it, and its timer will end the wait; or it
\* was aborted in the middle of its first write and waits for ever.  With one
\* of the last two the next attempt fails at waitForMessage's assertion.
MessageWaitsEnd ==
    \A t \in MessageTypes, a \in Attempts :
        messageCallbacks[t] = a =>
            \/ attempt[a].phase = "wifi" /\ <<a, t>> \in listeners
            \/ /\ t = "networkInfoRequest"
               /\ attempt[a].phase # "wifi" /\ attempt[a].doing = "waiting"

\* connectImpl and disconnectImpl settle, whatever phone and BlueZ do, so the
\* lock is released.
Settles == pc # "idle" ~> pc = "idle"

=============================================================================
