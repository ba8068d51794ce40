----------------------------- MODULE Connection -----------------------------
(***************************************************************************)
(* AndroidAutoServer's connection management: which device the head unit   *)
(* is connected to, and how it changes.                                    *)
(*                                                                         *)
(* Users, devices, transports and the pinger ask for a device to be added, *)
(* removed, connected or disconnected by calling an async method of the    *)
(* server.  Each method first awaits connectionLock, a FIFO mutex, so a    *)
(* call that has not got the lock yet is a request in `queue`, and the one *)
(* that has it is `holder`.  The holder suspends in the device's           *)
(* connectImpl or disconnectImpl and in the control service's doStart;     *)
(* `pc` says where.  Between two suspensions it runs alone (JavaScript),   *)
(* so one action is the code from one await to the next.                   *)
(*                                                                         *)
(* The reason of a connection is part of the request.  Of the reasons of a *)
(* disconnection only one thing is kept, whether it makes                  *)
(* disconnectDeviceAsyncLocked stop the dependencies: those of queued      *)
(* requests all do.                                                        *)
(***************************************************************************)
EXTENDS Dependencies, Sequences, FiniteSets

CONSTANTS
    Devices,    \* the Device objects the device handlers ever create
    NoDevice,   \* the server's "undefined"
    Bluetooth,  \* the BluetoothDevice objects, which may connect by themselves
    Names,      \* device names, the keys of nameDeviceMap
    NameOf,     \* NameOf[d] is the name of device d
    MaxPending  \* bound on the requests waiting for the lock

ASSUME ConnectionAssumption ==
    /\ NoDevice \notin Devices
    /\ Bluetooth \subseteq Devices
    /\ NameOf \in [Devices -> Names]
    /\ MaxPending \in Nat

VARIABLES
    handler,          \* handler[d]: where d is in its handler's deviceMap
    nameDeviceMap,    \* the devices the user can name
    state,            \* state[d]: the state of the Device object
    transport,        \* transport[d]: d's transport delivers data and its end
    connectedDevice,  \* the device of the current connection
    deps,             \* the started flags of the dependencies
    queue,            \* calls that await connectionLock
    holder,           \* the call that holds connectionLock
    pc                \* where the holder is suspended

vars == <<handler, nameDeviceMap, state, transport, connectedDevice, deps,
          queue, holder, pc>>

DeviceStates == {"unknown", "needs-reset", "available", "connecting",
                 "self-connecting", "connected", "unsupported",
                 "disconnecting"}

\* The states a device is in when its handler announces it, after probe.
ProbedStates == {"available", "unsupported", "needs-reset"}

ConnectOps == {"userConnect", "selfConnect"}
Request == [op : ConnectOps \cup {"disconnect", "add", "remove"}, dev : Devices]
NoRequest == [op |-> "none", dev |-> NoDevice]

\* "switching" and "disconnecting": in device.disconnect, before or after the
\* connection proper; "connect": about to call device.connect; "connecting": in
\* connectImpl; "starting": in doStart.
Suspended == {"switching", "connect", "connecting", "starting", "disconnecting"}

TypeOK ==
    /\ handler \in [Devices -> {"absent", "present", "gone"}]
    /\ nameDeviceMap \in [Names -> Devices \cup {NoDevice}]
    /\ state \in [Devices -> DeviceStates]
    /\ transport \in [Devices -> BOOLEAN]
    /\ connectedDevice \in Devices \cup {NoDevice}
    /\ deps \in DependencyStates
    /\ queue \in Seq(Request)
    /\ holder \in Request \cup {NoRequest}
    /\ pc \in Suspended \cup {"idle"}

Init ==
    /\ handler = [d \in Devices |-> "absent"]
    /\ nameDeviceMap = [n \in Names |-> NoDevice]
    /\ state = [d \in Devices |-> "unknown"]
    /\ transport = [d \in Devices |-> FALSE]
    /\ connectedDevice = NoDevice
    /\ deps = AllStopped
    /\ queue = <<>>
    /\ holder = NoRequest
    /\ pc = "idle"

-----------------------------------------------------------------------------
(***************************************************************************)
(* A continuation of the server is ready: the lock can be granted, or what *)
(* the holder awaits has settled without waiting for anything outside.     *)
(* Promise jobs run before the next event is taken, so no event comes in   *)
(* between.                                                                *)
(***************************************************************************)
JobReady ==
    \/ pc = "idle" /\ queue # <<>>
    \/ pc = "connect"
    \/ pc = "disconnecting" /\ state[holder.dev] # "disconnecting"

(***************************************************************************)
(* Events: somebody calls one of the async methods, which awaits the lock. *)
(* MaxPending bounds the calls that wait.                                  *)
(***************************************************************************)
Enqueue(op, d) ==
    /\ ~JobReady
    /\ Len(queue) < MaxPending
    /\ queue' = Append(queue, [op |-> op, dev |-> d])
    /\ UNCHANGED <<connectedDevice, deps, holder, pc, nameDeviceMap>>

\* Nothing of the server refers to d any more.
Forgotten(d) ==
    /\ nameDeviceMap[NameOf[d]] # d
    /\ connectedDevice # d
    /\ holder.dev # d
    /\ \A i \in 1 .. Len(queue) : queue[i].dev # d

\* A handler has created and probed d, and announces it.  A device that comes
\* back is a new object, for which the name of a forgotten one is used again.
OnDeviceAdded(d) ==
    /\ handler[d] = "absent" \/ (handler[d] = "gone" /\ Forgotten(d))
    /\ handler' = [handler EXCEPT ![d] = "present"]
    /\ \E s \in ProbedStates : state' = [state EXCEPT ![d] = s]
    /\ Enqueue("add", d)
    /\ UNCHANGED transport

\* A handler announces that d, which it had announced, is gone.
OnDeviceRemoved(d) ==
    /\ handler[d] = "present"
    /\ handler' = [handler EXCEPT ![d] = "gone"]
    /\ Enqueue("remove", d)
    /\ UNCHANGED <<state, transport>>

\* The user connects or disconnects a device by its name.
ConnectDeviceName(d) ==
    /\ nameDeviceMap[NameOf[d]] = d
    /\ Enqueue("userConnect", d)
    /\ UNCHANGED <<handler, state, transport>>

DisconnectDeviceName(d) ==
    /\ nameDeviceMap[NameOf[d]] = d
    /\ Enqueue("disconnect", d)
    /\ UNCHANGED <<handler, state, transport>>

(***************************************************************************)
(* The Bluetooth profile of d connects while nobody waits for it; d only   *)
(* connects by itself from AVAILABLE.  Its handler is registered for the   *)
(* profile while d is in the deviceMap.                                    *)
(***************************************************************************)
OnBluetoothProfileSelfConnected(d) ==
    /\ d \in Bluetooth
    /\ handler[d] = "present"
    /\ state[d] = "available"
    /\ state' = [state EXCEPT ![d] = "self-connecting"]
    /\ Enqueue("selfConnect", d)
    /\ UNCHANGED <<handler, transport>>

\* The Bluetooth profile of d disconnects, whatever the state of d.
OnBluetoothProfileSelfDisconnected(d) ==
    /\ d \in Bluetooth
    /\ handler[d] # "absent"
    /\ Enqueue("disconnect", d)
    /\ UNCHANGED <<handler, state, transport>>

\* The transport of d ends; its listeners are detached as it does.
OnDisconnected(d) ==
    /\ transport[d]
    /\ transport' = [transport EXCEPT ![d] = FALSE]
    /\ Enqueue("disconnect", d)
    /\ UNCHANGED <<handler, state>>

(***************************************************************************)
(* The control service asks for a disconnection: its pinger, which runs    *)
(* while it is started, saw no answer, or a bye-bye came over a transport. *)
(* The device is the one connected now.                                    *)
(***************************************************************************)
OnSelfDisconnect ==
    /\ deps.control \/ \E d \in Devices : transport[d]
    /\ connectedDevice # NoDevice
    /\ Enqueue("disconnect", connectedDevice)
    /\ UNCHANGED <<handler, state, transport>>

-----------------------------------------------------------------------------
(***************************************************************************)
(* The lock is granted to the head of the queue when nobody holds it.      *)
(***************************************************************************)
Granted(op) ==
    /\ pc = "idle"
    /\ queue # <<>>
    /\ Head(queue).op = op
    /\ queue' = Tail(queue)

HolderBecomes(r, where) == holder' = r /\ pc' = where

Release == HolderBecomes(NoRequest, "idle")

\* addDeviceLocked and removeDeviceLocked run without suspending.
AddDevice ==
    /\ Granted("add")
    /\ nameDeviceMap' =
         [nameDeviceMap EXCEPT ![NameOf[Head(queue).dev]] = Head(queue).dev]
    /\ UNCHANGED <<handler, state, transport, connectedDevice, deps, holder, pc>>

\* Mutant: the device that is connected is not taken off the list.
RemoveDevice_UnlessConnected ==
    /\ Granted("remove")
    /\ nameDeviceMap' =
         IF connectedDevice = Head(queue).dev THEN nameDeviceMap
         ELSE [nameDeviceMap EXCEPT ![NameOf[Head(queue).dev]] = NoDevice]
    /\ UNCHANGED <<handler, state, transport, connectedDevice, deps, holder, pc>>

RemoveDevice ==
    /\ Granted("remove")
    /\ nameDeviceMap' =
         [nameDeviceMap EXCEPT ![NameOf[Head(queue).dev]] = NoDevice]
    /\ UNCHANGED <<handler, state, transport, connectedDevice, deps, holder, pc>>

(***************************************************************************)
(* disconnectDeviceAsyncLocked(d, reason) up to the await in disconnectImpl:*)
(* the dependencies are stopped unless the reason says otherwise, whether  *)
(* or not d is the connected device; then device.disconnect does nothing   *)
(* for a device that is neither connected nor connecting by itself, and    *)
(* disconnectImpl begins by detaching the transport.                       *)
(***************************************************************************)
BeginDisconnect(d, stopsDependencies) ==
    /\ IF stopsDependencies THEN deps' \in StopDependencies(deps) ELSE UNCHANGED deps
    /\ IF state[d] \in {"connected", "self-connecting"}
       THEN /\ state' = [state EXCEPT ![d] = "disconnecting"]
            /\ transport' = [transport EXCEPT ![d] = FALSE]
       ELSE UNCHANGED <<state, transport>>

(***************************************************************************)
(* The rest of it: disconnectImpl has settled, either way, and the device  *)
(* is available again; the connection is over if it was this device's.     *)
(***************************************************************************)
EndDisconnect(d) ==
    /\ state' = [state EXCEPT ![d] = IF @ = "disconnecting" THEN "available" ELSE @]
    /\ connectedDevice' = IF connectedDevice = d THEN NoDevice ELSE connectedDevice

DisconnectDevice ==
    /\ Granted("disconnect")
    /\ BeginDisconnect(Head(queue).dev, TRUE)
    /\ HolderBecomes(Head(queue), "disconnecting")
    /\ UNCHANGED <<handler, nameDeviceMap, connectedDevice>>

\* disconnect returns, as the last thing the holder does.
Disconnected ==
    /\ pc = "disconnecting"
    /\ EndDisconnect(holder.dev)
    /\ Release
    /\ UNCHANGED <<handler, nameDeviceMap, transport, deps, queue>>

-----------------------------------------------------------------------------
(***************************************************************************)
(* connectDeviceAsyncLocked.                                               *)
(***************************************************************************)
\* Somebody is connected already: a self-connection is refused ...
\* Mutant: it is dropped, without a disconnection.
RefuseSelfConnect_Drop ==
    /\ Granted("selfConnect")
    /\ connectedDevice # NoDevice
    /\ UNCHANGED <<handler, nameDeviceMap, state, transport, connectedDevice,
                   deps, holder, pc>>

\* Mutant: the dependencies are stopped as for every other reason.
RefuseSelfConnect_Stops ==
    /\ Granted("selfConnect")
    /\ connectedDevice # NoDevice
    /\ BeginDisconnect(Head(queue).dev, TRUE)
    /\ HolderBecomes(Head(queue), "disconnecting")
    /\ UNCHANGED <<handler, nameDeviceMap, connectedDevice>>

RefuseSelfConnect ==
    /\ Granted("selfConnect")
    /\ connectedDevice # NoDevice
    /\ BeginDisconnect(Head(queue).dev, FALSE)
    /\ HolderBecomes(Head(queue), "disconnecting")
    /\ UNCHANGED <<handler, nameDeviceMap, connectedDevice>>

\* ... and for the user the connected device is disconnected first.
SwitchDevice ==
    /\ Granted("userConnect")
    /\ connectedDevice # NoDevice
    /\ BeginDisconnect(connectedDevice, TRUE)
    /\ HolderBecomes(Head(queue), "switching")
    /\ UNCHANGED <<handler, nameDeviceMap, connectedDevice>>

\* Mutant: the connection is not over when the next device is connected.
Switched_KeepConnected ==
    /\ pc = "switching"
    /\ state' = [state EXCEPT ![connectedDevice] = "available"]
    /\ HolderBecomes(holder, "connect")
    /\ UNCHANGED <<handler, nameDeviceMap, transport, connectedDevice, deps, queue>>

Switched ==
    /\ pc = "switching"
    /\ EndDisconnect(connectedDevice)
    /\ HolderBecomes(holder, "connect")
    /\ UNCHANGED <<handler, nameDeviceMap, transport, deps, queue>>

AdmitConnect ==
    /\ \E op \in ConnectOps : Granted(op)
    /\ connectedDevice = NoDevice
    /\ HolderBecomes(Head(queue), "connect")
    /\ UNCHANGED <<handler, nameDeviceMap, state, transport, connectedDevice, deps>>

\* device.connect throws in a state it cannot connect from, which is logged.
\* Mutant: the error path forgets to release the lock.
RejectConnect_KeepLock ==
    /\ pc = "connect"
    /\ state[holder.dev] \notin {"available", "self-connecting"}
    /\ UNCHANGED vars

RejectConnect ==
    /\ pc = "connect"
    /\ state[holder.dev] \notin {"available", "self-connecting"}
    /\ Release
    /\ UNCHANGED <<handler, nameDeviceMap, state, transport, connectedDevice,
                   deps, queue>>

BeginConnect ==
    /\ pc = "connect"
    /\ state[holder.dev] \in {"available", "self-connecting"}
    /\ state' = [state EXCEPT ![holder.dev] = "connecting"]
    /\ HolderBecomes(holder, "connecting")
    /\ UNCHANGED <<handler, nameDeviceMap, transport, connectedDevice, deps, queue>>

\* connectImpl fails, and the device is available again.
ConnectFailed ==
    /\ pc = "connecting"
    /\ state' = [state EXCEPT ![holder.dev] = "available"]
    /\ Release
    /\ UNCHANGED <<handler, nameDeviceMap, transport, connectedDevice, deps, queue>>

\* connectImpl succeeds; the dependencies start, and the session with them.
Connected ==
    /\ pc = "connecting"
    /\ \E r \in StartDependencies(deps) : r.ok /\ deps' = r.deps
    /\ state' = [state EXCEPT ![holder.dev] = "connected"]
    /\ transport' = [transport EXCEPT ![holder.dev] = TRUE]
    /\ connectedDevice' = holder.dev
    /\ HolderBecomes(holder, "starting")
    /\ UNCHANGED <<handler, nameDeviceMap, queue>>

\* connectImpl succeeds but startDependencies throws: the device, connected for
\* the length of this step, is disconnected with START_FAILED.
StartFailed ==
    /\ pc = "connecting"
    /\ \E r \in StartDependencies(deps) : ~r.ok /\ deps' = r.deps
    /\ state' = [state EXCEPT ![holder.dev] = "disconnecting"]
    /\ connectedDevice' = holder.dev
    /\ HolderBecomes(holder, "disconnecting")
    /\ UNCHANGED <<handler, nameDeviceMap, transport, queue>>

\* doStart resolves ...
SessionStarted ==
    /\ pc = "starting"
    /\ Release
    /\ UNCHANGED <<handler, nameDeviceMap, state, transport, connectedDevice,
                   deps, queue>>

\* ... or rejects, and the device is disconnected with DO_START_FAILED.
DoStartFailed ==
    /\ pc = "starting"
    /\ BeginDisconnect(holder.dev, TRUE)
    /\ HolderBecomes(holder, "disconnecting")
    /\ UNCHANGED <<handler, nameDeviceMap, connectedDevice, queue>>

-----------------------------------------------------------------------------
Event ==
    \/ \E d \in Devices :
         \/ OnDeviceAdded(d) \/ OnDeviceRemoved(d)
         \/ ConnectDeviceName(d) \/ DisconnectDeviceName(d)
         \/ OnBluetoothProfileSelfConnected(d)
         \/ OnBluetoothProfileSelfDisconnected(d)
         \/ OnDisconnected(d)
    \/ OnSelfDisconnect

\* What the server itself does next, when connectImpl and disconnectImpl settle.
Progress ==
    \/ AddDevice \/ RemoveDevice \/ DisconnectDevice \/ Disconnected
    \/ RefuseSelfConnect \/ SwitchDevice \/ Switched \/ AdmitConnect
    \/ RejectConnect \/ BeginConnect
    \/ ConnectFailed \/ Connected \/ StartFailed

\* doStart settles, which it may never do.
DoStartSettles == SessionStarted \/ DoStartFailed

Next == Event \/ Progress \/ DoStartSettles

Spec == Init /\ [][Next]_vars

\* A promise continuation that can run is run, and connectImpl and
\* disconnectImpl settle: each awaits with a timeout or a callback that comes.
\* Nothing is assumed of doStart.
FairSpec == Spec /\ WF_vars(Progress)

-----------------------------------------------------------------------------
(***************************************************************************)
(* Safety.                                                                 *)
(***************************************************************************)
\* At most one device's transport delivers data at any time: the data handler
\* ignores which device it comes from and feeds one frame codec, so two would
\* be decoded as one stream.
SingleTransport ==
    \A d, e \in Devices : transport[d] /\ transport[e] => d = e

\* At most one device is linked or being linked, and while one is being linked
\* there is no current connection.
SingleLink ==
    /\ \A d, e \in Devices :
         /\ state[d] \in {"connecting", "connected"}
         /\ state[e] \in {"connecting", "connected"}
         => d = e
    /\ \A d \in Devices : state[d] = "connecting" => connectedDevice = NoDevice

\* The server and the Device objects agree on who is connected: a device that
\* says it is connected is the server's, and the server's device is connected
\* or on its way to being disconnected by the holder of the lock.
ConnectionAgreement ==
    \A d \in Devices :
        /\ state[d] = "connected" => connectedDevice = d
        /\ connectedDevice = d =>
             \/ state[d] = "connected"
             \/ state[d] = "disconnecting" /\ pc \in {"switching", "disconnecting"}

\* A device only changes hands under the lock: one that is being connected or
\* disconnected is the business of the holder, nobody is connected while the
\* holder connects a device, and only a connected device has a transport.
TransitionsUnderLock ==
    /\ pc = "idle" <=> holder = NoRequest
    /\ pc \in {"connect", "connecting"} =>
         connectedDevice = NoDevice /\ holder.op \in ConnectOps
    /\ pc = "switching" => connectedDevice # NoDevice /\ holder.op = "userConnect"
    /\ pc = "starting" => connectedDevice = holder.dev
    /\ \A d \in Devices :
         /\ state[d] = "connecting" <=> pc = "connecting" /\ holder.dev = d
         /\ state[d] = "disconnecting" =>
              \/ pc = "switching" /\ connectedDevice = d
              \/ pc = "disconnecting" /\ holder.dev = d
         /\ transport[d] => state[d] = "connected"

\* A device that is connecting by itself always has an answer coming: its
\* request is still queued, or it is the one being connected.
SelfConnectPending ==
    \A d \in Devices : state[d] = "self-connecting" =>
        \/ \E i \in 1 .. Len(queue) : queue[i] = [op |-> "selfConnect", dev |-> d]
        \/ pc = "connect" /\ holder = [op |-> "selfConnect", dev |-> d]

\* The devices the user is shown follow the handlers: a device that is gone and
\* still listed has its removal queued, and one that is present and not listed
\* its addition (the second only when no two devices share a name).
DevicesFollowHandlers ==
    \A d \in Devices :
        /\ handler[d] = "gone" /\ nameDeviceMap[NameOf[d]] = d =>
             \E i \in 1 .. Len(queue) : queue[i] = [op |-> "remove", dev |-> d]
        /\ handler[d] = "present" /\ nameDeviceMap[NameOf[d]] # d =>
             \/ \E i \in 1 .. Len(queue) : queue[i] = [op |-> "add", dev |-> d]
             \/ \E e \in Devices \ {d} : NameOf[e] = NameOf[d]

\* The dependencies are never left half started, when no stop of a service
\* throws by itself: startDependencies and stopDependencies undo or finish what
\* they began, whatever state they are called in.
AllOrNothing == deps \in {AllStarted, AllStopped}

\* The control service, whose pinger watches the session, only runs on top of
\* everything else, even when the stop of a service throws.
ControlRunsLast == deps.control => deps = AllStarted

\* No session is left running without a connection: holds while no device can
\* connect by itself and no stop throws.
NoLeakedSession == deps # AllStopped => connectedDevice # NoDevice

-----------------------------------------------------------------------------
(***************************************************************************)
(* What a step may never do.                                               *)
(***************************************************************************)
\* The current connection ends before another begins, and it ends with its
\* device available again, its transport detached.
ConnectionEndsFirst ==
    [][connectedDevice # NoDevice /\ connectedDevice' # connectedDevice =>
         /\ connectedDevice' = NoDevice
         /\ state'[connectedDevice] = "available"
         /\ ~transport'[connectedDevice]]_vars

\* A device has its whole session from the step that connects it, and as long as
\* it is connected, but for one case: a request to disconnect another device is
\* served, which stops the dependencies before it finds nothing to disconnect.
HasOrKeepsSession(d) ==
    \/ deps' = AllStarted
    \/ state[d] = "connected" /\ deps # AllStarted
    \/ state[d] = "connected" /\ Granted("disconnect") /\ Head(queue).dev # d

SessionKept ==
    [][\A d \in Devices : state'[d] = "connected" => HasOrKeepsSession(d)]_vars

\* The assertion of NodeCryptor.start: the cryptor is stopped when a device has
\* connected and the dependencies are started.
CryptorStartAssertion ==
    [][Connected \/ StartFailed => ~deps.cryptor]_vars

-----------------------------------------------------------------------------
(***************************************************************************)
(* Liveness.  A doStart that never settles keeps the lock for ever; unless *)
(* that happens, every call is answered.                                   *)
(***************************************************************************)
DoStartHangs == <>[](pc = "starting")

\* The lock is always released again.
LockReleased == DoStartHangs \/ []<>(pc = "idle")

\* A device that connects by itself is connected or sent away.
SelfConnectAnswered ==
    DoStartHangs \/
    \A d \in Devices : state[d] = "self-connecting" ~> state[d] # "self-connecting"

-----------------------------------------------------------------------------
(***************************************************************************)
(* Connection implements ConnectionSlot.  The slot is the connected        *)
(* device's or, before there is one, that of the device being connected.   *)
(***************************************************************************)
SlotDevice == IF pc = "connecting" THEN holder.dev ELSE connectedDevice

SlotPhase ==
    IF pc = "connecting" THEN "opening"
    ELSE IF connectedDevice = NoDevice THEN "free"
    ELSE IF state[connectedDevice] = "connected" THEN "open"
    ELSE "closing"

Slot == INSTANCE ConnectionSlot WITH slot <- SlotDevice, phase <- SlotPhase

\* Devices are connected one at a time, each link closed before the next one is
\* opened, and none stays half open or half closed.
ImplementsSlot == Slot!SlotSpec

=============================================================================
