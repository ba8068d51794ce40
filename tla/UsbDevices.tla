----------------------------- MODULE UsbDevices -----------------------------
(***************************************************************************)
(* UsbDeviceHandler and its devices: which phones on the USB are listed.   *)
(*                                                                         *)
(* A phone that is plugged in is a new object of the usb library (an impl, *)
(* here), and so is the same phone once it has switched to or from         *)
(* accessory mode: it leaves the bus and comes back with the same serial   *)
(* number.  The handler hears of it by attach and detach events, and by    *)
(* the list it asks for when it starts; it opens and probes every impl     *)
(* with deviceMapLock, a FIFO mutex, held, and lists a Device under the    *)
(* serial number.  `holder` is the call that has the lock, suspended in a  *)
(* transfer to the phone; one action is the code from one await to the     *)
(* next.  The bus changes at any time, whatever the handler is doing.      *)
(*                                                                         *)
(* An impl is listed at most twice, once from the list and once because of *)
(* an event, so a Device object is named by its impl and by which it was.  *)
(***************************************************************************)
EXTENDS Naturals, Sequences

CONSTANTS
    Impls,      \* objects of the usb library
    Serials,    \* serial numbers
    SerialOf,   \* SerialOf[i] is the serial number of i
    Accessory,  \* the impls whose product id is one of GOOGLE_AOAP_IDS
    None,       \* no serial number, and no impl
    MaxEvents   \* bound on the changes of the bus not yet delivered

ASSUME UsbAssumption ==
    /\ None \notin Serials \cup Impls
    /\ SerialOf \in [Impls -> Serials]
    /\ Accessory \subseteq Impls
    /\ MaxEvents \in Nat

VARIABLES
    bus,              \* the impls that are plugged in
    hotplug,          \* events of the usb library not yet delivered
    phase,            \* how far waitForDevices is
    before,           \* the impls that were there before it listened
    toList,           \* the part of getDeviceList not yet added
    queue,            \* calls that await deviceMapLock
    holder,           \* the call that has it
    deviceMap,        \* the Device listed under a serial number
    implUniqueIdMap,  \* the serial number an impl is listed under
    device            \* the state of the Device objects

vars == <<bus, hotplug, phase, before, toList, queue, holder, deviceMap,
          implUniqueIdMap, device>>

Devices == [impl : Impls, existing : BOOLEAN]
NoDevice == [impl |-> None, existing |-> FALSE]

Steps == {"create", "probe", "reset"}
Idle == [step |-> "idle", dev |-> NoDevice]

AddCall(i, existing) == [op |-> "add", dev |-> [impl |-> i, existing |-> existing]]
RemoveCall(s) == [op |-> "remove", serial |-> s]
Waiting(call) == \E k \in 1 .. Len(queue) : queue[k] = call
AddCalls == [op : {"add"}, dev : Devices]
RemoveCalls == [op : {"remove"}, serial : Serials]

Event(op, i) == [op |-> op, impl |-> i]
Events == [op : {"attach", "detach"}, impl : Impls]

DeviceStates == {"unknown", "needs-reset", "available", "connected",
                 "unsupported", "disconnecting"}
Fresh == [state |-> "unknown", opened |-> FALSE]

TypeOK ==
    /\ bus \in SUBSET Impls
    /\ hotplug \in Seq(Events)
    /\ phase \in {"start", "listening", "listed", "stopped"}
    /\ before \in SUBSET Impls
    /\ toList \in SUBSET Impls
    /\ queue \in Seq(AddCalls \cup RemoveCalls)
    /\ holder \in [step : Steps, dev : Devices] \cup {Idle}
    /\ deviceMap \in [Serials -> Devices \cup {NoDevice}]
    /\ implUniqueIdMap \in [Impls -> Serials \cup {None}]
    /\ device \in [Devices -> [state : DeviceStates, opened : BOOLEAN]]

\* A phone is on the bus as one impl at a time.
Init ==
    /\ bus \in {b \in SUBSET Impls :
                  \A i, j \in b : SerialOf[i] = SerialOf[j] => i = j}
    /\ hotplug = <<>>
    /\ phase = "start"
    /\ before = {}
    /\ toList = {}
    /\ queue = <<>>
    /\ holder = Idle
    /\ deviceMap = [s \in Serials |-> NoDevice]
    /\ implUniqueIdMap = [i \in Impls |-> None]
    /\ device = [d \in Devices |-> Fresh]

SerialOfDevice(d) == SerialOf[d.impl]

-----------------------------------------------------------------------------
(***************************************************************************)
(* The bus.  A phone leaves it when it is unplugged, and when it has been  *)
(* told to switch to accessory mode or been reset; in which mode it comes  *)
(* back is up to the phone.                                                *)
(***************************************************************************)
Heard(event) ==
    hotplug' = IF phase \in {"listening", "listed"} THEN Append(hotplug, event)
               ELSE hotplug

\* Nothing refers to i any more, so that i stands for a new object.
Forgotten(i) ==
    /\ i \notin toList
    /\ holder.dev.impl # i
    /\ \A k \in 1 .. Len(hotplug) : hotplug[k].impl # i
    /\ \A existing \in BOOLEAN : ~Waiting(AddCall(i, existing))
    /\ \A s \in Serials : deviceMap[s].impl # i
    /\ implUniqueIdMap[i] = None
    /\ \A d \in Devices :
         d.impl = i => device[d].state \notin {"connected", "disconnecting"}

Attach(i) ==
    /\ \A j \in bus : SerialOf[j] # SerialOf[i]
    /\ Forgotten(i)
    /\ Len(hotplug) < MaxEvents
    /\ bus' = bus \cup {i}
    /\ before' = before \ {i}
    /\ device' = [d \in Devices |-> IF d.impl = i THEN Fresh ELSE device[d]]
    /\ Heard(Event("attach", i))
    /\ UNCHANGED <<phase, toList, queue, holder, deviceMap, implUniqueIdMap>>

Detach(i) ==
    /\ i \in bus
    /\ Len(hotplug) < MaxEvents
    /\ bus' = bus \ {i}
    /\ Heard(Event("detach", i))
    /\ UNCHANGED <<phase, before, toList, queue, holder, deviceMap,
                   implUniqueIdMap, device>>

-----------------------------------------------------------------------------
(***************************************************************************)
(* Promise jobs run before the next event is taken: with the lock free and *)
(* a call waiting for it, the call gets it first.                          *)
(***************************************************************************)
JobReady == holder = Idle /\ queue # <<>>

\* waitForDevices listens for events and then asks for the list: the bus may
\* change in between, but no event is delivered before it awaits the first add.
Listen ==
    /\ phase = "start"
    /\ phase' = "listening"
    /\ before' = bus
    /\ UNCHANGED <<bus, hotplug, toList, queue, holder, deviceMap,
                   implUniqueIdMap, device>>

\* The loop awaits addDeviceAsync of one listed device after the other, in the
\* order of the list, which may be any.
AddNext(rest, calls) ==
    IF rest = {} THEN toList' = {} /\ queue' = calls
    ELSE \E i \in rest : toList' = rest \ {i} /\ queue' = Append(calls, AddCall(i, TRUE))

GetDeviceList ==
    /\ phase = "listening"
    /\ phase' = "listed"
    /\ AddNext(bus, queue)
    /\ UNCHANGED <<bus, hotplug, before, holder, deviceMap, implUniqueIdMap, device>>

\* A call ends and releases the lock; the loop goes on if it was its call.
Release(d, calls) ==
    /\ holder' = Idle
    /\ IF d.existing THEN AddNext(toList, calls)
       ELSE queue' = calls /\ UNCHANGED toList

\* The server only stops once it has started, after waitForDevices.
StopWaitingForDevices ==
    /\ phase = "listed"
    /\ toList = {} /\ ~holder.dev.existing /\ ~JobReady
    /\ \A i \in Impls : ~Waiting(AddCall(i, TRUE))
    /\ phase' = "stopped"
    /\ hotplug' = <<>>
    /\ UNCHANGED <<bus, before, toList, queue, holder, deviceMap, implUniqueIdMap, device>>

-----------------------------------------------------------------------------
(***************************************************************************)
(* The events, in the order of the bus.  removeDeviceImpl does not wait    *)
(* for the lock to look the impl up: one that is just being added is not   *)
(* found, and its removal is dropped.                                      *)
(***************************************************************************)
Deliver(op) ==
    /\ phase = "listed" /\ ~JobReady
    /\ hotplug # <<>> /\ Head(hotplug).op = op
    /\ hotplug' = Tail(hotplug)
    /\ UNCHANGED <<bus, phase, before, toList, holder, deviceMap, implUniqueIdMap, device>>

\* Mutant: a new device goes before the calls that wait.
AddDevice_First ==
    /\ Deliver("attach")
    /\ queue' = <<AddCall(Head(hotplug).impl, FALSE)>> \o queue

AddDevice ==
    /\ Deliver("attach")
    /\ queue' = Append(queue, AddCall(Head(hotplug).impl, FALSE))

\* Mutant: a detach event is dropped while the lock is taken.
RemoveDeviceImpl_Unlocked ==
    /\ Deliver("detach")
    /\ LET s == implUniqueIdMap[Head(hotplug).impl]
       IN  queue' = IF s = None \/ holder # Idle THEN queue ELSE Append(queue, RemoveCall(s))

RemoveDeviceImpl ==
    /\ Deliver("detach")
    /\ LET s == implUniqueIdMap[Head(hotplug).impl]
       IN  queue' = IF s = None THEN queue ELSE Append(queue, RemoveCall(s))

-----------------------------------------------------------------------------
(***************************************************************************)
(* addDeviceAsyncLocked.  createDevice opens the impl, which has to be on  *)
(* the bus, and reads its descriptors; the device may turn out to be       *)
(* ignored.                                                                *)
(***************************************************************************)
Begins(d) == JobReady /\ Head(queue).op = "add" /\ Head(queue).dev = d

CreateDevice(d) ==
    /\ Begins(d)
    /\ d.impl \in bus
    /\ holder' = [step |-> "create", dev |-> d]
    /\ queue' = Tail(queue)
    /\ UNCHANGED <<bus, hotplug, phase, before, toList, deviceMap, implUniqueIdMap, device>>

CannotOpen(d) ==
    /\ Begins(d)
    /\ d.impl \notin bus
    /\ Release(d, Tail(queue))
    /\ UNCHANGED <<bus, hotplug, phase, before, deviceMap, implUniqueIdMap, device>>

In(step, d) == holder = [step |-> step, dev |-> d]

CreateFails(d) ==
    /\ In("create", d)
    /\ Release(d, queue)
    /\ UNCHANGED <<bus, hotplug, phase, before, deviceMap, implUniqueIdMap, device>>

\* The entry is made whether or not the impl or the serial number is known.
AddDeviceHook(d) ==
    implUniqueIdMap' = [implUniqueIdMap EXCEPT ![d.impl] = SerialOfDevice(d)]

\* The end of addDeviceAsyncLocked: the device is listed and announced, and
\* takes the place of one with the same serial number without a removal.
ListDevice(d) ==
    /\ deviceMap' = [deviceMap EXCEPT ![SerialOfDevice(d)] = d]
    /\ AddDeviceHook(d)
    /\ Release(d, queue)
    /\ UNCHANGED <<bus, hotplug, phase, before>>

\* The state probe sets first.  Mutant: an accessory is used as it is found.
ProbedState_AsFound(d) ==
    IF d.impl \in Accessory THEN "available" ELSE "unsupported"

ProbedState(d) ==
    IF d.impl \notin Accessory THEN "unsupported"
    ELSE IF d.existing THEN "needs-reset"
    ELSE "available"

\* probe of an accessory that has just come is all there is to do.
ProbeAvailable(d) ==
    /\ In("create", d)
    /\ ProbedState(d) = "available"
    /\ device' = [device EXCEPT ![d].state = "available"]
    /\ ListDevice(d)

\* Another phone is opened, to be told to switch to accessory mode, and a
\* stale accessory to be reset.
OpenForProbe(d) ==
    /\ In("create", d)
    /\ ProbedState(d) # "available"
    /\ d.impl \in bus
    /\ device' = [device EXCEPT ![d] = [state |-> ProbedState(d), opened |-> TRUE]]
    /\ holder' = [step |-> IF ProbedState(d) = "unsupported" THEN "probe" ELSE "reset",
                  dev |-> d]
    /\ UNCHANGED <<bus, hotplug, phase, before, toList, queue, deviceMap, implUniqueIdMap>>

\* open throws; the failure is logged and the device is listed all the same.
ProbeCannotOpen(d) ==
    /\ In("create", d)
    /\ ProbedState(d) # "available"
    /\ d.impl \notin bus
    /\ device' = [device EXCEPT ![d].state = ProbedState(d)]
    /\ ListDevice(d)

\* checkAndStartAndroidAutoAoap has succeeded, and the device stays open, or it
\* has failed, and probe closes it.
ProbeEnds(d) ==
    /\ In("probe", d)
    /\ \E opened \in BOOLEAN : device' = [device EXCEPT ![d].opened = opened]
    /\ ListDevice(d)

\* reset asks until the phone has left the bus, or for a hundred times.
ResetEnds(d) ==
    /\ In("reset", d)
    /\ ListDevice(d)
    /\ UNCHANGED device

-----------------------------------------------------------------------------
\* removeDeviceLocked, which does not suspend.
RemoveDeviceHook(s) ==
    implUniqueIdMap' = [i \in Impls |->
        IF implUniqueIdMap[i] = s THEN None ELSE implUniqueIdMap[i]]

RemoveDevice(s) ==
    /\ JobReady
    /\ Head(queue) = RemoveCall(s)
    /\ queue' = Tail(queue)
    /\ IF deviceMap[s] = NoDevice THEN UNCHANGED <<deviceMap, implUniqueIdMap>>
       ELSE /\ deviceMap' = [deviceMap EXCEPT ![s] = NoDevice]
            /\ RemoveDeviceHook(s)
    /\ UNCHANGED <<bus, hotplug, phase, before, toList, holder, device>>

-----------------------------------------------------------------------------
(***************************************************************************)
(* The server connects a device that is available, listed or not any more, *)
(* one at a time.  connectImpl opens it, which must not have been done     *)
(* before, and claims its interface; none of that suspends.                *)
(***************************************************************************)
InUse(d) == device[d].state \in {"connected", "disconnecting"}

ConnectOpens(d) ==
    /\ device[d].state = "available" /\ ~device[d].opened
    /\ \A e \in Devices : ~InUse(e)
    /\ d.impl \in bus
    /\ \E state \in {"connected", "available"} :
         device' = [device EXCEPT ![d] = [state |-> state, opened |-> TRUE]]
    /\ UNCHANGED <<bus, hotplug, phase, before, toList, queue, holder, deviceMap,
                   implUniqueIdMap>>

\* disconnectImpl releases the interface and resets the phone; whether any of
\* it fails, the device is available afterwards, and still open.
DisconnectBegins(d) ==
    /\ device[d].state = "connected"
    /\ device' = [device EXCEPT ![d].state = "disconnecting"]
    /\ UNCHANGED <<bus, hotplug, phase, before, toList, queue, holder, deviceMap,
                   implUniqueIdMap>>

DisconnectEnds(d) ==
    /\ device[d].state = "disconnecting"
    /\ device' = [device EXCEPT ![d].state = "available"]
    /\ UNCHANGED <<bus, hotplug, phase, before, toList, queue, holder, deviceMap,
                   implUniqueIdMap>>

-----------------------------------------------------------------------------
Bus == \E i \in Impls : Attach(i) \/ Detach(i)

Server ==
    \/ StopWaitingForDevices
    \/ \E d \in Devices : ConnectOpens(d) \/ DisconnectBegins(d) \/ DisconnectEnds(d)

Adds(d) ==
    \/ CreateDevice(d) \/ CannotOpen(d) \/ CreateFails(d)
    \/ ProbeAvailable(d) \/ OpenForProbe(d) \/ ProbeCannotOpen(d)
    \/ ProbeEnds(d) \/ ResetEnds(d)

Handler ==
    \/ Listen \/ GetDeviceList
    \/ AddDevice \/ RemoveDeviceImpl
    \/ \E d \in Devices : Adds(d)
    \/ \E s \in Serials : RemoveDevice(s)

Next == Bus \/ Server \/ Handler

(***************************************************************************)
(* The handler goes on: jobs and events are taken, and a transfer to the   *)
(* phone ends, because the usb library bounds its time.  Nothing makes a   *)
(* phone come or go, or the server stop.                                   *)
(***************************************************************************)
Spec == Init /\ [][Next]_vars /\ WF_vars(Handler)

-----------------------------------------------------------------------------
(***************************************************************************)
(* A device that is on the bus is not taken off the list: removals are     *)
(* asked for by serial number, so a late one could hit the device the      *)
(* phone has come back as.                                                 *)
(***************************************************************************)
RemovedHasLeft ==
    [][\A s \in Serials :
         deviceMap[s] # NoDevice /\ deviceMap'[s] = NoDevice
           => deviceMap[s].impl \notin bus]_vars

(***************************************************************************)
(* The impl of a listed device is in implUniqueIdMap, where its detach     *)
(* event is looked up, under the serial number the device is listed under. *)
(***************************************************************************)
DetachFindsDevice ==
    \A s \in Serials :
        deviceMap[s] # NoDevice => implUniqueIdMap[deviceMap[s].impl] = s

Listed(i) == deviceMap[SerialOf[i]].impl = i

(***************************************************************************)
(* A listed device whose detach event is still to come is withdrawn or     *)
(* replaced, unless the server stops listening.                            *)
(***************************************************************************)
DetachWithdraws ==
    \A i \in Impls :
        Listed(i) /\ (\E k \in 1 .. Len(hotplug) : hotplug[k] = Event("detach", i))
            ~> ~Listed(i) \/ phase = "stopped"

(***************************************************************************)
(* An accessory that was on the bus when the handler started is in a       *)
(* session of an earlier program; it is reset and never connected as it is.*)
(***************************************************************************)
StaleSessionNeverUsed ==
    \A d \in Devices :
        d.impl \in before => device[d].state \notin {"available", "connected"}

(***************************************************************************)
(* UsbDevice.open asserts that the device is not open.  The server may     *)
(* call it, through connect, whenever the device is available.             *)
(***************************************************************************)
OpenAssertion ==
    \A d \in Devices : device[d].state = "available" => ~device[d].opened
=============================================================================
