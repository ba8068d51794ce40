-------------------------- MODULE Connection_proofs --------------------------
(***************************************************************************)
(* Proofs about Connection and the dependencies of a connection, for every *)
(* set of devices, Bluetooth devices, names and services, and every bound  *)
(* on the queue.                                                           *)
(***************************************************************************)
EXTENDS Connection, SequenceTheorems, TLAPS

-----------------------------------------------------------------------------
(***************************************************************************)
(* The dependencies: what starting and stopping them returns.  Flags stay  *)
(* flags, the control service never runs without the rest, and, when no    *)
(* stop of a service throws by itself, each call finishes or undoes what   *)
(* it began.  First the types.                                             *)
(***************************************************************************)
\* stopServices leaves a flag for every service and says whether it threw.
LEMMA StopServicesType ==
    ASSUME NEW started, NEW last, NEW r \in StopServices(started, last)
    PROVE  r.services \in [Services -> BOOLEAN] /\ r.threw \in BOOLEAN
  BY DEF StopServices

\* stopDependencies leaves flags, and the control service and the cryptor
\* stopped whatever a service's stop does.
LEMMA StopDependenciesType ==
    ASSUME NEW before, NEW after \in StopDependencies(before)
    PROVE  /\ after \in DependencyStates
           /\ ~after.control
           /\ ~after.cryptor
  <1>1. PICK r \in StopServices(before.services, NumServices) :
          after = [control |-> FALSE, services |-> r.services, cryptor |-> FALSE]
    BY DEF StopDependencies
  <1>2. r.services \in [Services -> BOOLEAN]
    BY StopServicesType
  <1> QED
    BY <1>1, <1>2 DEF DependencyStates

\* startServices leaves flags and says whether it threw.
LEMMA StartServicesType ==
    ASSUME NEW started, NEW r \in StartServices(started)
    PROVE  r.services \in [Services -> BOOLEAN] /\ r.threw \in BOOLEAN
  <1>1. CASE r = [services |-> AllStarted.services, threw |-> FALSE]
    BY <1>1 DEF AllStarted
  <1>2. CASE \E undone, last : \E s \in StopServices(undone, last) :
               r = [services |-> s.services, threw |-> TRUE]
    BY <1>2, StopServicesType
  <1> QED
    BY <1>1, <1>2, Zenon DEF StartServices

\* startDependencies leaves flags; it succeeds only with everything started,
\* and a control service it finds stopped it starts last or not at all.
LEMMA StartDependenciesType ==
    ASSUME NEW before \in DependencyStates, NEW r \in StartDependencies(before)
    PROVE  /\ r.deps \in DependencyStates
           /\ r.ok \in BOOLEAN
           /\ r.ok => r.deps = AllStarted
           /\ ~r.ok => r.deps.control = before.control
           /\ before.cryptor => ~r.ok /\ r.deps = before
  <1>1. CASE before.cryptor
    <2>1. r = [ok |-> FALSE, deps |-> before]
      BY <1>1, Zenon DEF StartDependencies
    <2> QED
      BY <1>1, <2>1
  <1>2. CASE ~before.cryptor
    <2>1. PICK s \in StartServices(before.services) :
            r \in IF s.threw
                  THEN {[ok |-> FALSE,
                         deps |-> [before EXCEPT !.cryptor = TRUE, !.services = s.services]]}
                  ELSE IF ~before.control
                  THEN {[ok |-> TRUE, deps |-> AllStarted]}
                  ELSE {[ok |-> FALSE,
                         deps |-> [before EXCEPT !.cryptor = t.threw, !.services = t.services]] :
                          t \in StopServices(s.services, NumServices)}
      BY <1>2 DEF StartDependencies
    <2>2. s.services \in [Services -> BOOLEAN]
      BY StartServicesType
    <2>3. CASE s.threw
      <3>1. r = [ok |-> FALSE,
                 deps |-> [before EXCEPT !.cryptor = TRUE, !.services = s.services]]
        BY <2>1, <2>3, Zenon
      <3> QED
        BY <1>2, <2>2, <3>1 DEF DependencyStates
    <2>4. CASE ~s.threw /\ ~before.control
      <3>1. r = [ok |-> TRUE, deps |-> AllStarted]
        BY <2>1, <2>4, Zenon
      <3> QED
        BY <1>2, <3>1 DEF DependencyStates, AllStarted
    <2>5. CASE ~s.threw /\ before.control
      <3>1. PICK t \in StopServices(s.services, NumServices) :
              r = [ok |-> FALSE,
                   deps |-> [before EXCEPT !.cryptor = t.threw, !.services = t.services]]
        BY <2>1, <2>5
      <3>2. t.services \in [Services -> BOOLEAN] /\ t.threw \in BOOLEAN
        BY StopServicesType
      <3> QED
        BY <1>2, <2>5, <3>1, <3>2 DEF DependencyStates
    <2> QED
      BY <2>3, <2>4, <2>5
  <1> QED
    BY <1>1, <1>2

-----------------------------------------------------------------------------
(***************************************************************************)
(* When no stop of a service throws by itself.                             *)
(***************************************************************************)
\* Services that are all started, or all stopped, are all stopped afterwards.
LEMMA StopAllServices ==
    ASSUME FaultyServices = {},
           NEW started \in {AllStarted.services, AllStopped.services},
           NEW r \in StopServices(started, NumServices)
    PROVE  r.services = AllStopped.services
  <1>1. PICK k \in 0 .. NumServices :
          \A i \in Services :
             \/ i \in (k + 1) .. NumServices /\ started[i] /\ ~r.services[i]
             \/ i \notin k .. NumServices /\ r.services[i] = started[i]
             \/ i = k /\ ~started[i] /\ ~r.services[i]
             \/ i = k /\ started[i] /\ i \in FaultyServices
    BY DEF StopServices
  <1>2. r.services \in [Services -> BOOLEAN]
    BY StopServicesType
  <1>3. ASSUME NEW i \in Services PROVE ~r.services[i]
    <2>1. CASE started = AllStopped.services
      BY <1>1, <1>2, <2>1 DEF AllStopped
    <2>2. CASE started = AllStarted.services
      <3>1. \A j \in Services : started[j]
        BY <2>2 DEF AllStarted
      <3>2. k \notin Services
        BY <1>1, <3>1
      <3>3. k = 0
        BY <3>2, DependenciesAssumption DEF Services
      <3> QED
        BY <1>1, <3>1, <3>3, DependenciesAssumption DEF Services
    <2> QED
      BY <2>1, <2>2
  <1> QED
    BY <1>2, <1>3 DEF AllStopped

\* stopDependencies stops everything, from everything started or stopped.
LEMMA StopAllDependencies ==
    ASSUME FaultyServices = {},
           NEW before \in {AllStarted, AllStopped},
           NEW after \in StopDependencies(before)
    PROVE  after = AllStopped
  <1>1. PICK r \in StopServices(before.services, NumServices) :
          after = [control |-> FALSE, services |-> r.services, cryptor |-> FALSE]
    BY DEF StopDependencies
  <1>2. r.services = AllStopped.services
    BY StopAllServices
  <1> QED
    BY <1>1, <1>2 DEF AllStopped

\* startDependencies starts everything, or fails and changes nothing when
\* everything is started already.
LEMMA StartAllDependencies ==
    ASSUME NEW before \in {AllStarted, AllStopped},
           NEW r \in StartDependencies(before)
    PROVE  /\ r.deps = AllStarted
           /\ before = AllStopped => r.ok
  <1>1. CASE before = AllStarted
    BY <1>1 DEF StartDependencies, AllStarted, AllStopped
  <1>2. CASE before = AllStopped
    <2>1. StartServices(before.services) =
            {[services |-> AllStarted.services, threw |-> FALSE]}
      BY <1>2 DEF StartServices, AllStopped
    <2>2. ~before.cryptor /\ ~before.control
      BY <1>2 DEF AllStopped
    <2> QED
      BY <2>1, <2>2 DEF StartDependencies
  <1> QED
    BY <1>1, <1>2

-----------------------------------------------------------------------------
(***************************************************************************)
(* Type correctness.  TypeOK is not inductive by itself: Connected assigns *)
(* the holder's device to connectedDevice, so there has to be a holder     *)
(* whenever pc is not idle.                                                *)
(***************************************************************************)
HolderWhenBusy == pc = "idle" <=> holder = NoRequest

TypeInv == TypeOK /\ HolderWhenBusy

\* NoRequest is not a request.
LEMMA NoRequestIsNone == NoRequest \notin Request
  BY ConnectionAssumption DEF NoRequest, Request

\* The call that is granted the lock is a request, and so are those behind it.
LEMMA GrantedType ==
    ASSUME TypeOK, NEW op, Granted(op)
    PROVE  /\ Head(queue) \in Request
           /\ Head(queue).op = op
           /\ Head(queue).dev \in Devices
           /\ queue' \in Seq(Request)
           /\ queue \in Seq(Request) \ {<<>>}
           /\ pc = "idle"
  <1>1. queue \in Seq(Request) /\ queue # <<>> /\ queue' = Tail(queue)
    BY DEF TypeOK, Granted
  <1>2. Head(queue) \in Request /\ Tail(queue) \in Seq(Request)
    BY <1>1, HeadTailProperties
  <1> QED
    BY <1>1, <1>2 DEF Granted, Request

\* The first part of a disconnection keeps the types.
LEMMA BeginDisconnectType ==
    ASSUME TypeOK, NEW d, NEW stops \in BOOLEAN, BeginDisconnect(d, stops)
    PROVE  /\ state' \in [Devices -> DeviceStates]
           /\ transport' \in [Devices -> BOOLEAN]
           /\ deps' \in DependencyStates
  <1>1. deps' \in DependencyStates
    BY StopDependenciesType DEF BeginDisconnect, TypeOK
  <1>2. state' \in [Devices -> DeviceStates] /\ transport' \in [Devices -> BOOLEAN]
    BY DEF BeginDisconnect, TypeOK, DeviceStates
  <1> QED
    BY <1>1, <1>2

\* ... and so does the rest of it.
LEMMA EndDisconnectType ==
    ASSUME TypeOK, NEW d, EndDisconnect(d)
    PROVE  /\ state' \in [Devices -> DeviceStates]
           /\ connectedDevice' \in Devices \cup {NoDevice}
  BY DEF EndDisconnect, TypeOK, DeviceStates

\* Whoever asks for whatever leaves a queue of requests.
LEMMA EnqueueType ==
    ASSUME TypeOK, NEW op \in ConnectOps \cup {"disconnect", "add", "remove"},
           NEW d \in Devices, Enqueue(op, d)
    PROVE  /\ queue' \in Seq(Request)
           /\ UNCHANGED <<connectedDevice, deps, holder, pc, nameDeviceMap>>
  <1>1. [op |-> op, dev |-> d] \in Request
    BY DEF Request
  <1> QED
    BY <1>1, AppendProperties DEF Enqueue, TypeOK

\* The initial state is well typed ...
LEMMA TypeInvInit == Init => TypeInv
  BY EmptySeq DEF Init, TypeInv, TypeOK, HolderWhenBusy, DependencyStates,
     AllStopped, DeviceStates, NoRequest

\* ... and every step leaves it so, and leaves a holder unless the lock is free.
LEMMA TypeInvStep == TypeInv /\ [Next]_vars => TypeInv'
  <1> SUFFICES ASSUME TypeInv, [Next]_vars PROVE TypeInv'
    OBVIOUS
  <1> USE NoRequestIsNone DEF TypeInv, HolderWhenBusy
  <1>1. ASSUME NEW d \in Devices, OnDeviceAdded(d) PROVE TypeInv'
    BY <1>1, EnqueueType DEF OnDeviceAdded, TypeOK, ProbedStates, DeviceStates
  <1>2. ASSUME NEW d \in Devices, OnDeviceRemoved(d) PROVE TypeInv'
    BY <1>2, EnqueueType DEF OnDeviceRemoved, TypeOK
  <1>3. ASSUME NEW d \in Devices, ConnectDeviceName(d) PROVE TypeInv'
    BY <1>3, EnqueueType DEF ConnectDeviceName, TypeOK, ConnectOps
  <1>4. ASSUME NEW d \in Devices, DisconnectDeviceName(d) PROVE TypeInv'
    BY <1>4, EnqueueType DEF DisconnectDeviceName, TypeOK
  <1>5. ASSUME NEW d \in Devices, OnBluetoothProfileSelfConnected(d) PROVE TypeInv'
    BY <1>5, EnqueueType
       DEF OnBluetoothProfileSelfConnected, TypeOK, ConnectOps, DeviceStates
  <1>6. ASSUME NEW d \in Devices, OnBluetoothProfileSelfDisconnected(d) PROVE TypeInv'
    BY <1>6, EnqueueType DEF OnBluetoothProfileSelfDisconnected, TypeOK
  <1>7. ASSUME NEW d \in Devices, OnDisconnected(d) PROVE TypeInv'
    BY <1>7, EnqueueType DEF OnDisconnected, TypeOK
  <1>8. CASE OnSelfDisconnect
    BY <1>8, EnqueueType DEF OnSelfDisconnect, TypeOK
  <1>9. CASE AddDevice
    BY <1>9, GrantedType DEF AddDevice, TypeOK
  <1>10. CASE RemoveDevice
    BY <1>10, GrantedType DEF RemoveDevice, TypeOK
  <1>11. CASE DisconnectDevice
    BY <1>11, GrantedType, BeginDisconnectType
       DEF DisconnectDevice, TypeOK, HolderBecomes, Suspended
  <1>12. CASE Disconnected
    BY <1>12, EndDisconnectType DEF Disconnected, TypeOK, HolderBecomes, Release
  <1>13. CASE RefuseSelfConnect
    BY <1>13, GrantedType, BeginDisconnectType
       DEF RefuseSelfConnect, TypeOK, HolderBecomes, Suspended
  <1>14. CASE SwitchDevice
    BY <1>14, GrantedType, BeginDisconnectType
       DEF SwitchDevice, TypeOK, HolderBecomes, Suspended
  <1>15. CASE Switched
    BY <1>15, EndDisconnectType DEF Switched, TypeOK, HolderBecomes, Suspended
  <1>16. CASE AdmitConnect
    BY <1>16, GrantedType DEF AdmitConnect, TypeOK, HolderBecomes, Suspended
  <1>17. CASE RejectConnect
    BY <1>17 DEF RejectConnect, TypeOK, HolderBecomes, Release
  <1>18. CASE BeginConnect
    BY <1>18 DEF BeginConnect, TypeOK, HolderBecomes, Suspended, DeviceStates
  <1>19. CASE ConnectFailed
    BY <1>19 DEF ConnectFailed, TypeOK, HolderBecomes, Release, DeviceStates
  <1>20. CASE Connected
    BY <1>20, StartDependenciesType
       DEF Connected, TypeOK, HolderBecomes, Suspended, DeviceStates, Request
  <1>21. CASE StartFailed
    BY <1>21, StartDependenciesType
       DEF StartFailed, TypeOK, HolderBecomes, Suspended, DeviceStates, Request
  <1>22. CASE SessionStarted
    BY <1>22 DEF SessionStarted, TypeOK, HolderBecomes, Release
  <1>23. CASE DoStartFailed
    BY <1>23, BeginDisconnectType
       DEF DoStartFailed, TypeOK, HolderBecomes, Suspended
  <1>24. CASE UNCHANGED vars
    BY <1>24 DEF vars, TypeOK
  <1> QED
    BY <1>1, <1>2, <1>3, <1>4, <1>5, <1>6, <1>7, <1>8, <1>9, <1>10, <1>11,
       <1>12, <1>13, <1>14, <1>15, <1>16, <1>17, <1>18, <1>19, <1>20, <1>21,
       <1>22, <1>23, <1>24
       DEF Next, Event, Progress, DoStartSettles

\* The types of the variables: every call that is queued or holds the lock names
\* a device, the server's device is one, and the flags stay flags.
THEOREM TypeCorrect == Spec => []TypeOK
  <1>1. TypeInv => TypeOK
    BY DEF TypeInv
  <1> QED
    BY <1>1, TypeInvInit, TypeInvStep, PTL DEF Spec

-----------------------------------------------------------------------------
(***************************************************************************)
(* The connection.  TransitionsUnderLock and ConnectionAgreement are what  *)
(* the server relies on; they are inductive together with two facts:       *)
(*  - only devices a handler has announced are referred to, so that the    *)
(*    announcement of a device does not change the state of one in use;    *)
(*  - a device that is being disconnected is no longer connected.          *)
(***************************************************************************)
OnlyAnnounced ==
    /\ \A n \in Names :
         nameDeviceMap[n] \in Devices => handler[nameDeviceMap[n]] # "absent"
    /\ \A i \in 1 .. Len(queue) : handler[queue[i].dev] # "absent"
    /\ holder.dev \in Devices => handler[holder.dev] # "absent"
    /\ connectedDevice \in Devices => handler[connectedDevice] # "absent"

BeingDisconnected ==
    /\ pc = "switching" => state[connectedDevice] = "disconnecting"
    /\ pc = "disconnecting" => state[holder.dev] # "connected"

LinkInv ==
    /\ TypeInv
    /\ OnlyAnnounced
    /\ BeingDisconnected
    /\ TransitionsUnderLock
    /\ ConnectionAgreement

\* What a call does to the queue when it starts to wait for the lock ...
LEMMA EnqueueQueue ==
    ASSUME TypeOK, NEW op \in ConnectOps \cup {"disconnect", "add", "remove"},
           NEW d \in Devices, Enqueue(op, d)
    PROVE  /\ Len(queue') = Len(queue) + 1
           /\ \A i \in 1 .. Len(queue) : queue'[i] = queue[i]
           /\ queue'[Len(queue')] = [op |-> op, dev |-> d]
           /\ Len(queue) \in Nat
  <1>1. [op |-> op, dev |-> d] \in Request
    BY DEF Request
  <1> QED
    BY <1>1, AppendProperties, LenProperties DEF Enqueue, TypeOK

\* ... and when it gets it.
LEMMA GrantedQueue ==
    ASSUME TypeOK, NEW op, Granted(op)
    PROVE  /\ Len(queue') = Len(queue) - 1
           /\ \A i \in 1 .. Len(queue') : queue'[i] = queue[i + 1]
           /\ Head(queue) = queue[1]
           /\ Len(queue) \in Nat \ {0}
  <1>1. queue \in Seq(Request) /\ queue # <<>> /\ queue' = Tail(queue)
    BY DEF TypeOK, Granted
  <1> QED
    BY <1>1, HeadTailProperties, EmptySeq

\* Nothing is referred to at first.
LEMMA AnnouncedInit == Init => OnlyAnnounced
  BY ConnectionAssumption DEF Init, OnlyAnnounced, NoRequest

\* A call for a device that has been announced ...
LEMMA AnnouncedEnqueue ==
    ASSUME TypeOK, OnlyAnnounced,
           NEW op \in ConnectOps \cup {"disconnect", "add", "remove"},
           NEW d \in Devices, Enqueue(op, d),
           handler'[d] # "absent",
           \A e \in Devices : handler[e] # "absent" => handler'[e] # "absent"
    PROVE  OnlyAnnounced'
  <1>1. UNCHANGED <<connectedDevice, deps, holder, pc, nameDeviceMap>>
    BY EnqueueType
  <1>2. /\ Len(queue) \in Nat
        /\ Len(queue') = Len(queue) + 1
        /\ \A i \in 1 .. Len(queue) : queue'[i] = queue[i]
        /\ queue'[Len(queue')] = [op |-> op, dev |-> d]
    BY EnqueueQueue
  <1>3. \A i \in 1 .. Len(queue) : queue[i].dev \in Devices
    <2>1. \A i \in 1 .. Len(queue) : queue[i] \in Request
      BY ElementOfSeq DEF TypeOK
    <2> QED
      BY <2>1 DEF Request
  <1>4. ASSUME NEW i \in 1 .. Len(queue') PROVE handler'[queue'[i].dev] # "absent"
    <2>1. CASE i \in 1 .. Len(queue)
      BY <1>2, <1>3, <2>1 DEF OnlyAnnounced
    <2>2. CASE i = Len(queue')
      BY <1>2, <2>2
    <2> QED
      BY <1>2, <2>1, <2>2
  <1>5. \A n \in Names :
          nameDeviceMap'[n] \in Devices => handler'[nameDeviceMap'[n]] # "absent"
    BY <1>1 DEF OnlyAnnounced
  <1> QED
    BY <1>1, <1>4, <1>5 DEF OnlyAnnounced

\* ... and the granting of one.
LEMMA AnnouncedGranted ==
    ASSUME TypeOK, OnlyAnnounced, NEW op, Granted(op), UNCHANGED handler
    PROVE  /\ handler[Head(queue).dev] # "absent"
           /\ \A i \in 1 .. Len(queue') : handler'[queue'[i].dev] # "absent"
  BY GrantedQueue DEF OnlyAnnounced

\* Only devices that have been announced are referred to, after an event ...
LEMMA AnnouncedEvent == LinkInv /\ Event => OnlyAnnounced'
  <1> SUFFICES ASSUME LinkInv, Event PROVE OnlyAnnounced'
    OBVIOUS
  <1> USE DEF LinkInv, TypeInv
  <1>1. ASSUME NEW d \in Devices, OnDeviceAdded(d) \/ OnDeviceRemoved(d)
        PROVE  OnlyAnnounced'
    <2>1. handler'[d] # "absent"
      BY <1>1 DEF OnDeviceAdded, OnDeviceRemoved, TypeOK
    <2>2. \A e \in Devices : handler[e] # "absent" => handler'[e] # "absent"
      BY <1>1 DEF OnDeviceAdded, OnDeviceRemoved, TypeOK
    <2> QED
      BY <1>1, <2>1, <2>2, AnnouncedEnqueue DEF OnDeviceAdded, OnDeviceRemoved
  <1>2. ASSUME NEW d \in Devices, ConnectDeviceName(d) \/ DisconnectDeviceName(d)
        PROVE  OnlyAnnounced'
    <2>1. NameOf[d] \in Names /\ nameDeviceMap[NameOf[d]] = d
      BY <1>2, ConnectionAssumption DEF ConnectDeviceName, DisconnectDeviceName
    <2>2. handler[d] # "absent" /\ handler' = handler
      BY <1>2, <2>1 DEF OnlyAnnounced, ConnectDeviceName, DisconnectDeviceName
    <2> QED
      BY <1>2, <2>2, AnnouncedEnqueue
         DEF ConnectDeviceName, DisconnectDeviceName, ConnectOps
  <1>3. ASSUME NEW d \in Devices,
               \/ OnBluetoothProfileSelfConnected(d)
               \/ OnBluetoothProfileSelfDisconnected(d)
        PROVE  OnlyAnnounced'
    BY <1>3, AnnouncedEnqueue
       DEF OnBluetoothProfileSelfConnected, OnBluetoothProfileSelfDisconnected, ConnectOps
  <1>4. ASSUME NEW d \in Devices, OnDisconnected(d) PROVE OnlyAnnounced'
    <2>1. connectedDevice = d
      BY <1>4 DEF OnDisconnected, TransitionsUnderLock, ConnectionAgreement
    <2>2. handler[d] # "absent" /\ handler' = handler
      BY <1>4, <2>1 DEF OnDisconnected, OnlyAnnounced
    <2> QED
      BY <1>4, <2>2, AnnouncedEnqueue DEF OnDisconnected
  <1>5. CASE OnSelfDisconnect
    <2>1. connectedDevice \in Devices /\ handler[connectedDevice] # "absent"
      BY <1>5 DEF OnSelfDisconnect, TypeOK, OnlyAnnounced
    <2>2. handler' = handler
      BY <1>5 DEF OnSelfDisconnect
    <2> QED
      BY <1>5, <2>1, <2>2, AnnouncedEnqueue DEF OnSelfDisconnect
  <1> QED
    BY <1>1, <1>2, <1>3, <1>4, <1>5 DEF Event

\* ... and after a step of the server, which keeps the devices it refers to.
LEMMA AnnouncedServer == LinkInv /\ (Progress \/ DoStartSettles) => OnlyAnnounced'
  <1> SUFFICES ASSUME LinkInv, Progress \/ DoStartSettles PROVE OnlyAnnounced'
    OBVIOUS
  <1> USE DEF LinkInv, TypeInv
  <1>1. UNCHANGED handler
    BY DEF Progress, DoStartSettles, AddDevice, RemoveDevice, DisconnectDevice,
       Disconnected, RefuseSelfConnect, SwitchDevice, Switched, AdmitConnect,
       RejectConnect, BeginConnect, ConnectFailed, Connected, StartFailed,
       SessionStarted, DoStartFailed
  <1>2. ASSUME NEW op, Granted(op),
               holder' \in {holder, Head(queue)}, UNCHANGED connectedDevice,
               \A n \in Names : nameDeviceMap'[n] \in
                                   {nameDeviceMap[n], Head(queue).dev, NoDevice}
        PROVE  OnlyAnnounced'
    BY <1>1, <1>2, AnnouncedGranted, ConnectionAssumption DEF OnlyAnnounced
  <1>3. ASSUME holder' \in {holder, NoRequest},
               connectedDevice' \in {connectedDevice, holder.dev, NoDevice},
               UNCHANGED <<nameDeviceMap, queue>>
        PROVE  OnlyAnnounced'
    BY <1>1, <1>3, ConnectionAssumption DEF OnlyAnnounced, NoRequest
  <1>4. CASE AddDevice \/ RemoveDevice
    BY <1>2, <1>4 DEF AddDevice, RemoveDevice, TypeOK
  <1>5. CASE DisconnectDevice \/ RefuseSelfConnect \/ SwitchDevice \/ AdmitConnect
    BY <1>2, <1>5
       DEF DisconnectDevice, RefuseSelfConnect, SwitchDevice, AdmitConnect, HolderBecomes
  <1>6. CASE Disconnected \/ Switched
    BY <1>3, <1>6 DEF Disconnected, Switched, EndDisconnect, Release, HolderBecomes
  <1>7. CASE \/ RejectConnect \/ BeginConnect \/ ConnectFailed \/ Connected
             \/ StartFailed \/ SessionStarted \/ DoStartFailed
    BY <1>3, <1>7
       DEF RejectConnect, BeginConnect, ConnectFailed, Connected, StartFailed,
           SessionStarted, DoStartFailed, Release, HolderBecomes
  <1> QED
    BY <1>4, <1>5, <1>6, <1>7 DEF Progress, DoStartSettles

\* The invariant of the connection holds at first ...
LEMMA LinkInvInit == Init => LinkInv
  BY TypeInvInit, AnnouncedInit, ConnectionAssumption
     DEF LinkInv, Init, BeingDisconnected, TransitionsUnderLock,
         ConnectionAgreement, NoRequest

\* An event changes the state of no device in use: it announces one that is not
\* referred to, or tells of one that is available.
LEMMA LinkInvEvent ==
    LinkInv /\ Event => (BeingDisconnected /\ TransitionsUnderLock /\ ConnectionAgreement)'
  <1> SUFFICES ASSUME LinkInv, Event
               PROVE  (BeingDisconnected /\ TransitionsUnderLock /\ ConnectionAgreement)'
    OBVIOUS
  <1> USE ConnectionAssumption, NoRequestIsNone
      DEF LinkInv, TypeInv, TypeOK, HolderWhenBusy, BeingDisconnected,
          TransitionsUnderLock, ConnectionAgreement, Enqueue
  <1>1. ASSUME NEW d \in Devices, OnDeviceAdded(d)
        PROVE  (BeingDisconnected /\ TransitionsUnderLock /\ ConnectionAgreement)'
    <2>1. connectedDevice # d /\ holder.dev # d
      BY <1>1 DEF OnDeviceAdded, OnlyAnnounced, Forgotten
    <2>2. state[d] \notin {"connecting", "connected", "disconnecting"}
      BY <2>1
    <2> QED
      BY <1>1, <2>1, <2>2 DEF OnDeviceAdded, ProbedStates
  <1>2. ASSUME NEW d \in Devices,
               \/ OnDeviceRemoved(d)
               \/ ConnectDeviceName(d) \/ DisconnectDeviceName(d)
               \/ OnBluetoothProfileSelfDisconnected(d)
        PROVE  (BeingDisconnected /\ TransitionsUnderLock /\ ConnectionAgreement)'
    BY <1>2 DEF OnDeviceRemoved, ConnectDeviceName, DisconnectDeviceName,
                OnBluetoothProfileSelfDisconnected
  <1>3. ASSUME NEW d \in Devices, OnBluetoothProfileSelfConnected(d)
        PROVE  (BeingDisconnected /\ TransitionsUnderLock /\ ConnectionAgreement)'
    BY <1>3 DEF OnBluetoothProfileSelfConnected
  <1>4. ASSUME NEW d \in Devices, OnDisconnected(d)
        PROVE  (BeingDisconnected /\ TransitionsUnderLock /\ ConnectionAgreement)'
    BY <1>4 DEF OnDisconnected
  <1>5. CASE OnSelfDisconnect
    BY <1>5 DEF OnSelfDisconnect
  <1> QED
    BY <1>1, <1>2, <1>3, <1>4, <1>5 DEF Event

\* A step of the server connects a device only when there is no other, and
\* disconnects one for good.
LEMMA LinkInvServer ==
    LinkInv /\ (Progress \/ DoStartSettles) =>
      (BeingDisconnected /\ TransitionsUnderLock /\ ConnectionAgreement)'
  <1> DEFINE Linked == BeingDisconnected /\ TransitionsUnderLock /\ ConnectionAgreement
  <1> SUFFICES ASSUME LinkInv, Progress \/ DoStartSettles PROVE Linked'
    OBVIOUS
  <1> USE ConnectionAssumption, NoRequestIsNone
      DEF LinkInv, TypeInv, TypeOK, HolderWhenBusy, BeingDisconnected,
          TransitionsUnderLock, ConnectionAgreement, HolderBecomes, Release
  <1>1. CASE AddDevice \/ RemoveDevice
    BY <1>1 DEF AddDevice, RemoveDevice, Granted
  <1>2. CASE DisconnectDevice
    BY <1>2, GrantedType DEF DisconnectDevice, BeginDisconnect, Request
  <1>3. CASE RefuseSelfConnect
    BY <1>3, GrantedType DEF RefuseSelfConnect, BeginDisconnect, Request
  <1>4. CASE SwitchDevice
    BY <1>4, GrantedType DEF SwitchDevice, BeginDisconnect, Request
  <1>5. CASE Disconnected
    BY <1>5 DEF Disconnected, EndDisconnect, NoRequest, Request
  <1>6. CASE Switched
    BY <1>6 DEF Switched, EndDisconnect, NoRequest, Request
  <1>7. CASE AdmitConnect
    BY <1>7, GrantedType DEF AdmitConnect, Request
  <1>8. CASE RejectConnect
    BY <1>8 DEF RejectConnect
  <1>9. CASE BeginConnect
    BY <1>9 DEF BeginConnect, Request
  <1>10. CASE ConnectFailed
    BY <1>10 DEF ConnectFailed, Request
  <1>11. CASE Connected
    BY <1>11 DEF Connected, Request
  <1>12. CASE StartFailed
    BY <1>12 DEF StartFailed, Request
  <1>13. CASE SessionStarted
    BY <1>13 DEF SessionStarted
  <1>14. CASE DoStartFailed
    BY <1>14 DEF DoStartFailed, BeginDisconnect, Request
  <1> QED
    BY <1>1, <1>2, <1>3, <1>4, <1>5, <1>6, <1>7, <1>8, <1>9, <1>10, <1>11,
       <1>12, <1>13, <1>14 DEF Progress, DoStartSettles

\* ... every step preserves it ...
LEMMA LinkInvStep == LinkInv /\ [Next]_vars => LinkInv'
  <1> SUFFICES ASSUME LinkInv, [Next]_vars PROVE LinkInv'
    OBVIOUS
  <1>1. TypeInv'
    BY TypeInvStep DEF LinkInv
  <1>2. CASE Event
    BY <1>1, <1>2, AnnouncedEvent, LinkInvEvent DEF LinkInv
  <1>3. CASE Progress \/ DoStartSettles
    BY <1>1, <1>3, AnnouncedServer, LinkInvServer DEF LinkInv
  <1>4. CASE UNCHANGED vars
    BY <1>1, <1>4 DEF LinkInv, vars, OnlyAnnounced, BeingDisconnected,
       TransitionsUnderLock, ConnectionAgreement
  <1> QED
    BY <1>2, <1>3, <1>4 DEF Next

\* ... and so it always holds.
LEMMA LinkInvAlways == Spec => []LinkInv
  BY LinkInvInit, LinkInvStep, PTL DEF Spec

\* Devices change hands under the lock only.
THEOREM UnderLock == Spec => []TransitionsUnderLock
  <1>1. LinkInv => TransitionsUnderLock
    BY DEF LinkInv
  <1> QED
    BY <1>1, LinkInvAlways, PTL

\* The server and the Device objects agree on who is connected.
THEOREM Agreement == Spec => []ConnectionAgreement
  <1>1. LinkInv => ConnectionAgreement
    BY DEF LinkInv
  <1> QED
    BY <1>1, LinkInvAlways, PTL

\* At most one transport delivers data, so what the frame codec is fed is the
\* stream of one device.
THEOREM OneTransport == Spec => []SingleTransport
  <1>1. LinkInv => SingleTransport
    BY DEF LinkInv, TransitionsUnderLock, ConnectionAgreement, SingleTransport
  <1> QED
    BY <1>1, LinkInvAlways, PTL

\* At most one device is linked or being linked.
THEOREM OneLink == Spec => []SingleLink
  <1>1. LinkInv => SingleLink
    BY ConnectionAssumption
       DEF LinkInv, TransitionsUnderLock, ConnectionAgreement, SingleLink
  <1> QED
    BY <1>1, LinkInvAlways, PTL

-----------------------------------------------------------------------------
(***************************************************************************)
(* The current connection ends before another begins.                      *)
(***************************************************************************)
\* A connection is replaced by none before it is replaced by another, and its
\* device is then available and its transport detached.
THEOREM EndsFirst == Spec => ConnectionEndsFirst
  <1> DEFINE Ends == connectedDevice # NoDevice /\ connectedDevice' # connectedDevice =>
                       /\ connectedDevice' = NoDevice
                       /\ state'[connectedDevice] = "available"
                       /\ ~transport'[connectedDevice]
  <1>1. LinkInv /\ [Next]_vars => [Ends]_vars
    <2> SUFFICES ASSUME LinkInv, Next, connectedDevice # NoDevice,
                        connectedDevice' # connectedDevice
                 PROVE  /\ connectedDevice' = NoDevice
                        /\ state'[connectedDevice] = "available"
                        /\ ~transport'[connectedDevice]
      OBVIOUS
    <2> USE DEF LinkInv, TypeInv, TypeOK, TransitionsUnderLock, ConnectionAgreement
    <2>1. Disconnected \/ Switched \/ Connected \/ StartFailed
      BY DEF Next, Event, Progress, DoStartSettles, OnDeviceAdded, OnDeviceRemoved,
         ConnectDeviceName, DisconnectDeviceName, OnBluetoothProfileSelfConnected,
         OnBluetoothProfileSelfDisconnected, OnDisconnected, OnSelfDisconnect,
         Enqueue, AddDevice, RemoveDevice, DisconnectDevice, RefuseSelfConnect,
         SwitchDevice, AdmitConnect, RejectConnect, BeginConnect, ConnectFailed,
         SessionStarted, DoStartFailed
    <2>2. ~Connected /\ ~StartFailed
      BY DEF Connected, StartFailed
    <2>3. CASE Disconnected
      BY <2>3 DEF Disconnected, EndDisconnect, BeingDisconnected
    <2>4. CASE Switched
      BY <2>4 DEF Switched, EndDisconnect, BeingDisconnected
    <2> QED
      BY <2>1, <2>2, <2>3, <2>4
  <1> QED
    BY <1>1, LinkInvAlways, PTL DEF Spec, ConnectionEndsFirst

-----------------------------------------------------------------------------
(***************************************************************************)
(* The dependencies.                                                       *)
(***************************************************************************)
\* Which steps touch them, and how.
LEMMA DependenciesStep ==
    ASSUME Next
    PROVE  \/ UNCHANGED deps
           \/ deps' \in StopDependencies(deps)
           \/ \E r \in StartDependencies(deps) : deps' = r.deps
  BY DEF Next, Event, Progress, DoStartSettles, OnDeviceAdded, OnDeviceRemoved,
     ConnectDeviceName, DisconnectDeviceName, OnBluetoothProfileSelfConnected,
     OnBluetoothProfileSelfDisconnected, OnDisconnected, OnSelfDisconnect,
     Enqueue, AddDevice, RemoveDevice, DisconnectDevice, Disconnected,
     RefuseSelfConnect, SwitchDevice, Switched, AdmitConnect, RejectConnect,
     BeginConnect, ConnectFailed, Connected, StartFailed, SessionStarted,
     DoStartFailed, BeginDisconnect

\* The control service only runs on top of everything else, whichever services
\* fail to stop.
THEOREM ControlLast == Spec => []ControlRunsLast
  <1>1. Init => ControlRunsLast
    BY DEF Init, ControlRunsLast, AllStopped
  <1>2. TypeInv /\ ControlRunsLast /\ [Next]_vars => ControlRunsLast'
    <2> SUFFICES ASSUME TypeInv, ControlRunsLast, Next PROVE ControlRunsLast'
      BY DEF vars, ControlRunsLast
    <2>1. CASE deps' \in StopDependencies(deps)
      BY <2>1, StopDependenciesType DEF ControlRunsLast
    <2>2. CASE \E r \in StartDependencies(deps) : deps' = r.deps
      <3>1. PICK r \in StartDependencies(deps) : deps' = r.deps
        BY <2>2
      <3>2. deps \in DependencyStates
        BY DEF TypeInv, TypeOK
      <3>3. /\ r.ok \in BOOLEAN
            /\ r.ok => r.deps = AllStarted
            /\ ~r.ok => r.deps.control = deps.control
            /\ deps.cryptor => r.deps = deps
        BY <3>2, StartDependenciesType
      <3>4. deps.control => deps.cryptor
        BY DEF ControlRunsLast, AllStarted
      <3> QED
        BY <3>1, <3>3, <3>4 DEF ControlRunsLast
    <2> QED
      BY <2>1, <2>2, DependenciesStep DEF ControlRunsLast
  <1>3. TypeInv /\ [Next]_vars => TypeInv'
    BY TypeInvStep
  <1> QED
    BY <1>1, <1>2, <1>3, TypeInvInit, PTL DEF Spec

\* When no stop of a service throws by itself, the dependencies are never left
\* half started, whatever sequence of calls is made.
THEOREM NeverHalfStarted ==
    ASSUME FaultyServices = {}
    PROVE  Spec => []AllOrNothing
  <1>1. Init => AllOrNothing
    BY DEF Init, AllOrNothing
  <1>2. AllOrNothing /\ [Next]_vars => AllOrNothing'
    <2> SUFFICES ASSUME AllOrNothing, Next PROVE AllOrNothing'
      BY DEF vars, AllOrNothing
    <2> QED
      BY DependenciesStep, StopAllDependencies, StartAllDependencies DEF AllOrNothing
  <1> QED
    BY <1>1, <1>2, PTL DEF Spec

\* A connected device keeps the session it was connected with, unless a request
\* to disconnect another device is served, for any number of devices.
THEOREM ConnectedKeepsSession == Spec => SessionKept
  <1>1. LinkInv /\ [Next]_vars =>
          [\A d \in Devices : state'[d] = "connected" => HasOrKeepsSession(d)]_vars
    <2> SUFFICES ASSUME LinkInv, Next, NEW d \in Devices, state'[d] = "connected"
                 PROVE  HasOrKeepsSession(d)
      OBVIOUS
    <2> USE DEF LinkInv, TypeInv, TypeOK
    <2>1. CASE Connected
      <3>1. PICK r \in StartDependencies(deps) : r.ok /\ deps' = r.deps
        BY <2>1 DEF Connected
      <3> QED
        BY <3>1, StartDependenciesType DEF HasOrKeepsSession
    <2>2. CASE StartFailed
      <3>1. holder.dev \in Devices /\ state[holder.dev] = "connecting"
        BY <2>2, NoRequestIsNone DEF StartFailed, HolderWhenBusy, Request,
           TransitionsUnderLock
      <3>2. state[d] # "connected"
        BY <2>2, <3>1, ConnectionAssumption
        DEF StartFailed, TransitionsUnderLock, ConnectionAgreement
      <3> QED
        BY <2>2, <3>1, <3>2 DEF StartFailed
    <2>3. CASE DisconnectDevice
      <3>1. Head(queue).dev \in Devices /\ Granted("disconnect")
        BY <2>3, GrantedType DEF DisconnectDevice
      <3>2. Head(queue).dev # d /\ state[d] = "connected"
        BY <2>3, <3>1 DEF DisconnectDevice, BeginDisconnect
      <3> QED
        BY <3>1, <3>2 DEF HasOrKeepsSession
    <2>4. CASE RefuseSelfConnect
      <3>1. Head(queue).dev \in Devices
        BY <2>4, GrantedType DEF RefuseSelfConnect
      <3>2. deps' = deps /\ state[d] = "connected"
        BY <2>4, <3>1 DEF RefuseSelfConnect, BeginDisconnect
      <3> QED
        BY <3>2 DEF HasOrKeepsSession
    <2>5. CASE SwitchDevice
      <3>1. state[d] = "connected" /\ connectedDevice # d
        BY <2>5 DEF SwitchDevice, BeginDisconnect
      <3> QED
        BY <3>1 DEF ConnectionAgreement
    <2>6. CASE DoStartFailed
      <3>1. connectedDevice = holder.dev
        BY <2>6 DEF DoStartFailed, TransitionsUnderLock
      <3>2. state[d] = "connected" /\ holder.dev # d
        BY <2>6 DEF DoStartFailed, BeginDisconnect
      <3> QED
        BY <3>1, <3>2 DEF ConnectionAgreement
    <2>7. CASE \/ AddDevice \/ RemoveDevice \/ Disconnected \/ Switched
               \/ AdmitConnect \/ RejectConnect \/ BeginConnect \/ ConnectFailed
               \/ SessionStarted
      <3>1. deps' = deps /\ state[d] = "connected"
        BY <2>7 DEF AddDevice, RemoveDevice, Disconnected, Switched, AdmitConnect,
           RejectConnect, BeginConnect, ConnectFailed, SessionStarted, EndDisconnect
      <3> QED
        BY <3>1 DEF HasOrKeepsSession
    <2>8. CASE Event
      <3>1. deps' = deps /\ state[d] = "connected"
        BY <2>8 DEF Event, OnDeviceAdded, OnDeviceRemoved, ConnectDeviceName,
           DisconnectDeviceName, OnBluetoothProfileSelfConnected,
           OnBluetoothProfileSelfDisconnected, OnDisconnected, OnSelfDisconnect,
           Enqueue, ProbedStates
      <3> QED
        BY <3>1 DEF HasOrKeepsSession
    <2> QED
      BY <2>1, <2>2, <2>3, <2>4, <2>5, <2>6, <2>7, <2>8
      DEF Next, Progress, DoStartSettles
  <1> QED
    BY <1>1, LinkInvAlways, PTL DEF Spec, SessionKept

-----------------------------------------------------------------------------
(***************************************************************************)
(* Without Bluetooth devices no session is leaked.  The two ways out of a  *)
(* connection that leave the dependencies alone are the refusal of a       *)
(* self-connection, which needs a Bluetooth device, and START_FAILED,      *)
(* which needs a dependency that is still started.  So a device that is    *)
(* being disconnected has had its session stopped already.                 *)
(***************************************************************************)
NoSelfConnection ==
    /\ \A i \in 1 .. Len(queue) : queue[i].op # "selfConnect"
    /\ \A d \in Devices : state[d] # "self-connecting"

StoppedBeforeDisconnect ==
    pc \in {"switching", "disconnecting"} => deps = AllStopped

LeakInv ==
    AllOrNothing /\ NoSelfConnection /\ StoppedBeforeDisconnect /\ NoLeakedSession

\* Without Bluetooth devices, nobody ever connects by itself.
LEMMA NoSelfConnectionStep ==
    ASSUME Bluetooth = {}, LinkInv, NoSelfConnection, [Next]_vars
    PROVE  NoSelfConnection'
  <1> USE DEF LinkInv, TypeInv
  <1>1. \A d \in Devices : state'[d] # "self-connecting"
    BY DEF TypeOK, NoSelfConnection, vars,
       Next, Event, Progress, DoStartSettles, OnDeviceAdded, OnDeviceRemoved,
       ConnectDeviceName, DisconnectDeviceName, OnBluetoothProfileSelfConnected,
       OnBluetoothProfileSelfDisconnected, OnDisconnected, OnSelfDisconnect,
       AddDevice, RemoveDevice, DisconnectDevice, Disconnected,
       RefuseSelfConnect, SwitchDevice, Switched, AdmitConnect, RejectConnect,
       BeginConnect, ConnectFailed, Connected, StartFailed, SessionStarted,
       DoStartFailed, BeginDisconnect, EndDisconnect, ProbedStates
  <1>2. ASSUME NEW op \in {"userConnect", "disconnect", "add", "remove"},
               NEW d \in Devices, Enqueue(op, d)
        PROVE  \A i \in 1 .. Len(queue') : queue'[i].op # "selfConnect"
    <2>1. /\ Len(queue) \in Nat
          /\ Len(queue') = Len(queue) + 1
          /\ \A i \in 1 .. Len(queue) : queue'[i] = queue[i]
          /\ queue'[Len(queue')] = [op |-> op, dev |-> d]
      BY <1>2, EnqueueQueue DEF ConnectOps
    <2> TAKE i \in 1 .. Len(queue')
    <2>2. CASE i \in 1 .. Len(queue)
      BY <2>1, <2>2 DEF NoSelfConnection
    <2>3. CASE i = Len(queue')
      BY <2>1, <2>3
    <2> QED
      BY <2>1, <2>2, <2>3
  <1>3. ASSUME NEW op, Granted(op)
        PROVE  \A i \in 1 .. Len(queue') : queue'[i].op # "selfConnect"
    BY <1>3, GrantedQueue DEF NoSelfConnection
  <1>4. CASE Event
    <2>1. CASE OnSelfDisconnect
      BY <1>1, <1>2, <2>1 DEF OnSelfDisconnect, TypeOK, NoSelfConnection
    <2>2. CASE ~OnSelfDisconnect
      <3>1. PICK op \in {"userConnect", "disconnect", "add", "remove"}, d \in Devices :
              Enqueue(op, d)
        BY <1>4, <2>2
           DEF Event, OnDeviceAdded, OnDeviceRemoved, ConnectDeviceName,
               DisconnectDeviceName, OnBluetoothProfileSelfConnected,
               OnBluetoothProfileSelfDisconnected, OnDisconnected
      <3> QED
        BY <1>1, <1>2, <3>1 DEF NoSelfConnection
    <2> QED
      BY <2>1, <2>2
  <1>5. CASE ~Event
    <2>1. UNCHANGED queue \/ \E op : Granted(op)
      BY <1>5 DEF vars, Next, Progress, DoStartSettles, AddDevice, RemoveDevice,
         DisconnectDevice, Disconnected, RefuseSelfConnect, SwitchDevice, Switched,
         AdmitConnect, RejectConnect, BeginConnect, ConnectFailed, Connected,
         StartFailed, SessionStarted, DoStartFailed
    <2> QED
      BY <1>1, <1>3, <2>1 DEF NoSelfConnection
  <1> QED
    BY <1>1, <1>4, <1>5 DEF NoSelfConnection

\* A device whose connection is over has no session running.
THEOREM WiredLeakFree ==
    ASSUME Bluetooth = {}, FaultyServices = {}
    PROVE  Spec => []NoLeakedSession
  <1>1. Init => LeakInv
    BY DEF Init, LeakInv, AllOrNothing, NoSelfConnection, StoppedBeforeDisconnect,
       NoLeakedSession
  <1>2. LinkInv /\ LeakInv /\ [Next]_vars => LeakInv'
    <2> SUFFICES ASSUME LinkInv, LeakInv, [Next]_vars PROVE LeakInv'
      OBVIOUS
    <2>1. NoSelfConnection'
      BY NoSelfConnectionStep DEF LeakInv
    <2>2. deps' \in StopDependencies(deps) => deps' = AllStopped
      <3>1. deps \in {AllStarted, AllStopped}
        BY DEF LeakInv, AllOrNothing
      <3> QED
        BY <3>1, StopAllDependencies
    <2> USE DEF StoppedBeforeDisconnect, NoLeakedSession, AllOrNothing, HolderBecomes, Release
    <2>3. CASE Event \/ AddDevice \/ RemoveDevice \/ UNCHANGED vars
      <3>1. UNCHANGED <<pc, deps, connectedDevice>>
        BY <2>3
           DEF Event, OnDeviceAdded, OnDeviceRemoved, ConnectDeviceName,
               DisconnectDeviceName, OnBluetoothProfileSelfConnected,
               OnBluetoothProfileSelfDisconnected, OnDisconnected,
               OnSelfDisconnect, Enqueue, AddDevice, RemoveDevice, vars
      <3> QED
        BY <2>1, <3>1 DEF LeakInv
    <2>4. CASE DisconnectDevice \/ SwitchDevice \/ DoStartFailed
      <3>1. deps' \in StopDependencies(deps) /\ UNCHANGED connectedDevice
        BY <2>4 DEF DisconnectDevice, SwitchDevice, DoStartFailed, BeginDisconnect
      <3> QED
        BY <2>1, <2>2, <3>1 DEF LeakInv
    <2>5. CASE Disconnected \/ Switched
      <3>1. deps' = AllStopped /\ pc' \in {"idle", "connect"}
        BY <2>5 DEF LeakInv, Disconnected, Switched
      <3> QED
        BY <2>1, <3>1 DEF LeakInv
    <2>6. ~RefuseSelfConnect
      <3>1. SUFFICES ASSUME Granted("selfConnect") PROVE FALSE
        BY DEF RefuseSelfConnect
      <3>2. TypeOK
        BY DEF LinkInv, TypeInv
      <3>3. queue[1].op = "selfConnect" /\ 1 \in 1 .. Len(queue)
        BY <3>1, <3>2, GrantedQueue DEF Granted
      <3> QED
        BY <3>3 DEF LeakInv, NoSelfConnection
    <2>7. ~StartFailed
      <3>1. SUFFICES ASSUME StartFailed PROVE FALSE
        OBVIOUS
      <3>2. connectedDevice = NoDevice
        BY <3>1 DEF StartFailed, LinkInv, TransitionsUnderLock
      <3>3. deps = AllStopped
        BY <3>2 DEF LeakInv
      <3> QED
        BY <3>1, <3>3, StartAllDependencies DEF StartFailed
    <2>8. CASE AdmitConnect \/ RejectConnect \/ BeginConnect \/ ConnectFailed \/ SessionStarted
      <3>1. UNCHANGED <<deps, connectedDevice>> /\ pc' \notin {"switching", "disconnecting"}
        BY <2>8 DEF AdmitConnect, RejectConnect, BeginConnect, ConnectFailed, SessionStarted
      <3> QED
        BY <2>1, <3>1 DEF LeakInv
    <2>9. CASE Connected
      <3>1. PICK r \in StartDependencies(deps) : r.ok /\ deps' = r.deps
        BY <2>9 DEF Connected
      <3>2. deps' = AllStarted
        BY <3>1, StartDependenciesType DEF LinkInv, TypeInv, TypeOK
      <3>3. pc' = "starting" /\ connectedDevice' # NoDevice
        BY <2>9, NoRequestIsNone, ConnectionAssumption
           DEF Connected, LinkInv, TypeInv, TypeOK, HolderWhenBusy, Request
      <3> QED
        BY <2>1, <3>2, <3>3 DEF LeakInv
    <2> QED
      BY <2>3, <2>4, <2>5, <2>6, <2>7, <2>8, <2>9 DEF Next, Progress, DoStartSettles
  <1>3. LeakInv => NoLeakedSession
    BY DEF LeakInv
  <1> QED
    BY <1>1, <1>2, <1>3, LinkInvAlways, PTL DEF Spec

-----------------------------------------------------------------------------
(***************************************************************************)
(* A device that is connecting by itself always has an answer coming.      *)
(***************************************************************************)
SelfConnectOf(d) == [op |-> "selfConnect", dev |-> d]

\* A request that is queued stays queued behind a new one ...
LEMMA PendingEnqueue ==
    ASSUME TypeOK, SelfConnectPending,
           NEW op \in ConnectOps \cup {"disconnect", "add", "remove"},
           NEW d \in Devices, Enqueue(op, d),
           NEW e \in Devices, state[e] = "self-connecting"
    PROVE  \/ \E i \in 1 .. Len(queue') : queue'[i] = SelfConnectOf(e)
           \/ pc' = "connect" /\ holder' = SelfConnectOf(e)
  <1>1. /\ Len(queue) \in Nat
        /\ Len(queue') = Len(queue) + 1
        /\ \A i \in 1 .. Len(queue) : queue'[i] = queue[i]
        /\ UNCHANGED <<pc, holder>>
    BY EnqueueQueue, EnqueueType
  <1>2. ASSUME NEW i \in 1 .. Len(queue), queue[i] = SelfConnectOf(e)
        PROVE  i \in 1 .. Len(queue') /\ queue'[i] = SelfConnectOf(e)
    BY <1>1, <1>2
  <1> QED
    BY <1>1, <1>2 DEF SelfConnectPending, SelfConnectOf

\* ... and comes closer to the lock when another one is granted it.
LEMMA PendingGranted ==
    ASSUME TypeOK, SelfConnectPending, NEW op, Granted(op),
           NEW e \in Devices, state[e] = "self-connecting",
           Head(queue) # SelfConnectOf(e)
    PROVE  \E i \in 1 .. Len(queue') : queue'[i] = SelfConnectOf(e)
  <1>1. pc = "idle"
    BY DEF Granted
  <1>2. PICK i \in 1 .. Len(queue) : queue[i] = SelfConnectOf(e)
    BY <1>1 DEF SelfConnectPending, SelfConnectOf
  <1>3. /\ Len(queue') = Len(queue) - 1
        /\ \A j \in 1 .. Len(queue') : queue'[j] = queue[j + 1]
        /\ i # 1
        /\ Len(queue) \in Nat
    BY <1>2, GrantedQueue
  <1>4. i - 1 \in 1 .. Len(queue') /\ queue'[i - 1] = SelfConnectOf(e)
    BY <1>2, <1>3
  <1> QED
    BY <1>4

\* The request of a self-connecting device is queued or being served until the
\* device is no longer self-connecting.
THEOREM SelfConnectNotForgotten == Spec => []SelfConnectPending
  <1>1. Init => SelfConnectPending
    BY DEF Init, SelfConnectPending
  <1>2. LinkInv /\ SelfConnectPending /\ [Next]_vars => SelfConnectPending'
    <2> SUFFICES ASSUME LinkInv, SelfConnectPending, [Next]_vars,
                        NEW e \in Devices, state'[e] = "self-connecting"
                 PROVE  \/ \E i \in 1 .. Len(queue') : queue'[i] = SelfConnectOf(e)
                        \/ pc' = "connect" /\ holder' = SelfConnectOf(e)
      BY DEF SelfConnectPending, SelfConnectOf
    <2> USE DEF LinkInv, TypeInv, HolderBecomes, Release
    <2>1. ASSUME NEW d \in Devices, OnBluetoothProfileSelfConnected(d)
          PROVE  \/ \E i \in 1 .. Len(queue') : queue'[i] = SelfConnectOf(e)
                 \/ pc' = "connect" /\ holder' = SelfConnectOf(e)
      <3>1. Enqueue("selfConnect", d) /\ "selfConnect" \in ConnectOps
        BY <2>1 DEF OnBluetoothProfileSelfConnected, ConnectOps
      <3>2. CASE e = d
        BY <3>1, <3>2, EnqueueQueue DEF SelfConnectOf
      <3>3. CASE e # d
        <4>1. state[e] = "self-connecting"
          BY <2>1, <3>3 DEF OnBluetoothProfileSelfConnected, TypeOK
        <4> QED
          BY <3>1, <4>1, PendingEnqueue
      <3> QED
        BY <3>2, <3>3
    <2>2. ASSUME NEW d \in Devices,
                 \/ OnDeviceAdded(d) \/ OnDeviceRemoved(d)
                 \/ ConnectDeviceName(d) \/ DisconnectDeviceName(d)
                 \/ OnBluetoothProfileSelfDisconnected(d) \/ OnDisconnected(d)
          PROVE  \/ \E i \in 1 .. Len(queue') : queue'[i] = SelfConnectOf(e)
                 \/ pc' = "connect" /\ holder' = SelfConnectOf(e)
      <3>1. state[e] = "self-connecting"
        BY <2>2 DEF OnDeviceAdded, OnDeviceRemoved, ConnectDeviceName,
           DisconnectDeviceName, OnBluetoothProfileSelfDisconnected,
           OnDisconnected, ProbedStates, TypeOK
      <3>2. PICK op \in ConnectOps \cup {"disconnect", "add", "remove"} : Enqueue(op, d)
        BY <2>2 DEF OnDeviceAdded, OnDeviceRemoved, ConnectDeviceName,
           DisconnectDeviceName, OnBluetoothProfileSelfDisconnected,
           OnDisconnected, ConnectOps
      <3> QED
        BY <3>1, <3>2, PendingEnqueue
    <2>3. CASE OnSelfDisconnect
      <3>1. Enqueue("disconnect", connectedDevice) /\ connectedDevice \in Devices
        BY <2>3 DEF OnSelfDisconnect, TypeOK
      <3>2. state[e] = "self-connecting"
        BY <2>3 DEF OnSelfDisconnect
      <3> QED
        BY <3>1, <3>2, PendingEnqueue
    <2>4. CASE AddDevice \/ RemoveDevice \/ SwitchDevice
      <3>1. state[e] = "self-connecting"
        BY <2>4 DEF AddDevice, RemoveDevice, SwitchDevice, BeginDisconnect, TypeOK
      <3>2. PICK op \in {"add", "remove", "userConnect"} : Granted(op)
        BY <2>4 DEF AddDevice, RemoveDevice, SwitchDevice
      <3>3. Head(queue) # SelfConnectOf(e)
        BY <3>2 DEF Granted, SelfConnectOf
      <3> QED
        BY <3>1, <3>2, <3>3, PendingGranted
    <2>5. CASE DisconnectDevice \/ RefuseSelfConnect
      <3>1. PICK op \in {"disconnect", "selfConnect"} : Granted(op)
        BY <2>5 DEF DisconnectDevice, RefuseSelfConnect
      <3>2. state[e] = "self-connecting" /\ Head(queue).dev # e
        BY <2>5, <3>1, GrantedType
           DEF DisconnectDevice, RefuseSelfConnect, BeginDisconnect, TypeOK
      <3>3. Head(queue) # SelfConnectOf(e)
        BY <3>2 DEF SelfConnectOf
      <3> QED
        BY <3>1, <3>2, <3>3, PendingGranted
    <2>6. CASE AdmitConnect
      <3>1. PICK op \in ConnectOps : Granted(op)
        BY <2>6 DEF AdmitConnect
      <3>2. state[e] = "self-connecting"
        BY <2>6 DEF AdmitConnect
      <3>3. CASE Head(queue) = SelfConnectOf(e)
        BY <2>6, <3>3 DEF AdmitConnect
      <3> QED
        BY <3>1, <3>2, <3>3, PendingGranted
    <2>7. CASE \/ Disconnected \/ Switched \/ RejectConnect \/ BeginConnect
               \/ ConnectFailed \/ Connected \/ StartFailed \/ DoStartSettles
               \/ UNCHANGED vars
      <3>1. UNCHANGED queue /\ state[e] = "self-connecting"
        BY <2>7 DEF Disconnected, Switched, RejectConnect, BeginConnect,
           ConnectFailed, Connected, StartFailed, DoStartSettles, SessionStarted,
           DoStartFailed, BeginDisconnect, EndDisconnect, vars, TypeOK
      <3>2. pc = "connect" /\ holder = SelfConnectOf(e) => UNCHANGED <<pc, holder>>
        BY <2>7, <3>1 DEF Disconnected, Switched, RejectConnect, BeginConnect,
           ConnectFailed, Connected, StartFailed, DoStartSettles, SessionStarted,
           DoStartFailed, vars, TypeOK, SelfConnectOf
      <3> QED
        BY <3>1, <3>2 DEF SelfConnectPending, SelfConnectOf
    <2> QED
      BY <2>1, <2>2, <2>3, <2>4, <2>5, <2>6, <2>7 DEF Next, Event, Progress
  <1> QED
    BY <1>1, <1>2, LinkInvAlways, PTL DEF Spec

-----------------------------------------------------------------------------
(***************************************************************************)
(* Connection implements the safety part of ConnectionSlot: its initial    *)
(* states are the slot's, and every step is one of the slot's or leaves    *)
(* the slot alone.                                                         *)
(***************************************************************************)
\* What the slot is seen as depends on these only.
LEMMA SlotUntouched ==
    ASSUME UNCHANGED <<connectedDevice, holder, pc>>,
           connectedDevice = NoDevice \/ state'[connectedDevice] = state[connectedDevice]
    PROVE  UNCHANGED <<SlotDevice, SlotPhase>>
  BY DEF SlotDevice, SlotPhase

\* Devices are connected one at a time, each link closed before the next is opened.
THEOREM ImplementsSafeSlot == Spec => Slot!SafeSlot
  <1>1. Init => Slot!Init
    BY DEF Init, Slot!Init, SlotDevice, SlotPhase
  <1>2. LinkInv /\ LinkInv' /\ [Next]_vars => [Slot!Next]_(Slot!slotVars)
    <2> SUFFICES ASSUME LinkInv, LinkInv', [Next]_vars
                 PROVE  Slot!Next \/ UNCHANGED <<SlotDevice, SlotPhase>>
      BY DEF Slot!slotVars
    <2> USE ConnectionAssumption, NoRequestIsNone
        DEF LinkInv, TypeInv, TypeOK, HolderWhenBusy, TransitionsUnderLock,
            ConnectionAgreement, BeingDisconnected, HolderBecomes, Release
    <2>1. CASE Event
      <3>1. UNCHANGED <<connectedDevice, holder, pc>>
        BY <2>1 DEF Event, OnDeviceAdded, OnDeviceRemoved, ConnectDeviceName,
           DisconnectDeviceName, OnBluetoothProfileSelfConnected,
           OnBluetoothProfileSelfDisconnected, OnDisconnected, OnSelfDisconnect,
           Enqueue
      <3>2. connectedDevice = NoDevice \/ state'[connectedDevice] = state[connectedDevice]
        BY <2>1 DEF Event, OnDeviceAdded, OnDeviceRemoved, ConnectDeviceName,
           DisconnectDeviceName, OnBluetoothProfileSelfConnected,
           OnBluetoothProfileSelfDisconnected, OnDisconnected, OnSelfDisconnect,
           Forgotten, OnlyAnnounced
      <3> QED
        BY <3>1, <3>2, SlotUntouched
    <2>2. CASE AddDevice \/ RemoveDevice \/ RejectConnect \/ AdmitConnect \/ SessionStarted
      BY <2>2 DEF AddDevice, RemoveDevice, RejectConnect, AdmitConnect,
         SessionStarted, Granted, SlotDevice, SlotPhase
    <2>3. CASE DisconnectDevice \/ RefuseSelfConnect \/ SwitchDevice \/ DoStartFailed
      <3>1. UNCHANGED connectedDevice /\ pc # "connecting" /\ pc' # "connecting"
        BY <2>3 DEF DisconnectDevice, RefuseSelfConnect, SwitchDevice,
           DoStartFailed, Granted
      <3>2. \/ connectedDevice = NoDevice
            \/ state'[connectedDevice] = state[connectedDevice]
            \/ /\ state[connectedDevice] = "connected"
               /\ state'[connectedDevice] = "disconnecting"
        BY <2>3 DEF DisconnectDevice, RefuseSelfConnect, SwitchDevice,
           DoStartFailed, BeginDisconnect, Granted
      <3> QED
        BY <3>1, <3>2 DEF SlotDevice, SlotPhase, Slot!Next, Slot!Close
    <2>4. CASE Disconnected \/ Switched
      <3>1. pc # "connecting" /\ pc' # "connecting"
        BY <2>4 DEF Disconnected, Switched
      <3>2. \/ /\ connectedDevice # NoDevice /\ connectedDevice' = NoDevice
               /\ state[connectedDevice] = "disconnecting"
            \/ /\ UNCHANGED connectedDevice
               /\ \/ connectedDevice = NoDevice
                  \/ state'[connectedDevice] = state[connectedDevice]
        BY <2>4 DEF Disconnected, Switched, EndDisconnect
      <3> QED
        BY <3>1, <3>2 DEF SlotDevice, SlotPhase, Slot!Next, Slot!Closed
    <2>5. CASE BeginConnect
      <3>1. connectedDevice = NoDevice /\ holder.dev \in Devices
        BY <2>5 DEF BeginConnect, Request
      <3> QED
        BY <2>5, <3>1 DEF BeginConnect, SlotDevice, SlotPhase, Slot!Next, Slot!Open
    <2>6. CASE ConnectFailed
      BY <2>6 DEF ConnectFailed, SlotDevice, SlotPhase, Slot!Next, Slot!OpenFailed
    <2>7. CASE Connected
      <3>1. holder.dev \in Devices
        BY <2>7 DEF Connected, Request
      <3> QED
        BY <2>7, <3>1 DEF Connected, SlotDevice, SlotPhase, Slot!Next, Slot!Opened
    <2>8. CASE StartFailed
      <3>1. holder.dev \in Devices
        BY <2>8 DEF StartFailed, Request
      <3> QED
        BY <2>8, <3>1 DEF StartFailed, SlotDevice, SlotPhase, Slot!Next, Slot!Close
    <2>9. CASE UNCHANGED vars
      BY <2>9 DEF vars, SlotDevice, SlotPhase
    <2> QED
      BY <2>1, <2>2, <2>3, <2>4, <2>5, <2>6, <2>7, <2>8, <2>9
         DEF Next, Progress, DoStartSettles
  <1> QED
    BY <1>1, <1>2, LinkInvAlways, PTL DEF Spec, Slot!SafeSlot

-----------------------------------------------------------------------------
(***************************************************************************)
(* The devices the user is shown follow the handlers.  A handler announces *)
(* a device and its end one after the other, and the lock is granted in    *)
(* the order of the calls; what has to be known of the queue is that       *)
(*  - no removal of a device that is present is queued: a device only      *)
(*    comes back once nothing of it is left;                               *)
(*  - behind every addition of a device that is gone its removal follows,  *)
(*    so that the addition is not the last word about it.                  *)
(***************************************************************************)
AdditionOf(d) == [op |-> "add", dev |-> d]
RemovalOf(d) == [op |-> "remove", dev |-> d]

Queued(r) == \E i \in 1 .. Len(queue) : queue[i] = r

RequestsInOrder ==
    \A d \in Devices :
        /\ handler[d] = "present" => ~Queued(RemovalOf(d))
        /\ handler[d] = "gone" =>
             \A i \in 1 .. Len(queue) : queue[i] = AdditionOf(d) =>
                 \E j \in (i + 1) .. Len(queue) : queue[j] = RemovalOf(d)

ListInv == RequestsInOrder /\ DevicesFollowHandlers

\* DevicesFollowHandlers, in the words of the proof.
LEMMA ListedFollow ==
    DevicesFollowHandlers <=>
      \A d \in Devices :
        /\ handler[d] = "gone" /\ nameDeviceMap[NameOf[d]] = d => Queued(RemovalOf(d))
        /\ handler[d] = "present" /\ nameDeviceMap[NameOf[d]] # d =>
             Queued(AdditionOf(d)) \/ \E e \in Devices \ {d} : NameOf[e] = NameOf[d]
  BY DEF DevicesFollowHandlers, Queued, AdditionOf, RemovalOf

\* A new call is queued with those that were ...
LEMMA QueuedEnqueue ==
    ASSUME TypeOK, NEW op \in ConnectOps \cup {"disconnect", "add", "remove"},
           NEW d \in Devices, Enqueue(op, d)
    PROVE  \A r : Queued(r)' <=> Queued(r) \/ r = [op |-> op, dev |-> d]
  <1>1. /\ Len(queue) \in Nat
        /\ Len(queue') = Len(queue) + 1
        /\ \A i \in 1 .. Len(queue) : queue'[i] = queue[i]
        /\ queue'[Len(queue')] = [op |-> op, dev |-> d]
    BY EnqueueQueue
  <1>2. ASSUME NEW i \in 1 .. Len(queue) PROVE i \in 1 .. Len(queue') /\ queue'[i] = queue[i]
    BY <1>1
  <1>3. ASSUME NEW i \in 1 .. Len(queue') PROVE i \in 1 .. Len(queue) \/ i = Len(queue')
    BY <1>1
  <1>4. Len(queue') \in 1 .. Len(queue')
    BY <1>1
  <1> HIDE DEF Enqueue
  <1> QED
    BY <1>1, <1>2, <1>3, <1>4 DEF Queued

\* ... and the one that gets the lock leaves the others queued.
LEMMA QueuedGranted ==
    ASSUME TypeOK, NEW op, Granted(op)
    PROVE  /\ \A r : Queued(r)' => Queued(r)
           /\ \A r : Queued(r) => Queued(r)' \/ r = Head(queue)
  <1>1. /\ Len(queue') = Len(queue) - 1
        /\ \A i \in 1 .. Len(queue') : queue'[i] = queue[i + 1]
        /\ Head(queue) = queue[1]
        /\ Len(queue) \in Nat \ {0}
    BY GrantedQueue
  <1>2. ASSUME NEW i \in 1 .. Len(queue'), TRUE
        PROVE  i + 1 \in 1 .. Len(queue) /\ queue'[i] = queue[i + 1]
    BY <1>1
  <1>3. ASSUME NEW i \in 1 .. Len(queue), i # 1
        PROVE  i - 1 \in 1 .. Len(queue') /\ queue'[i - 1] = queue[i]
    BY <1>1, <1>3
  <1> QED
    BY <1>1, <1>2, <1>3 DEF Queued

\* The order of the calls that wait stays as it is when one that is no
\* announcement joins them ...
LEMMA OrderEnqueue ==
    ASSUME TypeOK, RequestsInOrder, UNCHANGED handler,
           NEW op \in ConnectOps \cup {"disconnect"},
           NEW d \in Devices, Enqueue(op, d)
    PROVE  RequestsInOrder'
  <1>1. /\ Len(queue) \in Nat
        /\ Len(queue') = Len(queue) + 1
        /\ \A i \in 1 .. Len(queue) : queue'[i] = queue[i]
        /\ queue'[Len(queue')] = [op |-> op, dev |-> d]
    BY EnqueueQueue
  <1>2. \A e \in Devices : [op |-> op, dev |-> d] \notin {AdditionOf(e), RemovalOf(e)}
    BY DEF AdditionOf, RemovalOf, ConnectOps
  <1>3. ASSUME NEW e \in Devices, handler'[e] = "present"
        PROVE  ~Queued(RemovalOf(e))'
    BY <1>2, <1>3, QueuedEnqueue DEF RequestsInOrder
  <1>4. ASSUME NEW e \in Devices, handler'[e] = "gone", NEW i \in 1 .. Len(queue'),
               queue'[i] = AdditionOf(e)
        PROVE  \E j \in (i + 1) .. Len(queue') : queue'[j] = RemovalOf(e)
    <2>1. i \in 1 .. Len(queue) /\ queue[i] = AdditionOf(e)
      BY <1>1, <1>2, <1>4
    <2>2. PICK j \in (i + 1) .. Len(queue) : queue[j] = RemovalOf(e)
      BY <1>4, <2>1 DEF RequestsInOrder
    <2>3. j \in (i + 1) .. Len(queue') /\ queue'[j] = queue[j]
      BY <1>1, <2>1
    <2> QED
      BY <2>2, <2>3
  <1> QED
    BY <1>3, <1>4 DEF RequestsInOrder, AdditionOf, RemovalOf, Queued

\* ... and when the first of them is granted the lock.
LEMMA OrderGranted ==
    ASSUME TypeOK, RequestsInOrder, UNCHANGED handler, NEW op, Granted(op)
    PROVE  RequestsInOrder'
  <1>1. /\ Len(queue') = Len(queue) - 1
        /\ \A i \in 1 .. Len(queue') : queue'[i] = queue[i + 1]
        /\ Len(queue) \in Nat \ {0}
    BY GrantedQueue
  <1>2. ASSUME NEW e \in Devices, handler'[e] = "present"
        PROVE  ~Queued(RemovalOf(e))'
    BY <1>2, QueuedGranted DEF RequestsInOrder
  <1>3. ASSUME NEW e \in Devices, handler'[e] = "gone", NEW i \in 1 .. Len(queue'),
               queue'[i] = AdditionOf(e)
        PROVE  \E j \in (i + 1) .. Len(queue') : queue'[j] = RemovalOf(e)
    <2>1. i + 1 \in 1 .. Len(queue) /\ queue[i + 1] = AdditionOf(e)
      BY <1>1, <1>3
    <2>2. PICK j \in (i + 1 + 1) .. Len(queue) : queue[j] = RemovalOf(e)
      BY <1>3, <2>1 DEF RequestsInOrder
    <2>3. j - 1 \in (i + 1) .. Len(queue') /\ queue'[j - 1] = queue[j]
      BY <1>1, <2>1
    <2> QED
      BY <2>2, <2>3
  <1> QED
    BY <1>2, <1>3 DEF RequestsInOrder, AdditionOf, RemovalOf, Queued

\* A device is announced when nothing of it is queued.
LEMMA ListAdded ==
    ASSUME LinkInv, ListInv, NEW d \in Devices, OnDeviceAdded(d)
    PROVE  ListInv'
  <1> USE DEF LinkInv, TypeInv
  <1>1. /\ Enqueue("add", d)
        /\ UNCHANGED nameDeviceMap
        /\ \A r : Queued(r)' <=> Queued(r) \/ r = AdditionOf(d)
    BY EnqueueType, QueuedEnqueue DEF OnDeviceAdded, AdditionOf
  <1>2. /\ Len(queue) \in Nat
        /\ Len(queue') = Len(queue) + 1
        /\ \A i \in 1 .. Len(queue) : queue'[i] = queue[i]
        /\ queue'[Len(queue')] = AdditionOf(d)
    BY <1>1, EnqueueQueue DEF AdditionOf
  <1>3. handler' = [handler EXCEPT ![d] = "present"] /\ handler \in [Devices -> {"absent", "present", "gone"}]
    BY DEF OnDeviceAdded, TypeOK
  <1>4. ~Queued(AdditionOf(d)) /\ ~Queued(RemovalOf(d))
    BY DEF OnDeviceAdded, Forgotten, OnlyAnnounced, Queued, AdditionOf, RemovalOf
  <1>5. \A e \in Devices : AdditionOf(d) # RemovalOf(e)
    BY DEF AdditionOf, RemovalOf
  <1> HIDE DEF LinkInv, TypeInv
  <1>6. ASSUME NEW e \in Devices, handler'[e] = "present"
        PROVE  ~Queued(RemovalOf(e))'
    BY <1>1, <1>3, <1>4, <1>5, <1>6 DEF ListInv, RequestsInOrder
  <1>7. ASSUME NEW e \in Devices, handler'[e] = "gone", NEW i \in 1 .. Len(queue'),
               queue'[i] = AdditionOf(e)
        PROVE  \E j \in (i + 1) .. Len(queue') : queue'[j] = RemovalOf(e)
    <2>1. e # d /\ handler[e] = "gone"
      BY <1>3, <1>7
    <2>2. i \in 1 .. Len(queue) /\ queue[i] = AdditionOf(e)
      BY <1>2, <1>7, <2>1 DEF AdditionOf
    <2>3. PICK j \in (i + 1) .. Len(queue) : queue[j] = RemovalOf(e)
      BY <2>1, <2>2 DEF ListInv, RequestsInOrder
    <2>4. j \in (i + 1) .. Len(queue') /\ queue'[j] = queue[j]
      BY <1>2, <2>2
    <2> QED
      BY <2>3, <2>4
  <1>8. RequestsInOrder'
    BY <1>6, <1>7 DEF RequestsInOrder, AdditionOf, RemovalOf, Queued
  <1>9. ASSUME NEW e \in Devices
        PROVE  /\ handler'[e] = "gone" /\ nameDeviceMap'[NameOf[e]] = e =>
                    Queued(RemovalOf(e))'
               /\ handler'[e] = "present" /\ nameDeviceMap'[NameOf[e]] # e =>
                    Queued(AdditionOf(e))' \/ \E f \in Devices \ {e} : NameOf[f] = NameOf[e]
    BY <1>1, <1>3, ListedFollow DEF ListInv
  <1>10. DevicesFollowHandlers'
    BY <1>9 DEF DevicesFollowHandlers, Queued, AdditionOf, RemovalOf
  <1> QED
    BY <1>8, <1>10 DEF ListInv

\* The removal of a device is queued behind everything else.
LEMMA ListRemoved ==
    ASSUME LinkInv, ListInv, NEW d \in Devices, OnDeviceRemoved(d)
    PROVE  ListInv'
  <1> USE DEF LinkInv, TypeInv
  <1>1. /\ Enqueue("remove", d)
        /\ UNCHANGED nameDeviceMap
        /\ \A r : Queued(r)' <=> Queued(r) \/ r = RemovalOf(d)
    BY EnqueueType, QueuedEnqueue DEF OnDeviceRemoved, RemovalOf
  <1>2. /\ Len(queue) \in Nat
        /\ Len(queue') = Len(queue) + 1
        /\ \A i \in 1 .. Len(queue) : queue'[i] = queue[i]
        /\ queue'[Len(queue')] = RemovalOf(d)
    BY <1>1, EnqueueQueue DEF RemovalOf
  <1>3. handler' = [handler EXCEPT ![d] = "gone"] /\ handler \in [Devices -> {"absent", "present", "gone"}]
    BY DEF OnDeviceRemoved, TypeOK
  <1>4. \A e \in Devices : RemovalOf(d) # AdditionOf(e)
    BY DEF AdditionOf, RemovalOf
  <1> HIDE DEF LinkInv, TypeInv
  <1>5. ASSUME NEW e \in Devices, handler'[e] = "present"
        PROVE  ~Queued(RemovalOf(e))'
    <2>1. e # d /\ handler[e] = "present"
      BY <1>3, <1>5
    <2>2. RemovalOf(e) # RemovalOf(d)
      BY <2>1 DEF RemovalOf
    <2> QED
      BY <1>1, <2>1, <2>2 DEF ListInv, RequestsInOrder
  <1>6. ASSUME NEW e \in Devices, handler'[e] = "gone", NEW i \in 1 .. Len(queue'),
               queue'[i] = AdditionOf(e)
        PROVE  \E j \in (i + 1) .. Len(queue') : queue'[j] = RemovalOf(e)
    <2>1. i \in 1 .. Len(queue) /\ queue[i] = AdditionOf(e)
      BY <1>2, <1>4, <1>6
    <2>2. CASE e = d
      <3>1. Len(queue') \in (i + 1) .. Len(queue')
        BY <1>2, <2>1
      <3> QED
        BY <1>2, <2>2, <3>1
    <2>3. CASE e # d
      <3>1. handler[e] = "gone"
        BY <1>3, <1>6, <2>3
      <3>2. PICK j \in (i + 1) .. Len(queue) : queue[j] = RemovalOf(e)
        BY <2>1, <3>1 DEF ListInv, RequestsInOrder
      <3>3. j \in (i + 1) .. Len(queue') /\ queue'[j] = queue[j]
        BY <1>2, <2>1
      <3> QED
        BY <3>2, <3>3
    <2> QED
      BY <2>2, <2>3
  <1>7. RequestsInOrder'
    BY <1>5, <1>6 DEF RequestsInOrder, AdditionOf, RemovalOf, Queued
  <1>8. ASSUME NEW e \in Devices
        PROVE  /\ handler'[e] = "gone" /\ nameDeviceMap'[NameOf[e]] = e =>
                    Queued(RemovalOf(e))'
               /\ handler'[e] = "present" /\ nameDeviceMap'[NameOf[e]] # e =>
                    Queued(AdditionOf(e))' \/ \E f \in Devices \ {e} : NameOf[f] = NameOf[e]
    BY <1>1, <1>3, ListedFollow DEF ListInv
  <1>9. DevicesFollowHandlers'
    BY <1>8 DEF DevicesFollowHandlers, Queued, AdditionOf, RemovalOf
  <1> QED
    BY <1>7, <1>9 DEF ListInv

\* A device that is gone and gets listed is taken off again by a removal that
\* is still queued.
LEMMA ListAdds ==
    ASSUME LinkInv, ListInv, AddDevice
    PROVE  ListInv'
  <1> DEFINE d == Head(queue).dev
  <1> USE DEF LinkInv, TypeInv
  <1>1. /\ d \in Devices /\ Head(queue) = AdditionOf(d) /\ Granted("add")
        /\ nameDeviceMap' = [nameDeviceMap EXCEPT ![NameOf[d]] = d]
        /\ UNCHANGED handler
        /\ nameDeviceMap \in [Names -> Devices \cup {NoDevice}]
    BY GrantedType DEF AddDevice, AdditionOf, Request, TypeOK
  <1>2. Head(queue) = queue[1] /\ 1 \in 1 .. Len(queue)
    BY <1>1, GrantedQueue
  <1>3. /\ \A r : Queued(r)' => Queued(r)
        /\ \A r : Queued(r) => Queued(r)' \/ r = AdditionOf(d)
    BY <1>1, QueuedGranted
  <1>4. RequestsInOrder'
    BY <1>1, OrderGranted DEF ListInv
  <1>5. handler[d] # "absent"
    BY <1>1, <1>2 DEF OnlyAnnounced
  <1>6. handler[d] = "gone" => Queued(RemovalOf(d))
    BY <1>1, <1>2 DEF ListInv, RequestsInOrder, Queued
  <1> HIDE DEF d, LinkInv, TypeInv
  <1>7. ASSUME NEW e \in Devices
        PROVE  /\ handler'[e] = "gone" /\ nameDeviceMap'[NameOf[e]] = e =>
                    Queued(RemovalOf(e))'
               /\ handler'[e] = "present" /\ nameDeviceMap'[NameOf[e]] # e =>
                    Queued(AdditionOf(e))' \/ \E f \in Devices \ {e} : NameOf[f] = NameOf[e]
    <2>1. NameOf[e] \in Names /\ NameOf[d] \in Names
      BY <1>1, ConnectionAssumption
    <2>2. RemovalOf(e) # AdditionOf(d) /\ (e # d => AdditionOf(e) # AdditionOf(d))
      BY DEF RemovalOf, AdditionOf
    <2>3. CASE e = d
      BY <1>1, <1>3, <1>6, <2>1, <2>2, <2>3
    <2>4. CASE e # d /\ NameOf[e] = NameOf[d]
      BY <1>1, <2>1, <2>4
    <2>5. CASE NameOf[e] # NameOf[d]
      <3>1. nameDeviceMap'[NameOf[e]] = nameDeviceMap[NameOf[e]] /\ e # d
        BY <1>1, <2>1, <2>5
      <3> QED
        BY <1>1, <1>3, <2>2, <3>1, ListedFollow DEF ListInv
    <2> QED
      BY <2>3, <2>4, <2>5
  <1>8. DevicesFollowHandlers'
    BY <1>7 DEF DevicesFollowHandlers, Queued, AdditionOf, RemovalOf
  <1> QED
    BY <1>4, <1>8 DEF ListInv

\* Only a device that is gone is taken off the list, or another of its name.
LEMMA ListRemoves ==
    ASSUME LinkInv, ListInv, RemoveDevice
    PROVE  ListInv'
  <1> DEFINE d == Head(queue).dev
  <1> USE DEF LinkInv, TypeInv
  <1>1. /\ d \in Devices /\ Head(queue) = RemovalOf(d) /\ Granted("remove")
        /\ nameDeviceMap' = [nameDeviceMap EXCEPT ![NameOf[d]] = NoDevice]
        /\ UNCHANGED handler
        /\ nameDeviceMap \in [Names -> Devices \cup {NoDevice}]
    BY GrantedType DEF RemoveDevice, RemovalOf, Request, TypeOK
  <1>2. Head(queue) = queue[1] /\ 1 \in 1 .. Len(queue)
    BY <1>1, GrantedQueue
  <1>3. /\ \A r : Queued(r)' => Queued(r)
        /\ \A r : Queued(r) => Queued(r)' \/ r = RemovalOf(d)
    BY <1>1, QueuedGranted
  <1>4. RequestsInOrder'
    BY <1>1, OrderGranted DEF ListInv
  <1>5. handler[d] # "present"
    BY <1>1, <1>2 DEF ListInv, RequestsInOrder, Queued
  <1> HIDE DEF d, LinkInv, TypeInv
  <1>6. ASSUME NEW e \in Devices
        PROVE  /\ handler'[e] = "gone" /\ nameDeviceMap'[NameOf[e]] = e =>
                    Queued(RemovalOf(e))'
               /\ handler'[e] = "present" /\ nameDeviceMap'[NameOf[e]] # e =>
                    Queued(AdditionOf(e))' \/ \E f \in Devices \ {e} : NameOf[f] = NameOf[e]
    <2>1. NameOf[e] \in Names /\ NameOf[d] \in Names /\ e # NoDevice
      BY <1>1, ConnectionAssumption
    <2>2. AdditionOf(e) # RemovalOf(d) /\ (e # d => RemovalOf(e) # RemovalOf(d))
      BY DEF RemovalOf, AdditionOf
    <2>3. CASE NameOf[e] = NameOf[d]
      BY <1>1, <1>5, <2>1, <2>3
    <2>4. CASE NameOf[e] # NameOf[d]
      <3>1. nameDeviceMap'[NameOf[e]] = nameDeviceMap[NameOf[e]] /\ e # d
        BY <1>1, <2>1, <2>4
      <3> QED
        BY <1>1, <1>3, <2>2, <3>1, ListedFollow DEF ListInv
    <2> QED
      BY <2>3, <2>4
  <1>7. DevicesFollowHandlers'
    BY <1>6 DEF DevicesFollowHandlers, Queued, AdditionOf, RemovalOf
  <1> QED
    BY <1>4, <1>7 DEF ListInv

\* No other call touches the list.
LEMMA ListElsewhere ==
    ASSUME LinkInv, ListInv, UNCHANGED <<handler, nameDeviceMap>>,
           \A e \in Devices : /\ Queued(RemovalOf(e))' <=> Queued(RemovalOf(e))
                              /\ Queued(AdditionOf(e))' <=> Queued(AdditionOf(e)),
           RequestsInOrder'
    PROVE  ListInv'
  <1>1. ASSUME NEW e \in Devices
        PROVE  /\ handler'[e] = "gone" /\ nameDeviceMap'[NameOf[e]] = e =>
                    Queued(RemovalOf(e))'
               /\ handler'[e] = "present" /\ nameDeviceMap'[NameOf[e]] # e =>
                    Queued(AdditionOf(e))' \/ \E f \in Devices \ {e} : NameOf[f] = NameOf[e]
    BY ListedFollow DEF ListInv
  <1>2. DevicesFollowHandlers'
    BY <1>1 DEF DevicesFollowHandlers, Queued, AdditionOf, RemovalOf
  <1> QED
    BY <1>2 DEF ListInv

\* A device that is gone is taken off the list, one that is present is put on
\* it, however their announcements, connections and disconnections interleave.
THEOREM ListFollowsHandlers == Spec => []DevicesFollowHandlers
  <1>1. Init => ListInv
    BY ConnectionAssumption, EmptySeq DEF Init, ListInv, RequestsInOrder, DevicesFollowHandlers
  <1>2. LinkInv /\ ListInv /\ [Next]_vars => ListInv'
    <2> SUFFICES ASSUME LinkInv, ListInv, [Next]_vars PROVE ListInv'
      OBVIOUS
    <2>0. TypeOK /\ RequestsInOrder
      BY DEF LinkInv, TypeInv, ListInv
    <2>1. ASSUME NEW d \in Devices, OnDeviceAdded(d) PROVE ListInv'
      BY <2>1, ListAdded
    <2>2. ASSUME NEW d \in Devices, OnDeviceRemoved(d) PROVE ListInv'
      BY <2>2, ListRemoved
    <2>3. ASSUME NEW op \in ConnectOps \cup {"disconnect"}, NEW d \in Devices,
                 Enqueue(op, d), UNCHANGED handler
          PROVE  ListInv'
      <3>1. \A e \in Devices : [op |-> op, dev |-> d] \notin {AdditionOf(e), RemovalOf(e)}
        BY DEF AdditionOf, RemovalOf, ConnectOps
      <3>2. \A r : Queued(r)' <=> Queued(r) \/ r = [op |-> op, dev |-> d]
        BY <2>0, <2>3, QueuedEnqueue
      <3>3. UNCHANGED nameDeviceMap /\ RequestsInOrder'
        BY <2>0, <2>3, EnqueueType, OrderEnqueue
      <3> QED
        BY <2>3, <3>1, <3>2, <3>3, ListElsewhere
    <2>4. ASSUME NEW d \in Devices,
                 \/ ConnectDeviceName(d) \/ DisconnectDeviceName(d)
                 \/ OnBluetoothProfileSelfConnected(d)
                 \/ OnBluetoothProfileSelfDisconnected(d) \/ OnDisconnected(d)
          PROVE  ListInv'
      BY <2>3, <2>4 DEF ConnectDeviceName, DisconnectDeviceName, ConnectOps,
         OnBluetoothProfileSelfConnected, OnBluetoothProfileSelfDisconnected,
         OnDisconnected
    <2>5. CASE OnSelfDisconnect
      BY <2>0, <2>3, <2>5 DEF OnSelfDisconnect, TypeOK
    <2>6. CASE AddDevice
      BY <2>6, ListAdds
    <2>7. CASE RemoveDevice
      BY <2>7, ListRemoves
    <2>8. CASE DisconnectDevice \/ RefuseSelfConnect \/ SwitchDevice \/ AdmitConnect
      <3>1. PICK op \in ConnectOps \cup {"disconnect"} : Granted(op)
        BY <2>8 DEF DisconnectDevice, RefuseSelfConnect, SwitchDevice, AdmitConnect, ConnectOps
      <3>2. UNCHANGED <<handler, nameDeviceMap>>
        BY <2>8 DEF DisconnectDevice, RefuseSelfConnect, SwitchDevice, AdmitConnect
      <3>3. \A e \in Devices : Head(queue) \notin {AdditionOf(e), RemovalOf(e)}
        BY <3>1 DEF Granted, AdditionOf, RemovalOf, ConnectOps
      <3>4. /\ \A r : Queued(r)' => Queued(r)
            /\ \A r : Queued(r) => Queued(r)' \/ r = Head(queue)
        BY <2>0, <3>1, QueuedGranted
      <3>5. RequestsInOrder'
        BY <2>0, <3>1, <3>2, OrderGranted
      <3> QED
        BY <3>2, <3>3, <3>4, <3>5, ListElsewhere
    <2>9. CASE \/ Disconnected \/ Switched \/ RejectConnect \/ BeginConnect
               \/ ConnectFailed \/ Connected \/ StartFailed \/ DoStartSettles
               \/ UNCHANGED vars
      <3>1. UNCHANGED <<queue, handler, nameDeviceMap>>
        BY <2>9 DEF Disconnected, Switched, RejectConnect, BeginConnect,
           ConnectFailed, Connected, StartFailed, DoStartSettles, SessionStarted,
           DoStartFailed, vars
      <3> QED
        BY <3>1 DEF ListInv, RequestsInOrder, DevicesFollowHandlers, Queued
    <2> QED
      BY <2>1, <2>2, <2>4, <2>5, <2>6, <2>7, <2>8, <2>9 DEF Next, Event, Progress
  <1>3. ListInv => DevicesFollowHandlers
    BY DEF ListInv
  <1> QED
    BY <1>1, <1>2, <1>3, LinkInvAlways, PTL DEF Spec

=============================================================================
