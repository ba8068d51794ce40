-------------------------- MODULE UsbDevices_proofs --------------------------
(***************************************************************************)
(* Proofs about UsbDevices, for every set of phones, whatever they become  *)
(* on the bus, and every bound on the events under way.                    *)
(***************************************************************************)
EXTENDS UsbDevices, TLAPS, SequenceTheorems

Calls == AddCalls \cup RemoveCalls

-----------------------------------------------------------------------------
(***************************************************************************)
(* What happens to the calls that wait for the lock.                       *)
(***************************************************************************)
\* The loop of waitForDevices appends one call, or none.
LEMMA AddNextAppends ==
    ASSUME NEW rest \in SUBSET Impls, NEW calls \in Seq(Calls), AddNext(rest, calls)
    PROVE  /\ toList' \in SUBSET rest
           /\ queue' \in Seq(Calls)
           /\ Len(calls) \in Nat /\ Len(queue') \in Nat
           /\ Len(calls) <= Len(queue')
           /\ \A k \in 1 .. Len(calls) : queue'[k] = calls[k]
           /\ \A k \in 1 .. Len(queue') :
                k \notin 1 .. Len(calls) =>
                    /\ queue'[k].op = "add"
                    /\ queue'[k].dev.impl \in rest
  <1>1. CASE rest = {}
    BY <1>1 DEF AddNext
  <1>2. CASE rest # {}
    <2>1. PICK i \in rest : toList' = rest \ {i} /\ queue' = Append(calls, AddCall(i, TRUE))
      BY <1>2 DEF AddNext
    <2> DEFINE call == AddCall(i, TRUE)
    <2>2. call \in Calls
      BY DEF AddCall, Calls, AddCalls, Devices
    <2>3. call.op = "add" /\ call.dev.impl = i
      BY DEF AddCall
    <2>a. toList' = rest \ {i} /\ queue' = Append(calls, call)
      BY <2>1
    <2> HIDE DEF call
    <2>4. /\ queue' \in Seq(Calls)
          /\ Len(queue') = Len(calls) + 1
          /\ \A k \in 1 .. Len(calls) : queue'[k] = calls[k]
          /\ queue'[Len(calls) + 1] = call
      BY <2>a, <2>2, AppendProperties
    <2>5. Len(calls) \in Nat
      BY LenProperties
    <2>6. \A k \in 1 .. Len(queue') : k \notin 1 .. Len(calls) => k = Len(calls) + 1
      BY <2>4, <2>5
    <2> QED
      BY <2>a, <2>3, <2>4, <2>5, <2>6
  <1> QED
    BY <1>1, <1>2

\* The end of a call, with the calls then waiting, does the same.
LEMMA ReleaseAppends ==
    ASSUME toList \in SUBSET Impls, NEW calls \in Seq(Calls), NEW d, Release(d, calls)
    PROVE  /\ holder' = Idle
           /\ toList' \in SUBSET toList
           /\ queue' \in Seq(Calls)
           /\ Len(calls) \in Nat /\ Len(queue') \in Nat
           /\ Len(calls) <= Len(queue')
           /\ \A k \in 1 .. Len(calls) : queue'[k] = calls[k]
           /\ \A k \in 1 .. Len(queue') :
                k \notin 1 .. Len(calls) =>
                    /\ queue'[k].op = "add"
                    /\ queue'[k].dev.impl \in toList
  <1>1. CASE d.existing
    BY <1>1, AddNextAppends DEF Release
  <1>2. CASE ~d.existing
    BY <1>2, LenProperties DEF Release
  <1> QED
    BY <1>1, <1>2

\* The call that gets the lock is the first, and the others move up.
LEMMA FirstCall ==
    ASSUME queue \in Seq(Calls), JobReady
    PROVE  /\ Head(queue) = queue[1] /\ Head(queue) \in Calls
           /\ Tail(queue) \in Seq(Calls)
           /\ Len(queue) \in Nat /\ 1 <= Len(queue)
           /\ Len(Tail(queue)) = Len(queue) - 1
           /\ \A k \in 1 .. Len(Tail(queue)) : Tail(queue)[k] = queue[k + 1]
  BY HeadTailProperties DEF JobReady

LEMMA FirstEvent ==
    ASSUME TypeOK, NEW op, Deliver(op)
    PROVE  /\ Head(hotplug) = hotplug[1]
           /\ Head(hotplug).impl \in Impls /\ hotplug[1].op = op
           /\ Len(hotplug) \in Nat /\ 1 <= Len(hotplug)
           /\ hotplug' \in Seq(Events)
           /\ Len(hotplug') = Len(hotplug) - 1
           /\ \A k \in 1 .. Len(hotplug') : hotplug'[k] = hotplug[k + 1]
  <1>1. hotplug \in Seq(Events) /\ hotplug # <<>> /\ hotplug' = Tail(hotplug)
    BY DEF Deliver, TypeOK
  <1>2. /\ Head(hotplug) = hotplug[1] /\ hotplug[1] \in Events
        /\ Len(hotplug) \in Nat /\ 1 <= Len(hotplug)
        /\ Len(Tail(hotplug)) = Len(hotplug) - 1
        /\ \A k \in 1 .. Len(Tail(hotplug)) : Tail(hotplug)[k] = hotplug[k + 1]
        /\ Tail(hotplug) \in Seq(Events)
    BY <1>1, HeadTailProperties
  <1> QED
    BY <1>1, <1>2 DEF Deliver, Events

-----------------------------------------------------------------------------
(***************************************************************************)
(* Type correctness.                                                       *)
(***************************************************************************)
LEMMA TypeInit == Init => TypeOK
  BY DEF Init, TypeOK, Idle, NoDevice, Fresh, DeviceStates

LEMMA ProbedType == \A d : ProbedState(d) \in DeviceStates
  BY DEF ProbedState, DeviceStates

LEMMA HeardType ==
    ASSUME TypeOK, NEW op \in {"attach", "detach"}, NEW i \in Impls, Heard(Event(op, i))
    PROVE  hotplug' \in Seq(Events)
  <1>1. Event(op, i) \in Events
    BY DEF Event, Events
  <1> QED
    BY <1>1, AppendProperties DEF Heard, TypeOK

LEMMA ListDeviceType ==
    ASSUME TypeOK, UsbAssumption, NEW d \in Devices, ListDevice(d)
    PROVE  /\ queue' \in Seq(Calls) /\ toList' \in SUBSET Impls /\ holder' = Idle
           /\ deviceMap' \in [Serials -> Devices \cup {NoDevice}]
           /\ implUniqueIdMap' \in [Impls -> Serials \cup {None}]
           /\ UNCHANGED <<bus, hotplug, phase, before>>
  <1>1. queue \in Seq(Calls) /\ toList \in SUBSET Impls
    BY DEF TypeOK, Calls
  <1>2. SerialOfDevice(d) \in Serials
    BY DEF Devices, UsbAssumption, SerialOfDevice
  <1> QED
    BY <1>1, <1>2, ReleaseAppends DEF ListDevice, AddDeviceHook, TypeOK

LEMMA TypeStep == TypeOK /\ [Next]_vars => TypeOK'
  <1> SUFFICES ASSUME TypeOK, [Next]_vars PROVE TypeOK'
    OBVIOUS
  <1> USE UsbAssumption
  <1>q. queue \in Seq(Calls) /\ toList \in SUBSET Impls
    BY DEF TypeOK, Calls
  <1>1. ASSUME NEW i \in Impls, Attach(i) PROVE TypeOK'
    <2>1. hotplug' \in Seq(Events)
      BY <1>1, HeardType DEF Attach
    <2> QED
      BY <1>1, <2>1 DEF Attach, TypeOK, Fresh, DeviceStates
  <1>2. ASSUME NEW i \in Impls, Detach(i) PROVE TypeOK'
    <2>1. hotplug' \in Seq(Events)
      BY <1>2, HeardType DEF Detach
    <2> QED
      BY <1>2, <2>1 DEF Detach, TypeOK
  <1>3. CASE Listen
    BY <1>3 DEF Listen, TypeOK
  <1>4. CASE GetDeviceList
    <2>1. queue' \in Seq(Calls) /\ toList' \in SUBSET Impls
      BY <1>4, <1>q, AddNextAppends DEF GetDeviceList, TypeOK
    <2> QED
      BY <1>4, <2>1 DEF GetDeviceList, TypeOK, Calls
  <1>5. CASE StopWaitingForDevices
    BY <1>5 DEF StopWaitingForDevices, TypeOK
  <1>6. CASE AddDevice
    <2>1. AddCall(Head(hotplug).impl, FALSE) \in Calls
      BY <1>6, FirstEvent DEF AddDevice, AddCall, Calls, AddCalls, Devices
    <2>2. queue' \in Seq(Calls)
      BY <1>6, <1>q, <2>1, AppendProperties DEF AddDevice
    <2> QED
      BY <1>6, <2>2, FirstEvent DEF AddDevice, Deliver, TypeOK, Calls
  <1>7. CASE RemoveDeviceImpl
    <2>1. Head(hotplug).impl \in Impls
      BY <1>7, FirstEvent DEF RemoveDeviceImpl
    <2>2. queue' \in Seq(Calls)
      BY <1>7, <1>q, <2>1 DEF RemoveDeviceImpl, TypeOK, Calls, RemoveCall, RemoveCalls
    <2> QED
      BY <1>7, <2>2, FirstEvent DEF RemoveDeviceImpl, Deliver, TypeOK, Calls
  <1>8. ASSUME NEW d \in Devices, CreateDevice(d) PROVE TypeOK'
    BY <1>8, <1>q, FirstCall DEF CreateDevice, Begins, TypeOK, Calls, Steps
  <1>9. ASSUME NEW d \in Devices, CannotOpen(d) PROVE TypeOK'
    <2>1. queue' \in Seq(Calls) /\ toList' \in SUBSET Impls /\ holder' = Idle
      BY <1>9, <1>q, FirstCall, ReleaseAppends DEF CannotOpen, Begins
    <2> QED
      BY <1>9, <2>1 DEF CannotOpen, TypeOK, Calls
  <1>10. ASSUME NEW d \in Devices, CreateFails(d) PROVE TypeOK'
    <2>1. queue' \in Seq(Calls) /\ toList' \in SUBSET Impls /\ holder' = Idle
      BY <1>10, <1>q, ReleaseAppends DEF CreateFails
    <2> QED
      BY <1>10, <2>1 DEF CreateFails, TypeOK, Calls
  <1>11. ASSUME NEW d \in Devices, ProbeAvailable(d) PROVE TypeOK'
    BY <1>11, ListDeviceType DEF ProbeAvailable, TypeOK, Calls, DeviceStates
  <1>12. ASSUME NEW d \in Devices, OpenForProbe(d) PROVE TypeOK'
    BY <1>12, ProbedType DEF OpenForProbe, TypeOK, Steps
  <1>13. ASSUME NEW d \in Devices, ProbeCannotOpen(d) PROVE TypeOK'
    BY <1>13, ListDeviceType, ProbedType DEF ProbeCannotOpen, TypeOK, Calls
  <1>14. ASSUME NEW d \in Devices, ProbeEnds(d) PROVE TypeOK'
    BY <1>14, ListDeviceType DEF ProbeEnds, TypeOK, Calls
  <1>15. ASSUME NEW d \in Devices, ResetEnds(d) PROVE TypeOK'
    BY <1>15, ListDeviceType DEF ResetEnds, TypeOK, Calls
  <1>16. ASSUME NEW s \in Serials, RemoveDevice(s) PROVE TypeOK'
    <2>1. queue' \in Seq(Calls)
      BY <1>16, <1>q, FirstCall DEF RemoveDevice
    <2>2. /\ deviceMap' \in [Serials -> Devices \cup {NoDevice}]
          /\ implUniqueIdMap' \in [Impls -> Serials \cup {None}]
      BY <1>16 DEF RemoveDevice, RemoveDeviceHook, TypeOK
    <2> QED
      BY <1>16, <2>1, <2>2 DEF RemoveDevice, TypeOK, Calls
  <1>17. ASSUME NEW d \in Devices, ConnectOpens(d) PROVE TypeOK'
    BY <1>17 DEF ConnectOpens, TypeOK, DeviceStates
  <1>18. ASSUME NEW d \in Devices, DisconnectBegins(d) PROVE TypeOK'
    BY <1>18 DEF DisconnectBegins, TypeOK, DeviceStates
  <1>19. ASSUME NEW d \in Devices, DisconnectEnds(d) PROVE TypeOK'
    BY <1>19 DEF DisconnectEnds, TypeOK, DeviceStates
  <1>20. CASE UNCHANGED vars
    BY <1>20 DEF vars, TypeOK
  <1> QED
    BY <1>1, <1>2, <1>3, <1>4, <1>5, <1>6, <1>7, <1>8, <1>9, <1>10, <1>11,
       <1>12, <1>13, <1>14, <1>15, <1>16, <1>17, <1>18, <1>19, <1>20
       DEF Next, Bus, Server, Handler, Adds

\* The types of the variables: what is listed, held or waited for is always an
\* impl of the library or nothing, whatever the bus does.
THEOREM TypeCorrect == Spec => []TypeOK
  BY TypeInit, TypeStep, PTL DEF Spec

-----------------------------------------------------------------------------
(***************************************************************************)
(* The two maps agree: an impl is entered under its own serial number, and *)
(* every listed device's impl is entered.                                  *)
(***************************************************************************)
EntriesMatch == \A i \in Impls : implUniqueIdMap[i] \in {None, SerialOf[i]}

MapInv == TypeOK /\ EntriesMatch /\ DetachFindsDevice

LEMMA NoDeviceIsNone == NoDevice \notin Devices /\ None \notin Impls /\ None \notin Serials
  BY UsbAssumption DEF NoDevice, Devices

LEMMA MapInvInit == Init => MapInv
  BY TypeInit DEF Init, MapInv, EntriesMatch, DetachFindsDevice

\* Only the end of an addition and a removal change the maps.
LEMMA MapsChange ==
    ASSUME [Next]_vars
    PROVE  \/ UNCHANGED <<deviceMap, implUniqueIdMap>>
           \/ \E d \in Devices : ListDevice(d) /\ holder.dev = d
           \/ \E s \in Serials : RemoveDevice(s)
  <1> DEFINE Same == UNCHANGED <<deviceMap, implUniqueIdMap>>
  <1>1. CASE Bus
    BY <1>1 DEF Bus, Attach, Detach
  <1>2. CASE Server
    BY <1>2 DEF Server, StopWaitingForDevices, ConnectOpens, DisconnectBegins, DisconnectEnds
  <1>3. CASE Listen \/ GetDeviceList \/ AddDevice \/ RemoveDeviceImpl
    BY <1>3 DEF Listen, GetDeviceList, AddDevice, RemoveDeviceImpl, Deliver
  <1>4. ASSUME NEW d \in Devices, Adds(d)
        PROVE  Same \/ (ListDevice(d) /\ holder.dev = d)
    BY <1>4 DEF Adds, CreateDevice, CannotOpen, CreateFails, ProbeAvailable, OpenForProbe,
       ProbeCannotOpen, ProbeEnds, ResetEnds, In
  <1>5. CASE UNCHANGED vars
    BY <1>5 DEF vars
  <1> QED
    BY <1>1, <1>2, <1>3, <1>4, <1>5 DEF Next, Handler

LEMMA MapInvStep == MapInv /\ [Next]_vars => MapInv'
  <1> SUFFICES ASSUME MapInv, [Next]_vars PROVE MapInv'
    OBVIOUS
  <1> USE NoDeviceIsNone
  <1>1. TypeOK'
    BY TypeStep DEF MapInv
  <1>2. CASE UNCHANGED <<deviceMap, implUniqueIdMap>>
    BY <1>1, <1>2 DEF MapInv, EntriesMatch, DetachFindsDevice
  <1>3. ASSUME NEW d \in Devices, ListDevice(d) PROVE MapInv'
    <2>1. d.impl \in Impls /\ SerialOfDevice(d) = SerialOf[d.impl] /\ d # NoDevice
      BY DEF Devices, SerialOfDevice
    <2>2. /\ deviceMap' = [deviceMap EXCEPT ![SerialOf[d.impl]] = d]
          /\ implUniqueIdMap' = [implUniqueIdMap EXCEPT ![d.impl] = SerialOf[d.impl]]
      BY <1>3, <2>1 DEF ListDevice, AddDeviceHook
    <2>3. EntriesMatch'
      BY <2>1, <2>2 DEF MapInv, TypeOK, EntriesMatch
    <2>4. ASSUME NEW s \in Serials, deviceMap'[s] # NoDevice
          PROVE  implUniqueIdMap'[deviceMap'[s].impl] = s
      <3>1. CASE s = SerialOf[d.impl]
        BY <2>1, <2>2, <3>1 DEF MapInv, TypeOK
      <3>2. CASE s # SerialOf[d.impl]
        <4>1. deviceMap'[s] = deviceMap[s] /\ deviceMap[s].impl \in Impls
          BY <2>2, <2>4, <3>2 DEF MapInv, TypeOK, Devices
        <4>2. implUniqueIdMap[deviceMap[s].impl] = s /\ deviceMap[s].impl # d.impl
          BY <4>1, <2>4, <3>2 DEF MapInv, DetachFindsDevice, EntriesMatch
        <4> QED
          BY <2>2, <4>1, <4>2 DEF MapInv, TypeOK
      <3> QED
        BY <3>1, <3>2
    <2> QED
      BY <1>1, <2>3, <2>4 DEF MapInv, DetachFindsDevice
  <1>4. ASSUME NEW s \in Serials, RemoveDevice(s) PROVE MapInv'
    <2>1. CASE deviceMap[s] = NoDevice
      BY <1>1, <1>4, <2>1 DEF RemoveDevice, MapInv, EntriesMatch, DetachFindsDevice
    <2>2. CASE deviceMap[s] # NoDevice
      <3>1. /\ deviceMap' = [deviceMap EXCEPT ![s] = NoDevice]
            /\ implUniqueIdMap' = [i \in Impls |->
                 IF implUniqueIdMap[i] = s THEN None ELSE implUniqueIdMap[i]]
        BY <1>4, <2>2 DEF RemoveDevice, RemoveDeviceHook
      <3>2. EntriesMatch'
        BY <3>1 DEF MapInv, EntriesMatch
      <3>3. ASSUME NEW u \in Serials, deviceMap'[u] # NoDevice
            PROVE  implUniqueIdMap'[deviceMap'[u].impl] = u
        <4>1. u # s /\ deviceMap'[u] = deviceMap[u] /\ deviceMap[u].impl \in Impls
          BY <3>1, <3>3 DEF MapInv, TypeOK, Devices
        <4> QED
          BY <3>1, <3>3, <4>1 DEF MapInv, DetachFindsDevice
      <3> QED
        BY <1>1, <3>2, <3>3 DEF MapInv, DetachFindsDevice
    <2> QED
      BY <2>1, <2>2
  <1> QED
    BY <1>2, <1>3, <1>4, MapsChange

LEMMA MapInvariant == Spec => []MapInv
  BY MapInvInit, MapInvStep, PTL DEF Spec

\* The detach event of a listed device finds it: no addition, replacement or
\* removal, in whatever order, leaves a listed device without its entry.
THEOREM DetachIsHeard == Spec => []DetachFindsDevice
  <1>1. MapInv => DetachFindsDevice
    BY DEF MapInv
  <1> QED
    BY <1>1, MapInvariant, PTL

-----------------------------------------------------------------------------
(***************************************************************************)
(* RemovedHasLeft.  A removal names a serial number, so it must not come   *)
(* to its turn when a later impl of that phone is listed.  It does not     *)
(* because the events come in the order of the bus and the calls are       *)
(* served in the order of the events: while the detach event of an impl is *)
(* under way, or the removal it has asked for, the impl the phone is back  *)
(* as has not got past it.                                                 *)
(***************************************************************************)
OnePerSerial == \A i, j \in bus : SerialOf[i] = SerialOf[j] => i = j

\* Nothing is listed before the handler listens to events and has the list.
NothingYet ==
    phase \in {"start", "listening"} =>
        /\ holder = Idle /\ queue = <<>> /\ toList = {}
        /\ \A i \in Impls : implUniqueIdMap[i] = None
        /\ \A s \in Serials : deviceMap[s] = NoDevice

DetachedHasLeft ==
    \A k \in 1 .. Len(hotplug) : hotplug[k].op = "detach" => hotplug[k].impl \notin bus

InHands(j) == holder.dev.impl = j \/ deviceMap[SerialOf[j]].impl = j
Adding(call, j) == call.op = "add" /\ call.dev.impl = j

\* No impl of the phone is in front of the k-th event, or past the events.
BehindEvent(s, k) ==
    \A j \in bus :
        SerialOf[j] = s =>
            /\ ~InHands(j) /\ j \notin toList
            /\ \A l \in 1 .. Len(queue) : ~Adding(queue[l], j)
            /\ \A l \in 1 .. k - 1 : ~(hotplug[l].op = "attach" /\ hotplug[l].impl = j)

\* An impl that has left before it was added will not be, and its detach
\* event will not be heeded.
NeverAdded(i) == implUniqueIdMap[i] = None /\ holder.dev.impl # i

DetachInOrder ==
    \A k \in 1 .. Len(hotplug) :
        hotplug[k].op = "detach" =>
            NeverAdded(hotplug[k].impl) \/ BehindEvent(SerialOf[hotplug[k].impl], k)

\* No impl of the phone is in front of the k-th call, or past the lock.
BehindCall(s, k) ==
    \A j \in bus :
        SerialOf[j] = s =>
            ~InHands(j) /\ (\A l \in 1 .. k - 1 : ~Adding(queue[l], j))

RemoveInOrder ==
    \A k \in 1 .. Len(queue) :
        queue[k].op = "remove" => BehindCall(queue[k].serial, k)

OrderInv ==
    /\ MapInv
    /\ OnePerSerial /\ NothingYet /\ DetachedHasLeft
    /\ DetachInOrder /\ RemoveInOrder

LEMMA OrderInvInit == Init => OrderInv
  <1> SUFFICES ASSUME Init PROVE OrderInv
    OBVIOUS
  <1>1. MapInv
    BY MapInvInit
  <1>2. OnePerSerial /\ NothingYet
    BY DEF Init, OnePerSerial, NothingYet
  <1>3. DetachedHasLeft /\ DetachInOrder /\ RemoveInOrder
    BY DEF Init, DetachedHasLeft, DetachInOrder, RemoveInOrder
  <1> QED
    BY <1>1, <1>2, <1>3 DEF OrderInv

\* An event of the bus comes behind those that are under way.
LEMMA HeardAppends ==
    ASSUME TypeOK, NEW op \in {"attach", "detach"}, NEW i \in Impls, Heard(Event(op, i))
    PROVE  /\ Len(hotplug) \in Nat /\ Len(hotplug') \in Nat
           /\ Len(hotplug) <= Len(hotplug')
           /\ \A k \in 1 .. Len(hotplug) : hotplug'[k] = hotplug[k]
           /\ \A k \in 1 .. Len(hotplug') :
                k \notin 1 .. Len(hotplug) =>
                    k = Len(hotplug) + 1 /\ hotplug'[k].op = op /\ hotplug'[k].impl = i
  <1> DEFINE e == Event(op, i)
  <1>1. e \in Events /\ e.op = op /\ e.impl = i
    BY DEF Event, Events
  <1>2. hotplug' = hotplug \/ hotplug' = Append(hotplug, e)
    BY DEF Heard
  <1>3. hotplug \in Seq(Events) /\ Len(hotplug) \in Nat
    BY LenProperties DEF TypeOK
  <1> HIDE DEF e
  <1>4. CASE hotplug' = hotplug
    BY <1>3, <1>4
  <1>5. CASE hotplug' = Append(hotplug, e)
    BY <1>1, <1>3, <1>5, AppendProperties
  <1> QED
    BY <1>2, <1>4, <1>5

\* Nothing on the way concerns a forgotten impl.
LEMMA ForgottenIsNowhere ==
    ASSUME TypeOK, NEW i \in Impls, Forgotten(i)
    PROVE  /\ ~InHands(i) /\ i \notin toList
           /\ \A k \in 1 .. Len(queue) : ~Adding(queue[k], i)
           /\ \A k \in 1 .. Len(hotplug) : hotplug[k].impl # i
  <1>1. ASSUME NEW k \in 1 .. Len(queue), Adding(queue[k], i) PROVE FALSE
    <2>1. queue[k] \in AddCalls \cup RemoveCalls
      BY LenProperties DEF TypeOK
    <2>2. queue[k] \in AddCalls
      BY <1>1, <2>1 DEF Adding, RemoveCalls
    <2>3. PICK existing \in BOOLEAN : queue[k].dev = [impl |-> i, existing |-> existing]
      BY <1>1, <2>2 DEF Adding, AddCalls, Devices
    <2>4. queue[k] = AddCall(i, existing)
      BY <2>2, <2>3 DEF AddCalls, AddCall
    <2> QED
      BY <2>4 DEF Forgotten, Waiting
  <1>2. SerialOf[i] \in Serials
    BY UsbAssumption
  <1> QED
    BY <1>1, <1>2 DEF Forgotten, InHands

LEMMA OrderAttach ==
    ASSUME OrderInv, MapInv', NEW i \in Impls, Attach(i)
    PROVE  OrderInv'
  <1>1. /\ bus' = bus \cup {i}
        /\ UNCHANGED <<phase, toList, queue, holder, deviceMap, implUniqueIdMap>>
    BY DEF Attach
  <1>2. TypeOK
    BY DEF OrderInv, MapInv
  <1>3. /\ ~InHands(i) /\ i \notin toList
        /\ \A k \in 1 .. Len(queue) : ~Adding(queue[k], i)
        /\ \A k \in 1 .. Len(hotplug) : hotplug[k].impl # i
    BY <1>2, ForgottenIsNowhere DEF Attach
  <1>4. /\ Len(hotplug) \in Nat /\ Len(hotplug') \in Nat
        /\ \A k \in 1 .. Len(hotplug) : hotplug'[k] = hotplug[k]
        /\ \A k \in 1 .. Len(hotplug') :
             k \notin 1 .. Len(hotplug) =>
                 k = Len(hotplug) + 1 /\ hotplug'[k].op = "attach" /\ hotplug'[k].impl = i
    BY <1>2, HeardAppends DEF Attach
  <1>5. OnePerSerial' /\ NothingYet'
    BY <1>1 DEF Attach, OrderInv, OnePerSerial, NothingYet
  <1>6. DetachedHasLeft'
    BY <1>1, <1>3, <1>4 DEF OrderInv, DetachedHasLeft
  <1>7. ASSUME NEW k \in 1 .. Len(hotplug'), hotplug'[k].op = "detach"
        PROVE  NeverAdded(hotplug[k].impl)' \/ BehindEvent(SerialOf[hotplug[k].impl], k)'
    <2>1. k \in 1 .. Len(hotplug) /\ hotplug'[k] = hotplug[k]
      BY <1>4, <1>7
    <2>2. CASE NeverAdded(hotplug[k].impl)
      BY <1>1, <2>1, <2>2 DEF NeverAdded
    <2>3. CASE BehindEvent(SerialOf[hotplug[k].impl], k)
      <3>1. \A l \in 1 .. k - 1 : l \in 1 .. Len(hotplug)
        BY <1>4, <2>1
      <3>2. ASSUME NEW j \in bus', SerialOf[j] = SerialOf[hotplug[k].impl]
            PROVE  /\ ~InHands(j) /\ j \notin toList
                   /\ \A l \in 1 .. Len(queue) : ~Adding(queue[l], j)
                   /\ \A l \in 1 .. k - 1 :
                        ~(hotplug[l].op = "attach" /\ hotplug[l].impl = j)
        <4>1. CASE j = i
          BY <1>3, <3>1, <4>1
        <4>2. CASE j \in bus
          BY <2>3, <3>2, <4>2 DEF BehindEvent
        <4> QED
          BY <1>1, <4>1, <4>2
      <3>3. \A l \in 1 .. k - 1 : hotplug'[l] = hotplug[l]
        BY <1>4, <3>1
      <3> QED
        BY <1>1, <2>1, <3>2, <3>3 DEF BehindEvent, InHands
    <2> QED
      BY <2>1, <2>2, <2>3, <1>7 DEF OrderInv, DetachInOrder
  <1>8. RemoveInOrder'
    <2>1. Len(queue) \in Nat
      BY <1>2, LenProperties DEF TypeOK
    <2> QED
      BY <1>1, <1>3, <2>1 DEF OrderInv, RemoveInOrder, BehindCall, InHands
  <1> QED
    BY <1>5, <1>6, <1>7, <1>8 DEF OrderInv, DetachInOrder

LEMMA OrderDetach ==
    ASSUME OrderInv, MapInv', NEW i \in Impls, Detach(i)
    PROVE  OrderInv'
  <1>1. /\ bus' = bus \ {i} /\ i \in bus
        /\ UNCHANGED <<phase, toList, queue, holder, deviceMap, implUniqueIdMap>>
    BY DEF Detach
  <1>2. TypeOK
    BY DEF OrderInv, MapInv
  <1>4. /\ Len(hotplug) \in Nat /\ Len(hotplug') \in Nat
        /\ \A k \in 1 .. Len(hotplug) : hotplug'[k] = hotplug[k]
        /\ \A k \in 1 .. Len(hotplug') :
             k \notin 1 .. Len(hotplug) =>
                 k = Len(hotplug) + 1 /\ hotplug'[k].op = "detach" /\ hotplug'[k].impl = i
    BY <1>2, HeardAppends DEF Detach
  <1>5. OnePerSerial' /\ NothingYet'
    BY <1>1 DEF OrderInv, OnePerSerial, NothingYet
  <1>6. DetachedHasLeft'
    BY <1>1, <1>4 DEF OrderInv, DetachedHasLeft
  <1>7. ASSUME NEW k \in 1 .. Len(hotplug'), hotplug'[k].op = "detach"
        PROVE  NeverAdded(hotplug[k].impl)' \/ BehindEvent(SerialOf[hotplug[k].impl], k)'
    <2>1. CASE k \in 1 .. Len(hotplug)
      <3>1. hotplug'[k] = hotplug[k] /\ \A l \in 1 .. k - 1 : l \in 1 .. Len(hotplug)
        BY <1>4, <2>1
      <3>2. NeverAdded(hotplug[k].impl) \/ BehindEvent(SerialOf[hotplug[k].impl], k)
        BY <2>1, <3>1, <1>7 DEF OrderInv, DetachInOrder
      <3>3. NeverAdded(hotplug[k].impl) => NeverAdded(hotplug[k].impl)'
        BY <1>1, <3>1 DEF NeverAdded
      <3>4. BehindEvent(SerialOf[hotplug[k].impl], k)
              => BehindEvent(SerialOf[hotplug[k].impl], k)'
        BY <1>1, <1>4, <3>1 DEF BehindEvent, InHands
      <3> QED
        BY <3>2, <3>3, <3>4
    <2>2. CASE k \notin 1 .. Len(hotplug)
      <3>1. hotplug'[k].impl = i
        BY <1>4, <2>2
      <3>2. \A j \in bus' : SerialOf[j] # SerialOf[i]
        BY <1>1 DEF OrderInv, OnePerSerial
      <3> QED
        BY <3>1, <3>2 DEF BehindEvent
    <2> QED
      BY <2>1, <2>2
  <1>8. RemoveInOrder'
    BY <1>1 DEF OrderInv, RemoveInOrder, BehindCall, InHands
  <1> QED
    BY <1>5, <1>6, <1>7, <1>8 DEF OrderInv, DetachInOrder

\* The list is what is on the bus, so no event that is under way is about it.
LEMMA OrderGetDeviceList ==
    ASSUME OrderInv, MapInv', GetDeviceList
    PROVE  OrderInv'
  <1>1. /\ phase = "listening" /\ phase' = "listed"
        /\ UNCHANGED <<bus, hotplug, holder, deviceMap, implUniqueIdMap>>
    BY DEF GetDeviceList
  <1>2. /\ queue \in Seq(Calls) /\ hotplug \in Seq(Events) /\ bus \in SUBSET Impls
    BY DEF OrderInv, MapInv, TypeOK, Calls
  <1>3. holder.dev.impl = None /\ Len(queue) = 0 /\ \A i \in Impls : implUniqueIdMap[i] = None
    BY <1>1 DEF OrderInv, NothingYet, Idle, NoDevice
  <1>4. \A k \in 1 .. Len(queue') : queue'[k].op = "add"
    <2>1. AddNext(bus, queue)
      BY DEF GetDeviceList
    <2>2. \A k \in 1 .. Len(queue') : k \notin 1 .. Len(queue) => queue'[k].op = "add"
      BY <1>2, <2>1, AddNextAppends
    <2> QED
      BY <1>3, <2>2
  <1>5. \A k \in 1 .. Len(hotplug) : hotplug[k].impl \in Impls
    <2>1. \A k \in 1 .. Len(hotplug) : hotplug[k] \in Events
      BY <1>2, LenProperties
    <2> QED
      BY <2>1 DEF Events
  <1>6. DetachInOrder'
    BY <1>1, <1>3, <1>5, NoDeviceIsNone DEF DetachInOrder, NeverAdded
  <1>7. RemoveInOrder'
    BY <1>4 DEF RemoveInOrder
  <1> QED
    BY <1>1, <1>6, <1>7 DEF OrderInv, OnePerSerial, NothingYet, DetachedHasLeft

\* The impl that is added has no detach event of the phone behind it in front.
LEMMA OrderAddDevice ==
    ASSUME OrderInv, MapInv', AddDevice
    PROVE  OrderInv'
  <1> DEFINE call == AddCall(Head(hotplug).impl, FALSE)
  <1>1. /\ phase = "listed"
        /\ UNCHANGED <<bus, phase, toList, holder, deviceMap, implUniqueIdMap>>
    BY DEF AddDevice, Deliver
  <1>2. /\ queue \in Seq(Calls) /\ Len(queue) \in Nat /\ TypeOK
    BY LenProperties DEF OrderInv, MapInv, TypeOK, Calls
  <1>3. /\ hotplug[1].op = "attach" /\ Head(hotplug) = hotplug[1] /\ hotplug[1].impl \in Impls
        /\ Len(hotplug) \in Nat /\ 1 <= Len(hotplug) /\ Len(hotplug') = Len(hotplug) - 1
        /\ \A k \in 1 .. Len(hotplug') : hotplug'[k] = hotplug[k + 1]
    BY <1>2, FirstEvent DEF AddDevice
  <1>4. call \in Calls /\ call.op = "add" /\ call.dev.impl = hotplug[1].impl
    BY <1>3 DEF AddCall, Calls, AddCalls, Devices
  <1>5. queue' = Append(queue, call)
    BY DEF AddDevice
  <1> HIDE DEF call
  <1>6. /\ Len(queue') = Len(queue) + 1 /\ queue'[Len(queue) + 1] = call
        /\ \A k \in 1 .. Len(queue) : queue'[k] = queue[k]
    BY <1>2, <1>4, <1>5, AppendProperties
  <1>7. OnePerSerial' /\ NothingYet' /\ DetachedHasLeft'
    BY <1>1, <1>3 DEF OrderInv, OnePerSerial, NothingYet, DetachedHasLeft
  <1>8. ASSUME NEW k \in 1 .. Len(hotplug'), hotplug'[k].op = "detach"
        PROVE  NeverAdded(hotplug[k].impl)' \/ BehindEvent(SerialOf[hotplug[k].impl], k)'
    <2>1. k + 1 \in 1 .. Len(hotplug) /\ hotplug'[k] = hotplug[k + 1]
      BY <1>3
    <2>2. CASE NeverAdded(hotplug[k + 1].impl)
      BY <1>1, <2>1, <2>2 DEF NeverAdded
    <2>3. CASE BehindEvent(SerialOf[hotplug[k + 1].impl], k + 1)
      <3> SUFFICES ASSUME NEW j \in bus, SerialOf[j] = SerialOf[hotplug[k + 1].impl]
                   PROVE  /\ ~InHands(j)' /\ j \notin toList
                          /\ \A l \in 1 .. Len(queue') : ~Adding(queue'[l], j)
                          /\ \A l \in 1 .. k - 1 :
                               ~(hotplug'[l].op = "attach" /\ hotplug'[l].impl = j)
        BY <1>1, <2>1 DEF BehindEvent
      <3>1. /\ ~InHands(j) /\ j \notin toList
            /\ \A l \in 1 .. Len(queue) : ~Adding(queue[l], j)
            /\ \A l \in 1 .. k : ~(hotplug[l].op = "attach" /\ hotplug[l].impl = j)
        BY <2>3 DEF BehindEvent
      <3>2. hotplug[1].impl # j
        BY <1>3, <2>1, <3>1
      <3>3. \A l \in 1 .. Len(queue') : ~Adding(queue'[l], j)
        BY <1>2, <1>4, <1>6, <3>1, <3>2 DEF Adding
      <3>4. \A l \in 1 .. k - 1 : l + 1 \in 1 .. k /\ hotplug'[l] = hotplug[l + 1]
        BY <1>3, <2>1
      <3> QED
        BY <1>1, <3>1, <3>3, <3>4 DEF InHands
    <2> QED
      BY <2>1, <2>2, <2>3, <1>8 DEF OrderInv, DetachInOrder
  <1>9. ASSUME NEW k \in 1 .. Len(queue'), queue'[k].op = "remove"
        PROVE  BehindCall(queue[k].serial, k)'
    <2>1. k \in 1 .. Len(queue) /\ queue'[k] = queue[k]
      BY <1>2, <1>4, <1>6, <1>9
    <2>2. \A l \in 1 .. k - 1 : queue'[l] = queue[l]
      BY <1>2, <1>6, <2>1
    <2> QED
      BY <1>1, <1>9, <2>1, <2>2 DEF OrderInv, RemoveInOrder, BehindCall, InHands
  <1> QED
    BY <1>7, <1>8, <1>9 DEF OrderInv, DetachInOrder, RemoveInOrder

\* The removal comes behind all the calls, and no later impl has asked for one.
LEMMA OrderRemoveDeviceImpl ==
    ASSUME OrderInv, MapInv', RemoveDeviceImpl
    PROVE  OrderInv'
  <1> DEFINE s == implUniqueIdMap[hotplug[1].impl]
             call == RemoveCall(s)
  <1>1. /\ phase = "listed"
        /\ UNCHANGED <<bus, phase, toList, holder, deviceMap, implUniqueIdMap>>
    BY DEF RemoveDeviceImpl, Deliver
  <1>2. /\ queue \in Seq(Calls) /\ Len(queue) \in Nat /\ TypeOK
    BY LenProperties DEF OrderInv, MapInv, TypeOK, Calls
  <1>3. /\ hotplug[1].op = "detach" /\ Head(hotplug) = hotplug[1] /\ hotplug[1].impl \in Impls
        /\ Len(hotplug) \in Nat /\ 1 <= Len(hotplug) /\ Len(hotplug') = Len(hotplug) - 1
        /\ \A k \in 1 .. Len(hotplug') : hotplug'[k] = hotplug[k + 1]
    BY <1>2, FirstEvent DEF RemoveDeviceImpl
  <1>4. s \in {None, SerialOf[hotplug[1].impl]}
    BY <1>3 DEF OrderInv, MapInv, EntriesMatch
  <1>5. queue' = IF s = None THEN queue ELSE Append(queue, call)
    BY <1>3 DEF RemoveDeviceImpl
  <1>6. call.op = "remove" /\ call.serial = s
    BY DEF RemoveCall
  <1>7. s # None => call \in Calls
    BY <1>3, <1>4, UsbAssumption DEF RemoveCall, Calls, RemoveCalls
  <1> HIDE DEF call
  <1>8. /\ Len(queue') \in Nat /\ Len(queue) <= Len(queue')
        /\ \A k \in 1 .. Len(queue) : queue'[k] = queue[k]
        /\ \A k \in 1 .. Len(queue') :
             k \notin 1 .. Len(queue) => s # None /\ k = Len(queue) + 1 /\ queue'[k] = call
    <2>1. CASE s = None
      BY <1>2, <1>5, <2>1
    <2>2. CASE s # None
      BY <1>2, <1>5, <1>7, <2>2, AppendProperties
    <2> QED
      BY <2>1, <2>2
  <1> HIDE DEF s
  <1>9. OnePerSerial' /\ NothingYet' /\ DetachedHasLeft'
    BY <1>1, <1>3 DEF OrderInv, OnePerSerial, NothingYet, DetachedHasLeft
  <1>10. ASSUME NEW k \in 1 .. Len(hotplug'), hotplug'[k].op = "detach"
         PROVE  NeverAdded(hotplug[k].impl)' \/ BehindEvent(SerialOf[hotplug[k].impl], k)'
    <2>1. k + 1 \in 1 .. Len(hotplug) /\ hotplug'[k] = hotplug[k + 1]
      BY <1>3
    <2>2. CASE NeverAdded(hotplug[k + 1].impl)
      BY <1>1, <2>1, <2>2 DEF NeverAdded
    <2>3. CASE BehindEvent(SerialOf[hotplug[k + 1].impl], k + 1)
      <3>1. \A l \in 1 .. k - 1 : l + 1 \in 1 .. k /\ hotplug'[l] = hotplug[l + 1]
        BY <1>3, <2>1
      <3>2. \A l \in 1 .. Len(queue'), j \in bus :
              Adding(queue'[l], j) => l \in 1 .. Len(queue) /\ queue'[l] = queue[l]
        BY <1>6, <1>8 DEF Adding
      <3>3. ASSUME NEW j \in bus, SerialOf[j] = SerialOf[hotplug[k + 1].impl]
            PROVE  /\ ~InHands(j)' /\ j \notin toList
                   /\ \A l \in 1 .. Len(queue') : ~Adding(queue'[l], j)
                   /\ \A l \in 1 .. k - 1 :
                        ~(hotplug'[l].op = "attach" /\ hotplug'[l].impl = j)
        <4>1. /\ ~InHands(j) /\ j \notin toList
              /\ \A l \in 1 .. Len(queue) : ~Adding(queue[l], j)
              /\ \A l \in 1 .. k : ~(hotplug[l].op = "attach" /\ hotplug[l].impl = j)
          BY <2>3, <3>3 DEF BehindEvent
        <4> QED
          BY <1>1, <3>1, <3>2, <4>1 DEF InHands
      <3> QED
        BY <1>1, <2>1, <3>3 DEF BehindEvent
    <2> QED
      BY <2>1, <2>2, <2>3, <1>10 DEF OrderInv, DetachInOrder
  <1>11. ASSUME NEW k \in 1 .. Len(queue'), queue'[k].op = "remove"
         PROVE  BehindCall(queue[k].serial, k)'
    <2>1. \A l \in 1 .. k - 1 : l \in 1 .. Len(queue) /\ queue'[l] = queue[l]
      BY <1>2, <1>8
    <2>2. CASE k \in 1 .. Len(queue)
      BY <1>1, <1>8, <1>11, <2>1, <2>2 DEF OrderInv, RemoveInOrder, BehindCall, InHands
    <2>3. CASE k \notin 1 .. Len(queue)
      <3>1. s # None /\ s = SerialOf[hotplug[1].impl] /\ queue'[k].serial = s
        BY <1>4, <1>6, <1>8, <2>3
      <3>2. BehindEvent(s, 1)
        BY <1>3, <3>1 DEF s, OrderInv, DetachInOrder, NeverAdded
      <3> QED
        BY <1>1, <2>1, <3>1, <3>2 DEF BehindEvent, BehindCall, InHands
    <2> QED
      BY <2>2, <2>3
  <1> QED
    BY <1>9, <1>10, <1>11 DEF OrderInv, DetachInOrder, RemoveInOrder

(***************************************************************************)
(* The steps of the call that has the lock, in one lemma: the calls behind *)
(* it move up by `gone` places (one, if it has just got the lock), calls   *)
(* from the list may come behind them, and nothing gets into hand that was *)
(* not in hand or the first to be added.                                   *)
(***************************************************************************)
LEMMA OrderServe ==
    ASSUME OrderInv, MapInv', NEW gone \in {0, 1},
           UNCHANGED <<bus, hotplug, phase>>,
           phase \notin {"start", "listening"},
           toList' \in SUBSET toList,
           Len(queue) \in Nat, Len(queue') \in Nat, gone <= Len(queue),
           \A k \in 1 .. Len(queue') :
               \/ k + gone \in 1 .. Len(queue) /\ queue'[k] = queue[k + gone]
               \/ k > Len(queue) - gone /\ queue'[k].op = "add" /\ queue'[k].dev.impl \in toList,
           \A j \in bus : InHands(j)' => InHands(j) \/ (gone = 1 /\ Adding(queue[1], j)),
           \A i \in Impls : i \notin bus /\ NeverAdded(i) => NeverAdded(i)'
    PROVE  OrderInv'
  <1>1. OnePerSerial' /\ NothingYet' /\ DetachedHasLeft'
    BY DEF OrderInv, OnePerSerial, NothingYet, DetachedHasLeft
  <1>2. ASSUME NEW k \in 1 .. Len(hotplug), hotplug[k].op = "detach"
        PROVE  NeverAdded(hotplug[k].impl)' \/ BehindEvent(SerialOf[hotplug[k].impl], k)'
    <2>1. hotplug[k].impl \in Impls /\ hotplug[k].impl \notin bus
      <3>1. hotplug[k] \in Events
        BY LenProperties DEF OrderInv, MapInv, TypeOK
      <3> QED
        BY <3>1, <1>2 DEF Events, OrderInv, DetachedHasLeft
    <2>2. CASE NeverAdded(hotplug[k].impl)
      BY <2>1, <2>2
    <2>3. CASE BehindEvent(SerialOf[hotplug[k].impl], k)
      <3>1. ASSUME NEW j \in bus, SerialOf[j] = SerialOf[hotplug[k].impl]
            PROVE  /\ ~InHands(j)' /\ j \notin toList'
                   /\ \A l \in 1 .. Len(queue') : ~Adding(queue'[l], j)
                   /\ \A l \in 1 .. k - 1 :
                        ~(hotplug[l].op = "attach" /\ hotplug[l].impl = j)
        <4>1. /\ ~InHands(j) /\ j \notin toList
              /\ \A l \in 1 .. Len(queue) : ~Adding(queue[l], j)
              /\ \A l \in 1 .. k - 1 : ~(hotplug[l].op = "attach" /\ hotplug[l].impl = j)
          BY <2>3, <3>1 DEF BehindEvent
        <4>2. ~InHands(j)'
          BY <4>1
        <4>3. \A l \in 1 .. Len(queue') : ~Adding(queue'[l], j)
          BY <4>1 DEF Adding
        <4> QED
          BY <4>1, <4>2, <4>3
      <3> QED
        BY <3>1 DEF BehindEvent
    <2> QED
      BY <2>2, <2>3, <1>2 DEF OrderInv, DetachInOrder
  <1>3. ASSUME NEW k \in 1 .. Len(queue'), queue'[k].op = "remove"
        PROVE  BehindCall(queue[k].serial, k)'
    <2>1. k + gone \in 1 .. Len(queue) /\ queue'[k] = queue[k + gone]
      BY <1>3
    <2>2. BehindCall(queue[k + gone].serial, k + gone)
      BY <1>3, <2>1 DEF OrderInv, RemoveInOrder
    <2>3. \A l \in 1 .. k - 1 : l + gone \in 1 .. k + gone - 1 /\ queue'[l] = queue[l + gone]
      BY <2>1
    <2>4. gone = 1 => 1 \in 1 .. k + gone - 1
      BY <2>1
    <2>5. ASSUME NEW j \in bus, SerialOf[j] = queue'[k].serial
          PROVE  ~InHands(j)' /\ \A l \in 1 .. k - 1 : ~Adding(queue'[l], j)
      <3>1. ~InHands(j) /\ \A l \in 1 .. k + gone - 1 : ~Adding(queue[l], j)
        BY <2>1, <2>2, <2>5 DEF BehindCall
      <3>2. ~InHands(j)'
        BY <2>4, <3>1
      <3>3. \A l \in 1 .. k - 1 : ~Adding(queue'[l], j)
        BY <2>3, <3>1
      <3> QED
        BY <3>2, <3>3
    <2> QED
      BY <2>5 DEF BehindCall
  <1> QED
    BY <1>1, <1>2, <1>3 DEF OrderInv, DetachInOrder, RemoveInOrder

\* While a call waits or has the lock the handler has its list.
LEMMA BusyIsListed ==
    ASSUME OrderInv, JobReady \/ holder # Idle
    PROVE  phase \notin {"start", "listening"}
  BY DEF OrderInv, NothingYet, JobReady

LEMMA OrderCreateDevice ==
    ASSUME OrderInv, MapInv', NEW d \in Devices, CreateDevice(d)
    PROVE  OrderInv'
  <1>1. /\ JobReady /\ queue' = Tail(queue) /\ holder'.dev = d /\ d.impl \in bus
        /\ UNCHANGED <<bus, hotplug, phase, toList, deviceMap, implUniqueIdMap>>
    BY DEF CreateDevice, Begins
  <1>2. queue \in Seq(Calls)
    BY DEF OrderInv, MapInv, TypeOK, Calls
  <1>3. Adding(queue[1], d.impl)
    BY <1>1, <1>2, FirstCall DEF CreateDevice, Begins, Adding
  <1>4. \A j \in bus : InHands(j)' => InHands(j) \/ Adding(queue[1], j)
    BY <1>1, <1>3 DEF InHands
  <1>5. \A i \in Impls : i \notin bus /\ NeverAdded(i) => NeverAdded(i)'
    BY <1>1 DEF NeverAdded
  <1>6. phase \notin {"start", "listening"}
    BY <1>1, BusyIsListed
  <1>7. /\ Len(queue) \in Nat /\ Len(queue') \in Nat /\ 1 <= Len(queue)
        /\ \A k \in 1 .. Len(queue') :
             k + 1 \in 1 .. Len(queue) /\ queue'[k] = queue[k + 1]
    BY <1>1, <1>2, FirstCall
  <1> QED
    BY <1>1, <1>4, <1>5, <1>6, <1>7, OrderServe

\* The end of a call that has just got the lock.
LEMMA OrderCannotOpen ==
    ASSUME OrderInv, MapInv', NEW d \in Devices, CannotOpen(d)
    PROVE  OrderInv'
  <1>1. /\ JobReady /\ Release(d, Tail(queue))
        /\ UNCHANGED <<bus, hotplug, phase, deviceMap, implUniqueIdMap>>
    BY DEF CannotOpen, Begins
  <1>2. queue \in Seq(Calls) /\ toList \in SUBSET Impls /\ bus \in SUBSET Impls
    BY DEF OrderInv, MapInv, TypeOK, Calls
  <1>3. /\ Tail(queue) \in Seq(Calls)
        /\ Len(queue) \in Nat /\ 1 <= Len(queue)
        /\ Len(Tail(queue)) = Len(queue) - 1
        /\ \A k \in 1 .. Len(Tail(queue)) : Tail(queue)[k] = queue[k + 1]
    BY <1>1, <1>2, FirstCall
  <1>4. /\ holder' = Idle /\ toList' \in SUBSET toList /\ Len(queue') \in Nat
        /\ \A k \in 1 .. Len(Tail(queue)) : queue'[k] = Tail(queue)[k]
        /\ \A k \in 1 .. Len(queue') :
             k \notin 1 .. Len(Tail(queue)) =>
                 queue'[k].op = "add" /\ queue'[k].dev.impl \in toList
    BY <1>1, <1>2, <1>3, ReleaseAppends
  <1>5. \A k \in 1 .. Len(queue') :
           \/ k + 1 \in 1 .. Len(queue) /\ queue'[k] = queue[k + 1]
           \/ k > Len(queue) - 1 /\ queue'[k].op = "add" /\ queue'[k].dev.impl \in toList
    BY <1>3, <1>4
  <1>6. \A j \in bus : InHands(j)' => InHands(j)
    BY <1>1, <1>2, <1>4, NoDeviceIsNone DEF InHands, Idle, NoDevice
  <1>7. \A i \in Impls : NeverAdded(i) => NeverAdded(i)'
    BY <1>1, <1>4, NoDeviceIsNone DEF NeverAdded, Idle, NoDevice
  <1>8. phase \notin {"start", "listening"}
    BY <1>1, BusyIsListed
  <1> QED
    BY <1>1, <1>3, <1>4, <1>5, <1>6, <1>7, <1>8, OrderServe

\* The end of a call that has had the lock; the device may be listed.
LEMMA OrderEnds ==
    ASSUME OrderInv, MapInv', NEW d \in Devices, holder.dev = d, holder # Idle,
           CreateFails(d) \/ ListDevice(d)
    PROVE  OrderInv'
  <1>1. Release(d, queue) /\ UNCHANGED <<bus, hotplug, phase>>
    BY DEF CreateFails, ListDevice
  <1>2. queue \in Seq(Calls) /\ toList \in SUBSET Impls /\ bus \in SUBSET Impls
    BY DEF OrderInv, MapInv, TypeOK, Calls
  <1>3. /\ holder' = Idle /\ toList' \in SUBSET toList
        /\ Len(queue) \in Nat /\ Len(queue') \in Nat
        /\ \A k \in 1 .. Len(queue) : queue'[k] = queue[k]
        /\ \A k \in 1 .. Len(queue') :
             k \notin 1 .. Len(queue) =>
                 queue'[k].op = "add" /\ queue'[k].dev.impl \in toList
    BY <1>1, <1>2, ReleaseAppends
  <1>4. \A k \in 1 .. Len(queue') :
           \/ k + 0 \in 1 .. Len(queue) /\ queue'[k] = queue[k + 0]
           \/ k > Len(queue) - 0 /\ queue'[k].op = "add" /\ queue'[k].dev.impl \in toList
    BY <1>3
  <1>5. d.impl \in Impls /\ SerialOfDevice(d) = SerialOf[d.impl]
    BY DEF Devices, SerialOfDevice
  <1>6. ASSUME NEW j \in bus, InHands(j)' PROVE InHands(j)
    <2>1. j \in Impls /\ SerialOf[j] \in Serials /\ deviceMap'[SerialOf[j]].impl = j
      BY <1>2, <1>3, <1>6, NoDeviceIsNone, UsbAssumption DEF InHands, Idle, NoDevice
    <2>2. CASE CreateFails(d)
      BY <2>1, <2>2 DEF CreateFails, InHands
    <2>3. CASE ListDevice(d)
      <3>1. deviceMap' = [deviceMap EXCEPT ![SerialOf[d.impl]] = d]
        BY <1>5, <2>3 DEF ListDevice
      <3>2. CASE SerialOf[j] = SerialOf[d.impl]
        BY <2>1, <3>1, <3>2 DEF OrderInv, MapInv, TypeOK, InHands
      <3>3. CASE SerialOf[j] # SerialOf[d.impl]
        BY <2>1, <3>1, <3>3 DEF OrderInv, MapInv, TypeOK, InHands
      <3> QED
        BY <3>2, <3>3
    <2> QED
      BY <2>2, <2>3
  <1>7. ASSUME NEW i \in Impls, NeverAdded(i) PROVE NeverAdded(i)'
    <2>1. holder'.dev.impl # i
      BY <1>3, NoDeviceIsNone DEF Idle, NoDevice
    <2>2. implUniqueIdMap'[i] = implUniqueIdMap[i]
      BY <1>7 DEF CreateFails, ListDevice, AddDeviceHook, NeverAdded, OrderInv, MapInv, TypeOK
    <2> QED
      BY <1>7, <2>1, <2>2 DEF NeverAdded
  <1>8. phase \notin {"start", "listening"}
    BY BusyIsListed
  <1> QED
    BY <1>1, <1>3, <1>4, <1>6, <1>7, <1>8, OrderServe

LEMMA OrderRemoveDevice ==
    ASSUME OrderInv, MapInv', NEW s \in Serials, RemoveDevice(s)
    PROVE  OrderInv'
  <1>1. /\ JobReady /\ queue' = Tail(queue)
        /\ UNCHANGED <<bus, hotplug, phase, toList, holder>>
    BY DEF RemoveDevice
  <1>2. queue \in Seq(Calls) /\ bus \in SUBSET Impls
    BY DEF OrderInv, MapInv, TypeOK, Calls
  <1>3. /\ Len(queue) \in Nat /\ Len(queue') \in Nat /\ 1 <= Len(queue)
        /\ \A k \in 1 .. Len(queue') :
             k + 1 \in 1 .. Len(queue) /\ queue'[k] = queue[k + 1]
    BY <1>1, <1>2, FirstCall
  <1>4. ASSUME NEW j \in bus, InHands(j)' PROVE InHands(j)
    <2>1. j \in Impls /\ SerialOf[j] \in Serials
      BY <1>2, UsbAssumption
    <2>2. \/ deviceMap'[SerialOf[j]] = deviceMap[SerialOf[j]]
          \/ deviceMap'[SerialOf[j]].impl = None
      BY <2>1 DEF RemoveDevice, NoDevice, OrderInv, MapInv, TypeOK
    <2> QED
      BY <1>1, <1>4, <2>1, <2>2, NoDeviceIsNone DEF InHands
  <1>5. \A i \in Impls : NeverAdded(i) => NeverAdded(i)'
    BY <1>1 DEF RemoveDevice, RemoveDeviceHook, NeverAdded
  <1>6. phase \notin {"start", "listening"}
    BY <1>1, BusyIsListed
  <1> QED
    BY <1>1, <1>3, <1>4, <1>5, <1>6, OrderServe

\* The other steps leave the calls, the events and the lists alone.
LEMMA OrderUntouched ==
    ASSUME OrderInv, MapInv', holder'.dev = holder.dev, holder' = Idle <=> holder = Idle,
           UNCHANGED <<bus, toList, queue, deviceMap, implUniqueIdMap>>,
           \/ UNCHANGED <<hotplug, phase>>
           \/ phase = "start" /\ phase' = "listening" /\ UNCHANGED hotplug
           \/ hotplug' = <<>> /\ phase' = "stopped"
    PROVE  OrderInv'
  <1>1. OnePerSerial' /\ DetachedHasLeft'
    BY DEF OrderInv, OnePerSerial, DetachedHasLeft
  <1>2. NothingYet'
    <2>1. holder = Idle => holder' = Idle
      OBVIOUS
    <2> QED
      BY <2>1 DEF OrderInv, NothingYet
  <1>3. DetachInOrder' /\ RemoveInOrder'
    BY DEF OrderInv, DetachInOrder, NeverAdded, BehindEvent, RemoveInOrder, BehindCall, InHands
  <1> QED
    BY <1>1, <1>2, <1>3 DEF OrderInv

LEMMA OrderInvStep == OrderInv /\ [Next]_vars => OrderInv'
  <1> SUFFICES ASSUME OrderInv, [Next]_vars PROVE OrderInv'
    OBVIOUS
  <1>1. MapInv'
    BY MapInvStep DEF OrderInv
  <1>2. CASE Bus
    BY <1>1, <1>2, OrderAttach, OrderDetach DEF Bus
  <1>3. CASE Listen
    BY <1>1, <1>3, OrderUntouched DEF Listen
  <1>4. CASE GetDeviceList
    BY <1>1, <1>4, OrderGetDeviceList
  <1>5. CASE AddDevice
    BY <1>1, <1>5, OrderAddDevice
  <1>6. CASE RemoveDeviceImpl
    BY <1>1, <1>6, OrderRemoveDeviceImpl
  <1>7. ASSUME NEW d \in Devices, Adds(d) PROVE OrderInv'
    <2>1. CASE CreateDevice(d) \/ CannotOpen(d)
      BY <1>1, <2>1, OrderCreateDevice, OrderCannotOpen
    <2>2. CASE CreateFails(d)
      BY <1>1, <2>2, OrderEnds DEF CreateFails, In, Idle
    <2>3. CASE OpenForProbe(d)
      <3>1. holder'.dev = holder.dev /\ holder # Idle /\ holder' # Idle
        BY <2>3 DEF OpenForProbe, In, Idle
      <3>2. UNCHANGED <<bus, hotplug, phase, toList, queue, deviceMap, implUniqueIdMap>>
        BY <2>3 DEF OpenForProbe
      <3> QED
        BY <1>1, <3>1, <3>2, OrderUntouched
    <2>4. CASE ProbeAvailable(d) \/ ProbeCannotOpen(d) \/ ProbeEnds(d) \/ ResetEnds(d)
      <3>1. ListDevice(d) /\ holder.dev = d /\ holder # Idle
        BY <2>4 DEF ProbeAvailable, ProbeCannotOpen, ProbeEnds, ResetEnds, In, Idle
      <3> QED
        BY <1>1, <3>1, OrderEnds
    <2> QED
      BY <1>7, <2>1, <2>2, <2>3, <2>4 DEF Adds
  <1>8. ASSUME NEW s \in Serials, RemoveDevice(s) PROVE OrderInv'
    BY <1>1, <1>8, OrderRemoveDevice
  <1>9. CASE Server
    BY <1>1, <1>9, OrderUntouched
       DEF Server, StopWaitingForDevices, ConnectOpens, DisconnectBegins, DisconnectEnds
  <1>10. CASE UNCHANGED vars
    BY <1>1, <1>10, OrderUntouched DEF vars
  <1> QED
    BY <1>2, <1>3, <1>4, <1>5, <1>6, <1>7, <1>8, <1>9, <1>10 DEF Next, Handler

\* The removal that is served is behind no impl of its phone.
LEMMA RemovalStep ==
    ASSUME OrderInv, [Next]_vars, NEW s \in Serials,
           deviceMap[s] # NoDevice, deviceMap'[s] = NoDevice
    PROVE  deviceMap[s].impl \notin bus
  <1>1. ~UNCHANGED <<deviceMap, implUniqueIdMap>>
    OBVIOUS
  <1>2. ASSUME NEW d \in Devices, ListDevice(d) PROVE FALSE
    BY <1>2, NoDeviceIsNone DEF ListDevice, OrderInv, MapInv, TypeOK
  <1>3. ASSUME NEW u \in Serials, RemoveDevice(u) PROVE deviceMap[s].impl \notin bus
    <2>1. u = s
      BY <1>3 DEF RemoveDevice, OrderInv, MapInv, TypeOK
    <2>2. queue[1].op = "remove" /\ queue[1].serial = s /\ 1 \in 1 .. Len(queue)
      <3>1. queue \in Seq(Calls)
        BY DEF OrderInv, MapInv, TypeOK, Calls
      <3>2. JobReady /\ Head(queue) = RemoveCall(s)
        BY <1>3, <2>1 DEF RemoveDevice
      <3> QED
        BY <3>1, <3>2, FirstCall DEF RemoveCall
    <2>3. BehindCall(s, 1)
      BY <2>2 DEF OrderInv, RemoveInOrder
    <2>4. deviceMap[s].impl \in Impls /\ SerialOf[deviceMap[s].impl] = s
      <3>1. deviceMap[s] \in Devices
        BY DEF OrderInv, MapInv, TypeOK
      <3>2. implUniqueIdMap[deviceMap[s].impl] = s /\ deviceMap[s].impl \in Impls
        BY <3>1 DEF OrderInv, MapInv, DetachFindsDevice, Devices
      <3> QED
        BY <3>2, NoDeviceIsNone DEF OrderInv, MapInv, EntriesMatch
    <2> QED
      BY <2>3, <2>4 DEF BehindCall, InHands
  <1> QED
    BY <1>1, <1>2, <1>3, MapsChange

\* No device is withdrawn that is on the bus: not when the phone has come back
\* under its serial number, nor when it is added twice or replaced.
THEOREM RemovalsAreRightful == Spec => RemovedHasLeft
  <1>1. OrderInv /\ [Next]_vars
          => [\A s \in Serials :
                deviceMap[s] # NoDevice /\ deviceMap'[s] = NoDevice
                  => deviceMap[s].impl \notin bus]_vars
    BY RemovalStep
  <1> QED
    BY <1>1, OrderInvInit, OrderInvStep, PTL DEF Spec, RemovedHasLeft

-----------------------------------------------------------------------------
(***************************************************************************)
(* StaleSessionNeverUsed.  An impl that was there before the handler       *)
(* listened has no attach event, so it is only ever added as existing, and *)
(* probe never makes an existing accessory available.                      *)
(***************************************************************************)
\* d is, or may become, available although it was there before.
Stale(d) == d.impl \in before /\ ~d.existing

NewOnly ==
    /\ \A k \in 1 .. Len(hotplug) : hotplug[k].op = "attach" => hotplug[k].impl \notin before
    /\ \A k \in 1 .. Len(queue) : queue[k].op = "add" => ~Stale(queue[k].dev)
    /\ holder # Idle => ~Stale(holder.dev)

Untaken ==
    \A d \in Devices :
        d.impl \in before =>
            device[d].state \notin {"available", "connected", "disconnecting"}

NoneBefore ==
    phase = "start" =>
        hotplug = <<>> /\ \A d \in Devices : device[d].state = "unknown"

StaleInv == OrderInv /\ NewOnly /\ Untaken /\ NoneBefore

LEMMA StaleInvInit == Init => StaleInv
  BY OrderInvInit DEF Init, StaleInv, NewOnly, Untaken, NoneBefore, Fresh

\* A call from the list is for an existing device.
LEMMA AddNextNew ==
    ASSUME NEW rest \in SUBSET Impls, NEW calls \in Seq(Calls), AddNext(rest, calls),
           before' = before,
           \A k \in 1 .. Len(calls) : calls[k].op = "add" => ~Stale(calls[k].dev)
    PROVE  \A k \in 1 .. Len(queue') : queue'[k].op = "add" => ~Stale(queue'[k].dev)
  <1>1. CASE rest = {}
    BY <1>1 DEF AddNext
  <1>2. CASE rest # {}
    <2>1. PICK i \in rest : queue' = Append(calls, AddCall(i, TRUE))
      BY <1>2 DEF AddNext
    <2> DEFINE call == AddCall(i, TRUE)
    <2>2. call \in Calls /\ call.dev.existing
      BY <2>1 DEF AddCall, Calls, AddCalls, Devices
    <2>3. queue' = Append(calls, call)
      BY <2>1
    <2> HIDE DEF call
    <2>4. /\ Len(calls) \in Nat /\ Len(queue') = Len(calls) + 1
          /\ \A k \in 1 .. Len(calls) : queue'[k] = calls[k]
          /\ queue'[Len(calls) + 1] = call
      BY <2>2, <2>3, AppendProperties, LenProperties
    <2>5. \A k \in 1 .. Len(queue') : k \in 1 .. Len(calls) \/ k = Len(calls) + 1
      BY <2>4
    <2> QED
      BY <2>2, <2>4, <2>5 DEF Stale
  <1> QED
    BY <1>1, <1>2

LEMMA ReleaseNew ==
    ASSUME OrderInv, NewOnly, NEW calls \in Seq(Calls), NEW d, Release(d, calls),
           UNCHANGED <<before, hotplug>>,
           \A k \in 1 .. Len(calls) : calls[k].op = "add" => ~Stale(calls[k].dev)
    PROVE  NewOnly'
  <1>1. toList \in SUBSET Impls
    BY DEF OrderInv, MapInv, TypeOK
  <1>2. \A k \in 1 .. Len(queue') : queue'[k].op = "add" => ~Stale(queue'[k].dev)
    <2>1. CASE d.existing
      BY <1>1, <2>1, AddNextNew DEF Release
    <2>2. CASE ~d.existing
      BY <2>2 DEF Release
    <2> QED
      BY <2>1, <2>2
  <1> QED
    BY <1>2 DEF NewOnly, Release, Stale

LEMMA StaleInvStep == StaleInv /\ [Next]_vars => StaleInv'
  <1> SUFFICES ASSUME StaleInv, [Next]_vars PROVE StaleInv'
    OBVIOUS
  <1>0. OrderInv /\ OrderInv' /\ TypeOK
    BY OrderInvStep DEF StaleInv, OrderInv, MapInv
  <1>q. queue \in Seq(Calls) /\ Len(queue) \in Nat /\ toList \in SUBSET Impls
    BY <1>0, LenProperties DEF TypeOK, Calls
  <1>1. ASSUME NEW i \in Impls, Attach(i) PROVE StaleInv'
    <2>1. before' = before \ {i} /\ UNCHANGED <<queue, holder, phase>>
      BY <1>1 DEF Attach
    <2>2. /\ Len(hotplug) \in Nat
          /\ \A k \in 1 .. Len(hotplug) : hotplug'[k] = hotplug[k]
          /\ \A k \in 1 .. Len(hotplug') :
               k \notin 1 .. Len(hotplug) => hotplug'[k].impl = i
      BY <1>0, <1>1, HeardAppends DEF Attach
    <2>3. NewOnly'
      BY <2>1, <2>2 DEF StaleInv, NewOnly, Stale
    <2>4. Untaken' /\ NoneBefore'
      BY <1>1, <2>1 DEF Attach, Heard, StaleInv, Untaken, NoneBefore, Fresh
    <2> QED
      BY <1>0, <2>3, <2>4 DEF StaleInv
  <1>2. ASSUME NEW i \in Impls, Detach(i) PROVE StaleInv'
    <2>1. UNCHANGED <<before, queue, holder, phase, device>>
      BY <1>2 DEF Detach
    <2>2. /\ Len(hotplug) \in Nat
          /\ \A k \in 1 .. Len(hotplug) : hotplug'[k] = hotplug[k]
          /\ \A k \in 1 .. Len(hotplug') :
               k \notin 1 .. Len(hotplug) => hotplug'[k].op = "detach"
      BY <1>0, <1>2, HeardAppends DEF Detach
    <2>3. NewOnly'
      BY <2>1, <2>2 DEF StaleInv, NewOnly, Stale
    <2>4. Untaken' /\ NoneBefore'
      BY <1>2, <2>1 DEF Detach, Heard, StaleInv, Untaken, NoneBefore
    <2> QED
      BY <1>0, <2>3, <2>4 DEF StaleInv
  <1>3. CASE Listen
    <2>1. /\ queue = <<>> /\ holder = Idle /\ hotplug = <<>>
          /\ \A d \in Devices : device[d].state = "unknown"
      BY <1>0, <1>3 DEF Listen, StaleInv, NoneBefore, OrderInv, NothingYet
    <2> QED
      BY <1>0, <1>3, <2>1 DEF Listen, StaleInv, NewOnly, Untaken, NoneBefore
  <1>4. CASE GetDeviceList
    <2>1. /\ AddNext(bus, queue) /\ bus \in SUBSET Impls
          /\ UNCHANGED <<before, hotplug, holder, device>> /\ phase' = "listed"
      BY <1>0, <1>4 DEF GetDeviceList, TypeOK
    <2>2. \A k \in 1 .. Len(queue') : queue'[k].op = "add" => ~Stale(queue'[k].dev)
      BY <1>0, <1>q, <2>1, AddNextNew DEF StaleInv, NewOnly
    <2> QED
      BY <1>0, <2>1, <2>2 DEF StaleInv, NewOnly, Untaken, NoneBefore, Stale
  <1>5. CASE StopWaitingForDevices
    BY <1>0, <1>5 DEF StopWaitingForDevices, StaleInv, NewOnly, Untaken, NoneBefore, Stale
  <1>6. CASE AddDevice
    <2> DEFINE call == AddCall(Head(hotplug).impl, FALSE)
    <2>1. /\ hotplug[1].op = "attach" /\ Head(hotplug) = hotplug[1] /\ hotplug[1].impl \in Impls
          /\ Len(hotplug) \in Nat /\ 1 <= Len(hotplug) /\ Len(hotplug') = Len(hotplug) - 1
          /\ \A k \in 1 .. Len(hotplug') : hotplug'[k] = hotplug[k + 1]
      BY <1>0, <1>6, FirstEvent DEF AddDevice
    <2>2. call \in Calls /\ call.dev.impl = hotplug[1].impl
      BY <2>1 DEF AddCall, Calls, AddCalls, Devices
    <2>3. queue' = Append(queue, call) /\ UNCHANGED <<before, holder, device, phase>>
          /\ phase = "listed"
      BY <1>6 DEF AddDevice, Deliver
    <2> HIDE DEF call
    <2>4. ~Stale(call.dev)
      <3>1. hotplug[1].impl \notin before
        BY <2>1 DEF StaleInv, NewOnly
      <3> QED
        BY <2>2, <3>1 DEF Stale
    <2>5. \A k \in 1 .. Len(queue') :
             (k \in 1 .. Len(queue) /\ queue'[k] = queue[k]) \/ queue'[k] = call
      BY <1>q, <2>2, <2>3, AppendProperties
    <2>6. NewOnly'
      BY <2>1, <2>3, <2>4, <2>5 DEF StaleInv, NewOnly, Stale
    <2> QED
      BY <1>0, <2>3, <2>6 DEF StaleInv, Untaken, NoneBefore
  <1>7. CASE RemoveDeviceImpl
    <2> DEFINE s == implUniqueIdMap[Head(hotplug).impl]
               call == RemoveCall(s)
    <2>1. /\ Head(hotplug).impl \in Impls
          /\ Len(hotplug) \in Nat /\ 1 <= Len(hotplug) /\ Len(hotplug') = Len(hotplug) - 1
          /\ \A k \in 1 .. Len(hotplug') : hotplug'[k] = hotplug[k + 1]
      BY <1>0, <1>7, FirstEvent DEF RemoveDeviceImpl
    <2>2. call.op = "remove" /\ (s # None => call \in Calls)
      BY <1>0, <2>1 DEF RemoveCall, Calls, RemoveCalls, TypeOK
    <2>3. /\ queue' = IF s = None THEN queue ELSE Append(queue, call)
          /\ UNCHANGED <<before, holder, device, phase>> /\ phase = "listed"
      BY <1>7 DEF RemoveDeviceImpl, Deliver
    <2> HIDE DEF call, s
    <2>4. \A k \in 1 .. Len(queue') :
             (k \in 1 .. Len(queue) /\ queue'[k] = queue[k]) \/ queue'[k] = call
      <3>1. CASE s = None
        BY <2>3, <3>1
      <3>2. CASE s # None
        BY <1>q, <2>2, <2>3, <3>2, AppendProperties
      <3> QED
        BY <3>1, <3>2
    <2>5. NewOnly'
      BY <2>1, <2>2, <2>3, <2>4 DEF StaleInv, NewOnly, Stale
    <2> QED
      BY <1>0, <2>3, <2>5 DEF StaleInv, Untaken, NoneBefore
  <1>8. ASSUME NEW d \in Devices, Adds(d) PROVE StaleInv'
    <2>1. phase' = phase /\ before' = before /\ hotplug' = hotplug /\ phase # "start"
      <3>1. JobReady \/ holder # Idle
        BY <1>8 DEF Adds, CreateDevice, CannotOpen, CreateFails, ProbeAvailable, OpenForProbe,
           ProbeCannotOpen, ProbeEnds, ResetEnds, Begins, In, Idle
      <3>2. phase # "start"
        BY <1>0, <3>1, BusyIsListed
      <3> QED
        BY <1>8, <3>2 DEF Adds, CreateDevice, CannotOpen, CreateFails, ProbeAvailable,
           OpenForProbe, ProbeCannotOpen, ProbeEnds, ResetEnds, ListDevice
    <2>2. CASE Begins(d)
      <3>1. /\ Head(queue) = queue[1] /\ Tail(queue) \in Seq(Calls)
            /\ 1 <= Len(queue) /\ Len(Tail(queue)) = Len(queue) - 1
            /\ \A k \in 1 .. Len(Tail(queue)) : Tail(queue)[k] = queue[k + 1]
        BY <1>q, <2>2, FirstCall DEF Begins
      <3>2. ~Stale(d)
        BY <1>q, <2>2, <3>1 DEF Begins, StaleInv, NewOnly
      <3>3. \A k \in 1 .. Len(Tail(queue)) :
               Tail(queue)[k].op = "add" => ~Stale(Tail(queue)[k].dev)
        BY <1>q, <3>1 DEF StaleInv, NewOnly
      <3>4. CASE CreateDevice(d)
        BY <1>0, <2>1, <3>2, <3>3, <3>4
           DEF CreateDevice, StaleInv, NewOnly, Untaken, NoneBefore, Stale
      <3>5. CASE CannotOpen(d)
        <4>1. NewOnly'
          BY <1>0, <2>1, <3>1, <3>3, <3>5, ReleaseNew DEF CannotOpen, StaleInv
        <4> QED
          BY <1>0, <2>1, <3>5, <4>1 DEF CannotOpen, StaleInv, Untaken, NoneBefore
      <3> QED
        BY <1>8, <2>2, <3>4, <3>5 DEF Adds, Begins, CreateFails, ProbeAvailable, OpenForProbe,
           ProbeCannotOpen, ProbeEnds, ResetEnds, In, JobReady, Idle
    <2>3. ASSUME ~Begins(d) PROVE StaleInv'
      <3>1. holder.dev = d /\ holder # Idle
        BY <1>8, <2>3 DEF Adds, CreateDevice, CannotOpen, CreateFails, ProbeAvailable,
           OpenForProbe, ProbeCannotOpen, ProbeEnds, ResetEnds, In, Idle
      <3>2. ~Stale(d)
        BY <3>1 DEF StaleInv, NewOnly
      <3>3. NewOnly'
        <4>1. CASE Release(d, queue)
          BY <1>0, <1>q, <2>1, <4>1, ReleaseNew DEF StaleInv, NewOnly
        <4>2. CASE OpenForProbe(d)
          BY <2>1, <3>2, <4>2 DEF OpenForProbe, StaleInv, NewOnly, Stale
        <4> QED
          BY <1>8, <2>3, <4>1, <4>2 DEF Adds, CreateDevice, CannotOpen, CreateFails,
             ProbeAvailable, ProbeCannotOpen, ProbeEnds, ResetEnds, ListDevice
      <3>4. \A e \in Devices :
              \/ device'[e].state = device[e].state
              \/ e = d /\ device'[e].state \in {"needs-reset", "unsupported"}
              \/ e = d /\ device'[e].state = "available" /\ ~d.existing
        <4>1. ProbedState(d) \in {"needs-reset", "unsupported", "available"}
          BY DEF ProbedState
        <4>2. ProbedState(d) = "available" => ~d.existing
          BY DEF ProbedState
        <4> QED
          BY <1>0, <1>8, <2>3, <4>1, <4>2 DEF Adds, CreateDevice, CannotOpen, CreateFails,
             ProbeAvailable, OpenForProbe, ProbeCannotOpen, ProbeEnds, ResetEnds, TypeOK
      <3>5. Untaken' /\ NoneBefore'
        BY <2>1, <3>2, <3>4 DEF StaleInv, Untaken, NoneBefore, Stale
      <3> QED
        BY <1>0, <3>3, <3>5 DEF StaleInv
    <2> QED
      BY <2>2, <2>3
  <1>9. ASSUME NEW s \in Serials, RemoveDevice(s) PROVE StaleInv'
    <2>1. /\ UNCHANGED <<before, hotplug, phase, holder, device>>
          /\ \A k \in 1 .. Len(queue') : k + 1 \in 1 .. Len(queue) /\ queue'[k] = queue[k + 1]
      BY <1>9, <1>q, FirstCall DEF RemoveDevice
    <2> QED
      BY <1>0, <2>1 DEF StaleInv, NewOnly, Untaken, NoneBefore, Stale
  <1>10. ASSUME NEW d \in Devices, ConnectOpens(d) \/ DisconnectBegins(d) \/ DisconnectEnds(d)
         PROVE  StaleInv'
    <2>1. UNCHANGED <<before, hotplug, phase, holder, queue>>
      BY <1>10 DEF ConnectOpens, DisconnectBegins, DisconnectEnds
    <2>2. device[d].state \in {"available", "connected", "disconnecting"}
      BY <1>10 DEF ConnectOpens, DisconnectBegins, DisconnectEnds
    <2>3. \A e \in Devices : e # d => device'[e] = device[e]
      BY <1>0, <1>10 DEF ConnectOpens, DisconnectBegins, DisconnectEnds, TypeOK
    <2> QED
      BY <1>0, <2>1, <2>2, <2>3 DEF StaleInv, NewOnly, Untaken, NoneBefore, Stale
  <1>11. CASE UNCHANGED vars
    BY <1>0, <1>11 DEF vars, StaleInv, NewOnly, Untaken, NoneBefore, Stale
  <1> QED
    BY <1>1, <1>2, <1>3, <1>4, <1>5, <1>6, <1>7, <1>8, <1>9, <1>10, <1>11
       DEF Next, Bus, Server, Handler

\* An accessory found at the start, in a session of an earlier program, is not
\* connected, although its attach and detach may race the list.
THEOREM StaleSessionsAreReset == Spec => []StaleSessionNeverUsed
  <1>1. StaleInv => StaleSessionNeverUsed
    BY DEF StaleInv, Untaken, StaleSessionNeverUsed
  <1> QED
    BY <1>1, StaleInvInit, StaleInvStep, PTL DEF Spec
=============================================================================
