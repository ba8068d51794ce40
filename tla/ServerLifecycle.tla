-------------------------- MODULE ServerLifecycle --------------------------
(***************************************************************************)
(* The server from its start to the end of the desktop program, with a TCP *)
(* and a Bluetooth device handler.                                         *)
(*                                                                         *)
(* start() builds the handlers and lets each wait for devices: the TCP     *)
(* handler scans the network at an interval, the Bluetooth handler adds    *)
(* the devices BlueZ lists and then listens to its events.  A handler adds *)
(* and removes devices with deviceMapLock held, the server does so, and    *)
(* connects and disconnects them, with connectionLock held; both are FIFO  *)
(* mutexes.  A quit runs stop() and then ends the program; stop() returns  *)
(* at once when the server has not started, or is being stopped already.   *)
(*                                                                         *)
(* A device is listed under its key, which is its name here: a MAC or a    *)
(* Bluetooth address.  A key may have several Device objects in turn.      *)
(***************************************************************************)
EXTENDS Naturals, Sequences, SequencesExt

CONSTANTS
    Macs,         \* hosts of the network
    Addresses,    \* Bluetooth devices
    None,         \* no device
    Configurations,  \* sets of handlers the configuration may ask for
    MaxObjects,   \* Device objects of a key that are referred to at once
    MaxScans,     \* scans under way
    MaxJobs,      \* requests of a handler's lock when an event adds one
    MaxRequests,  \* requests of connectionLock when one is made
    MaxHostChanges,   \* changes of the network
    MaxBluezChanges,  \* changes of BlueZ's devices
    MaxQuits      \* times the program is told to quit

ASSUME LifecycleAssumption ==
    /\ IsFiniteSet(Macs)
    /\ Macs \cap Addresses = {} /\ None \notin Macs \cup Addresses
    /\ MaxObjects \in Nat \ {0}
    /\ Configurations \subseteq SUBSET {"tcp", "bt"}
    /\ {MaxScans, MaxJobs, MaxRequests, MaxHostChanges, MaxBluezChanges,
        MaxQuits} \subseteq Nat

VARIABLES
    configured,  \* the device handlers of the configuration
    present,     \* the hosts and Bluetooth devices that are there
    changes,     \* how often that changed
    phase,       \* how far start() or stop() is
    toList,      \* the part of BlueZ's list not yet added
    scanning,    \* the interval of the scan is set
    scans,       \* the hosts that the scans under way have found
    registered,  \* the Android Auto profile is registered
    listening,   \* the Bluetooth handler listens to BlueZ
    jobs,        \* jobs[h]: calls that wait for the lock of handler h
    adding,      \* adding[h]: the key of the device that h creates
    deviceMap,   \* the Device object a handler has under a key
    profile,     \* addressHandlerMap: whose handler gets the connections
    requests,    \* calls that wait for connectionLock
    serving,     \* the connection that is being made with it held
    nameMap,     \* the devices of the server, by name
    connected,   \* connectedDevice
    quits,       \* how often the program was told to quit
    exited,      \* the program has ended
    lost,        \* devices whose removal nobody listened to
    hurried,     \* told to quit while the server was starting or stopping
    late         \* a request to connect that stop() does not know of

handlers == <<scanning, scans, registered, listening, jobs, adding,
              deviceMap, profile>>
server == <<requests, serving, nameMap, connected>>
lifecycle == <<phase, toList>>
history == <<lost, hurried, late>>
world == <<configured, present, changes>>
vars == <<world, lifecycle, handlers, server, quits, exited, history>>

Keys == Macs \cup Addresses
Handlers == {"tcp", "bt"}
HandlerOf(k) == IF k \in Macs THEN "tcp" ELSE "bt"

\* Only what a handler looks at matters.
Watched == {k \in Keys : HandlerOf(k) \in configured}

Device(k, n) == [key |-> k, n |-> n]
Devices == [key : Keys, n : 1 .. MaxObjects]
MaybeDevice == Devices \cup {None}

AddJob(k, listed) == [op |-> "add", key |-> k, listed |-> listed]
RemoveJob(k) == [op |-> "remove", key |-> k, listed |-> FALSE]
Jobs == [op : {"add", "remove"}, key : Keys, listed : BOOLEAN]

ASSUME NoneAssumption == None \notin Devices \cup Jobs

Request(op, d) == [op |-> op, dev |-> d]
Ops == {"add", "remove", "connect", "selfConnect", "disconnect", "stop"}
Requests == [op : Ops, dev : Devices]

NotServing == [dev |-> None, step |-> "none"]

Starting == {"new", "scan", "profile", "discovery", "list", "listed", "init"}
Stopping == {"disconnect", "stopScan", "stopDiscovery", "unregister"}
Phases == Starting \cup Stopping \cup {"started", "stopped", "failed"}

TypeOK ==
    /\ configured \in Configurations
    /\ present \subseteq Keys
    /\ changes \in 0 .. MaxHostChanges + MaxBluezChanges
    /\ phase \in Phases /\ toList \subseteq Addresses
    /\ scanning \in BOOLEAN /\ scans \in Seq(SUBSET Macs)
    /\ registered \in BOOLEAN /\ listening \in BOOLEAN
    /\ jobs \in [Handlers -> Seq(Jobs)]
    /\ adding \in [Handlers -> Jobs \cup {None}]
    /\ deviceMap \in [Keys -> MaybeDevice]
    /\ profile \in [Addresses -> MaybeDevice]
    /\ requests \in Seq(Requests)
    /\ serving \in [dev : Devices, step : {"connect", "start"}] \cup {NotServing}
    /\ nameMap \in [Keys -> MaybeDevice] /\ connected \in MaybeDevice
    /\ quits \in 0 .. MaxQuits /\ exited \in BOOLEAN
    /\ lost \subseteq Addresses /\ hurried \in BOOLEAN /\ late \in BOOLEAN

Init ==
    /\ configured \in Configurations
    /\ present \in SUBSET Watched /\ changes = 0
    /\ phase = "new" /\ toList = {}
    /\ scanning = FALSE /\ scans = <<>>
    /\ registered = FALSE /\ listening = FALSE
    /\ jobs = [h \in Handlers |-> <<>>]
    /\ adding = [h \in Handlers |-> None]
    /\ deviceMap = [k \in Keys |-> None]
    /\ profile = [a \in Addresses |-> None]
    /\ requests = <<>> /\ serving = NotServing
    /\ nameMap = [k \in Keys |-> None] /\ connected = None
    /\ quits = 0 /\ exited = FALSE
    /\ lost = {} /\ hurried = FALSE /\ late = FALSE

Bind(h, js) == jobs' = [jobs EXCEPT ![h] = @ \o js]
Ask(rs) == requests' = requests \o rs

-----------------------------------------------------------------------------
(* The network and BlueZ *)

HostChanges(m) ==
    /\ m \in Watched /\ changes < MaxHostChanges
    /\ changes' = changes + 1
    /\ present' = IF m \in present THEN present \ {m} ELSE present \cup {m}
    /\ UNCHANGED <<configured, lifecycle, handlers, server, quits, exited,
                   history>>

\* BlueZ tells those who listen; a device that has been listed and goes
\* before anybody does is not missed.
BluezChanges(a) ==
    /\ a \in Watched /\ changes < MaxBluezChanges
    /\ changes' = changes + 1
    /\ present' = IF a \in present THEN present \ {a} ELSE present \cup {a}
    /\ listening => Len(jobs["bt"]) < MaxJobs
    /\ Bind("bt", IF ~listening THEN <<>>
                  ELSE IF a \in present THEN <<RemoveJob(a)>>
                       ELSE <<AddJob(a, FALSE)>>)
    /\ lost' = IF a \in present /\ ~listening THEN lost \cup {a} ELSE lost
    /\ UNCHANGED <<configured, lifecycle, scanning, scans, registered,
                   listening, adding, deviceMap, profile, server, quits,
                   exited, hurried, late>>

-----------------------------------------------------------------------------
(* The scan of the TCP handler *)

\* The timer starts a scan whether or not the last one has ended.
ScanStarts ==
    /\ scanning /\ Len(scans) < MaxScans
    /\ scans' = Append(scans, present \cap Macs)
    /\ UNCHANGED <<world, lifecycle, scanning, registered,
                   listening, jobs, adding, deviceMap, profile, server, quits,
                   exited, history>>

\* Mutant: a host that is not found any more is kept.
Gone_Never(found) == {}

\* updateDevices: it compares what the scan found with deviceMap as it is,
\* which knows nothing of the jobs that still wait for the lock.
Gone(found) == {m \in Macs : deviceMap[m] # None /\ m \notin found}
New(found) == {m \in found : deviceMap[m] = None}
ScanEnds(i) ==
    /\ Len(jobs["tcp"]) < MaxJobs
    /\ scans' = RemoveAt(scans, i)
    /\ LET found == scans[i]
           removes == SetToSeq({RemoveJob(m) : m \in Gone(found)})
           adds == SetToSeq({AddJob(m, FALSE) : m \in New(found)})
       IN  Bind("tcp", removes \o adds)
    /\ UNCHANGED <<world, lifecycle, scanning, registered,
                   listening, adding, deviceMap, profile, server, quits,
                   exited, history>>

-----------------------------------------------------------------------------
(* The handlers: addDeviceAsync and removeDeviceAsync *)

Referred(d) == \/ d \in {deviceMap[d.key], nameMap[d.key], connected, serving.dev}
               \/ d.key \in Addresses /\ profile[d.key] = d
               \/ \E i \in DOMAIN requests : requests[i].dev = d

Free(h) == adding[h] = None
NextJob(h, op) == Free(h) /\ jobs[h] # <<>> /\ Head(jobs[h]).op = op

\* The lock is taken and the device is created and probed.
AddBegins(h) ==
    /\ NextJob(h, "add")
    /\ adding' = [adding EXCEPT ![h] = Head(jobs[h])]
    /\ jobs' = [jobs EXCEPT ![h] = Tail(@)]
    /\ UNCHANGED <<world, lifecycle, scanning, scans, registered,
                   listening, deviceMap, profile, server, quits, exited,
                   history>>

\* waitForDevices awaits the jobs of the devices that were listed; one that
\* throws ends it.
Awaited(j, throws) ==
    phase' = IF ~j.listed THEN phase ELSE IF throws THEN "init" ELSE "list"

\* A Bluetooth device has no name or no audio profile; it is not added.
AddGivesUp(h) ==
    /\ h = "bt" /\ ~Free(h)
    /\ adding' = [adding EXCEPT ![h] = None]
    /\ Awaited(adding[h], FALSE)
    /\ UNCHANGED <<world, toList, scanning, scans, registered,
                   listening, jobs, deviceMap, profile, server, quits, exited,
                   history>>

\* The device is put into the map, a Bluetooth device gets the connections
\* of its address, and the server is told; when another device gets them,
\* that throws, with the device in the map and the server not told.
HookThrows(k) == k \in Addresses /\ profile[k] # None
AddEnds(h) ==
    /\ ~Free(h)
    /\ \E n \in 1 .. MaxObjects :
         LET k == adding[h].key
             d == Device(k, n)
         IN  /\ ~Referred(d) /\ \A i \in 1 .. n - 1 : Referred(Device(k, i))
             /\ deviceMap' = [deviceMap EXCEPT ![k] = d]
             /\ profile' = IF k \in Addresses /\ ~HookThrows(k)
                           THEN [profile EXCEPT ![k] = d] ELSE profile
             /\ Ask(IF HookThrows(k) THEN <<>> ELSE <<Request("add", d)>>)
             /\ Awaited(adding[h], HookThrows(k))
    /\ adding' = [adding EXCEPT ![h] = None]
    /\ UNCHANGED <<world, toList, scanning, scans, registered,
                   listening, jobs, serving, nameMap, connected, quits,
                   exited, history>>

\* Mutant: the device stays in the map.
Removed_Kept(k) == deviceMap

\* The profile must know this very device, else it throws and the server is
\* not told.
Removed(k) == [deviceMap EXCEPT ![k] = None]
RemoveDevice(h) ==
    /\ NextJob(h, "remove")
    /\ jobs' = [jobs EXCEPT ![h] = Tail(@)]
    /\ LET k == Head(jobs[h]).key
           d == deviceMap[k]
           throws == k \in Addresses /\ profile[k] # d
       IN  /\ deviceMap' = Removed(k)
           /\ profile' = IF d # None /\ k \in Addresses /\ ~throws
                         THEN [profile EXCEPT ![k] = None] ELSE profile
           /\ Ask(IF d = None \/ throws THEN <<>> ELSE <<Request("remove", d)>>)
    /\ UNCHANGED <<world, lifecycle, scanning, scans, registered,
                   listening, adding, serving, nameMap, connected, quits,
                   exited, history>>

-----------------------------------------------------------------------------
(* The server: connectionLock and what is done with it held *)

Asked(op) == /\ serving = NotServing /\ requests # <<>>
             /\ Head(requests).op = op
             /\ requests' = Tail(requests)
             /\ UNCHANGED <<world, toList, handlers, quits, exited,
                            history>>
Subject == Head(requests).dev
Ending(d) == connected' = IF connected = d THEN None ELSE connected

ServeAdd == /\ Asked("add")
            /\ nameMap' = [nameMap EXCEPT ![Subject.key] = Subject]
            /\ UNCHANGED <<phase, serving, connected>>

ServeRemove == /\ Asked("remove")
               /\ nameMap' = [nameMap EXCEPT ![Subject.key] = None]
               /\ UNCHANGED <<phase, serving, connected>>

\* The user's request ends the connection there is.
ServeConnect == /\ Asked("connect")
                /\ connected' = None
                /\ serving' = [dev |-> Subject, step |-> "connect"]
                /\ UNCHANGED <<phase, nameMap>>

\* That of a device is refused while there is one.
ServeSelfConnect ==
    /\ Asked("selfConnect")
    /\ IF connected = None
       THEN /\ serving' = [dev |-> Subject, step |-> "connect"]
            /\ UNCHANGED connected
       ELSE Ending(Subject) /\ UNCHANGED serving
    /\ UNCHANGED <<phase, nameMap>>

ServeDisconnect == /\ Asked("disconnect")
                   /\ Ending(Subject)
                   /\ UNCHANGED <<phase, serving, nameMap>>

\* Mutant: stop() is not answered when the device has gone before its turn.
ServeStop_IfConnected ==
    /\ Asked("stop")
    /\ Ending(Subject)
    /\ phase' = IF connected = Subject THEN "stopScan" ELSE phase
    /\ UNCHANGED <<serving, nameMap>>

ServeStop == /\ Asked("stop")
             /\ Ending(Subject)
             /\ phase' = "stopScan"
             /\ UNCHANGED <<serving, nameMap>>

\* The socket is connected, or its timer or an error ends the attempt.
Connects ==
    /\ serving.step = "connect"
    /\ \/ connected' = serving.dev /\ serving' = [serving EXCEPT !.step = "start"]
       \/ UNCHANGED connected /\ serving' = NotServing
    /\ UNCHANGED <<world, lifecycle, handlers, requests, nameMap,
                   quits, exited, history>>

\* The session is set up, or fails and is taken down; the lock is released.
SetUp ==
    /\ serving.step = "start"
    /\ serving' = NotServing
    /\ connected' \in {connected, None}
    /\ UNCHANGED <<world, lifecycle, handlers, requests, nameMap,
                   quits, exited, history>>

-----------------------------------------------------------------------------
(* What asks the server for a connection or for its end *)

May == Len(requests) < MaxRequests
Unaware == phase \in Stopping \cup {"stopped"}

UserConnects(k) ==
    /\ May /\ nameMap[k] # None
    /\ Ask(<<Request("connect", nameMap[k])>>)
    /\ late' = (late \/ Unaware)
    /\ UNCHANGED <<world, lifecycle, handlers, serving, nameMap,
                   connected, quits, exited, lost, hurried>>

\* BlueZ hands a connection of the profile to the handler of its address.
NewConnection(a) ==
    /\ May /\ registered /\ profile[a] \notin {None, connected, serving.dev}
    /\ Ask(<<Request("selfConnect", profile[a])>>)
    /\ late' = (late \/ Unaware)
    /\ UNCHANGED <<world, lifecycle, handlers, serving, nameMap,
                   connected, quits, exited, lost, hurried>>

TransportEnds ==
    /\ May /\ connected # None
    /\ Ask(<<Request("disconnect", connected)>>)
    /\ UNCHANGED <<world, lifecycle, handlers, serving, nameMap,
                   connected, quits, exited, history>>

-----------------------------------------------------------------------------
(* start() *)

\* What the steps of start() and stop() leave alone.
Rest == <<world, scans, jobs, adding, deviceMap, profile, serving,
          nameMap, connected, quits, exited, history>>

\* The Bluetooth handler may find no adapter; then start() fails.
BuildHandlers ==
    /\ phase = "new"
    /\ phase' \in {"scan"} \cup IF "bt" \in configured THEN {"failed"} ELSE {}
    /\ UNCHANGED <<Rest, toList, scanning, registered, listening, requests>>

StartScan ==
    /\ phase = "scan" /\ phase' = "profile"
    /\ ~scanning /\ scanning' = ("tcp" \in configured)
    /\ UNCHANGED <<Rest, toList, registered, listening, requests>>

\* A handler that cannot wait for devices is logged and left at that.
RegisterProfile ==
    /\ phase = "profile"
    /\ \/ "bt" \in configured /\ phase' = "discovery" /\ registered' = TRUE
       \/ phase' = "init" /\ UNCHANGED registered
    /\ UNCHANGED <<Rest, toList, scanning, listening, requests>>

\* Mutant: the handler listens before it lists.
StartDiscovery_Listening ==
    /\ phase = "discovery"
    /\ phase' = "list" /\ toList' = present \cap Addresses /\ lost' = {}
    /\ listening' = TRUE
    /\ UNCHANGED <<world, scanning, scans, registered, jobs, adding, deviceMap,
                   profile, server, quits, exited, hurried, late>>

\* The paired devices are listed and added one after the other; lost is the
\* set of those that go before the handler listens.
StartDiscovery ==
    /\ phase = "discovery"
    /\ \/ phase' = "list" /\ toList' = present \cap Addresses /\ lost' = {}
       \/ phase' = "init" /\ UNCHANGED <<toList, lost>>
    /\ UNCHANGED <<world, handlers, server, quits, exited, hurried,
                   late>>

AddListed(a) ==
    /\ phase = "list" /\ a \in toList
    /\ phase' = "listed" /\ toList' = toList \ {a}
    /\ Bind("bt", <<AddJob(a, TRUE)>>)
    /\ UNCHANGED <<world, scanning, scans, registered, listening,
                   adding, deviceMap, profile, server, quits, exited, history>>

Listen ==
    /\ phase = "list" /\ toList = {}
    /\ phase' = "init" /\ listening' = TRUE
    /\ UNCHANGED <<Rest, toList, scanning, registered, requests>>

InitServices ==
    /\ phase = "init" /\ phase' \in {"started", "failed"}
    /\ UNCHANGED <<Rest, toList, scanning, registered, listening, requests>>

-----------------------------------------------------------------------------
(* stop() and the end of the program *)

Unseen == \/ serving.step = "connect"
          \/ \E i \in DOMAIN requests : requests[i].op \in {"connect", "selfConnect"}

\* Mutant: stop() does not disconnect.
StopBegins_StillConnected ==
    /\ phase' = "stopScan"
    /\ late' = (late \/ Unseen)
    /\ UNCHANGED <<requests, exited, hurried>>

\* stop() disconnects the device that is connected when it is called; it
\* does not see one that is being connected, or is asked for.
StopBegins ==
    /\ IF connected # None
       THEN phase' = "disconnect" /\ Ask(<<Request("stop", connected)>>)
       ELSE phase' = "stopScan" /\ UNCHANGED requests
    /\ late' = (late \/ Unseen)
    /\ UNCHANGED <<exited, hurried>>

\* There is nothing to stop, or somebody else is stopping it.
StopReturns ==
    /\ exited' = TRUE
    /\ hurried' = (hurried \/ phase \in Starting \cup Stopping)
    /\ UNCHANGED <<phase, requests, late>>

Quit ==
    /\ quits < MaxQuits
    /\ quits' = quits + 1
    /\ IF phase = "started" THEN StopBegins ELSE StopReturns
    /\ UNCHANGED <<world, toList, handlers, serving, nameMap,
                   connected, lost>>

StopScan ==
    /\ phase = "stopScan" /\ phase' = "stopDiscovery"
    /\ scanning' = FALSE
    /\ UNCHANGED <<Rest, toList, registered, listening, requests>>

StopDiscovery ==
    /\ phase = "stopDiscovery"
    /\ phase' \in {"stopped"} \cup IF "bt" \in configured THEN {"unregister"}
                                   ELSE {}
    /\ listening' = FALSE
    /\ UNCHANGED <<Rest, toList, scanning, registered, requests>>

UnregisterProfile ==
    /\ phase = "unregister" /\ phase' = "stopped"
    /\ registered' \in {registered, FALSE}
    /\ UNCHANGED <<Rest, toList, scanning, listening, requests>>

\* stop() has returned to the quit that called it.
Exit ==
    /\ phase = "stopped"
    /\ exited' = TRUE
    /\ UNCHANGED <<world, lifecycle, handlers, server, quits,
                   history>>

-----------------------------------------------------------------------------
Environment ==
    \/ \E m \in Macs : HostChanges(m)
    \/ \E a \in Addresses : BluezChanges(a) \/ NewConnection(a)
    \/ \E k \in Keys : UserConnects(k)
    \/ TransportEnds
    \/ Quit

ScanEnded == \E i \in DOMAIN scans : ScanEnds(i)

Handle(h) == AddBegins(h) \/ AddGivesUp(h) \/ AddEnds(h) \/ RemoveDevice(h)

Serve == \/ ServeAdd \/ ServeRemove \/ ServeConnect \/ ServeSelfConnect
         \/ ServeDisconnect \/ ServeStop \/ Connects \/ SetUp

Advance ==
    \/ BuildHandlers \/ StartScan \/ RegisterProfile \/ StartDiscovery
    \/ \E a \in Addresses : AddListed(a)
    \/ Listen \/ InitServices
    \/ StopScan \/ StopDiscovery \/ UnregisterProfile \/ Exit

Next ==
    /\ ~exited
    /\ \/ Environment
       \/ ScanStarts \/ ScanEnded
       \/ \E h \in Handlers : Handle(h)
       \/ Serve
       \/ Advance

\* doStart is awaited with connectionLock held.
AwaitsDoStart == serving.step = "start"

\* Timers fire, and what is awaited settles, but for doStart: an abort between
\* two of its waits is lost, and it may wait for the phone for ever.
Fairness ==
    /\ WF_vars(~exited /\ ScanStarts)
    /\ WF_vars(~exited /\ ScanEnded)
    /\ \A h \in Handlers : WF_vars(~exited /\ Handle(h))
    /\ WF_vars(~exited /\ ~AwaitsDoStart /\ Serve)
    /\ WF_vars(~exited /\ Advance)

Spec == Init /\ [][Next]_vars /\ Fairness

-----------------------------------------------------------------------------
(* Properties *)

\* When no call waits for a lock, the server lists exactly the devices of its
\* handlers, the very objects, however scans overlapped.
Settled == /\ requests = <<>> /\ serving = NotServing
           /\ \A h \in Handlers : jobs[h] = <<>> /\ Free(h)
ServerFollowsHandlers ==
    Settled => \A k \in Keys : k \notin lost => nameMap[k] = deviceMap[k]

\* A connection of the profile reaches the device that is listed under its
\* address, unless that was removed while the handler did not listen.
ProfileFollowsDevices ==
    \A a \in Addresses : a \notin lost => profile[a] = deviceMap[a]

\* The program ends with the server stopped, unless it was told to quit
\* while the server was starting or stopping; and with nothing connected,
\* unless a request to connect was under way that stop() did not see.
OrderlyQuit ==
    exited /\ ~hurried =>
        /\ phase \in {"stopped", "failed"}
        /\ phase = "stopped" =>
             /\ ~scanning /\ ~listening
             /\ ~late => connected = None /\ serving = NotServing

\* The hosts of the network are listed in the end, if the scan goes on and
\* finds them: a discovery that fails is logged, and the next one is waited for.
ScansCatchUp ==
    <>[](scanning /\ ~exited) =>
        <>[](\A m \in Macs : deviceMap[m] # None <=> m \in present)

\* Told to quit, the program ends, unless doStart never settles: stop() then
\* waits for connectionLock behind it, to disconnect a device.
DoStartHangs == <>[]AwaitsDoStart
QuitExits == DoStartHangs \/ (quits > 0 ~> exited)
=============================================================================
